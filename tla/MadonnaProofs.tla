---------------------------- MODULE MadonnaProofs ----------------------------
(* Theorems of Madonna, for any docks, commands and workers: the register    *)
(* is not changed under a loop over it, updating tells of every task, and    *)
(* the plot a frame reaches without a handle is not freed.  And of the asset *)
(* store the same frames upload to, GlAssets, for any textures and targets:  *)
(* each name of OpenGL is in one field of one of them.  And of the methods   *)
(* the dock draws, Optim, for any valleys, quadratics, intervals and starts: *)
(* they keep track of the optimum.  Of the grids drawn under them, Grid, for *)
(* any two spans: a function is read back as it was sampled.  And of the     *)
(* command line its other dock reads.  Commands, for any names and any map   *)
(* that bind, push and pop make: the command looked up is the one "man"      *)
(* describes.  FastCli, for any options, tokens and lines: a line is cut     *)
(* where it says, and the options a command hears of are its tokens, each    *)
(* once.                                                                     *)
EXTENDS Madonna, GlAssets, Optim, Grid, FastCli,
        FiniteSetTheorems, FunctionTheorems, SequenceTheorems,
        WellFoundedInduction, TLAPS

\* The types the other parts need.
TypesInv ==
  /\ register \subseteq Docks \union {Cli}
  /\ left \subseteq Docks \union {Cli}
  /\ guiPc \in {"hon", "use", "using", "ask", "end"} => cur \in Docks
  /\ updating \in [Docks -> BOOLEAN]
  /\ tasks \in Seq(Docks)
  /\ wdock \in [Workers -> Docks \union {None}]
  /\ wpc \in [Workers -> {"off", "idle", "task", "store", "clear"}]

\* The GUI thread is made by start, once.
StartInv == mainPc = "init" => guiPc = "off"

\* The lock of the register stays with the loop that took it.
LockInv == /\ mainPc = "wake" => docksLock = "main"
           /\ Drawing => docksLock = "gui"

\* A dock is in one task at most, which has set its updating.
TasksInv ==
  /\ UpdatingGuardsDock
  /\ \A i, j \in 1..Len(tasks) : tasks[i] = tasks[j] => i = j
  /\ \A v, w \in Workers : wdock[v] = wdock[w] /\ wdock[v] # None => v = w
  /\ \A i \in 1..Len(tasks), w \in Workers : tasks[i] # wdock[w]

\* A task that has still to publish a plot of the dock.
WillStore(d) ==
  \/ \E i \in 1..Len(tasks) : tasks[i] = d
  \/ \E w \in Workers : wdock[w] = d /\ wpc[w] \in {"task", "store"}

\* A plot was replaced under the frame's watch: no second task is about to
\* replace the one after it, since the next is asked for by a later frame.
WatchInv ==
  /\ guiPc \in {"use", "using"} => \/ held = "current"
                                   \/ held = "old" /\ ~ WillStore(cur)
  /\ bare \in {"no", "held", "bare"}
  /\ bare # "no" => guiPc = "using"
  /\ bare = "bare" => held = "old"

IInv == TypesInv /\ StartInv /\ LockInv /\ TasksInv /\ WatchInv

\* The program begins without tasks, watches and locks.
LEMMA InitInv == Init => IInv
BY MadonnaAssumption DEF Init, IInv, TypesInv, StartInv, LockInv, Drawing,
   TasksInv,
   UpdatingGuardsDock, InFlight, WatchInv

\* The parts about the start and the lock stay when a step leaves main, the
\* lock and the place of the GUI alone.
LEMMA OthersStay ==
  ASSUME StartInv, LockInv,
         UNCHANGED <<mainPc, docksLock, guiPc>>
  PROVE  StartInv' /\ LockInv'
BY DEF StartInv, LockInv, Drawing

\* The push of the task of the dock that is drawn.
LEMMA HonAskStep == IInv /\ HonAsk => IInv'
<1>. SUFFICES ASSUME IInv, HonAsk PROVE IInv'
  OBVIOUS
<1>1. /\ guiPc = "ask" /\ guiPc' = "end" /\ cur \in Docks
      /\ UNCHANGED <<boot, docks, left, cur, held, bare, wpc, wdock>>
  BY DEF HonAsk, IInv, TypesInv
<1>2. StartInv' /\ LockInv' /\ WatchInv'
  BY <1>1 DEF IInv, StartInv, LockInv, Drawing, WatchInv, boot, docks
<1>3. CASE tasks' = tasks /\ updating' = updating
  <2>1. TypesInv' /\ TasksInv'
    BY <1>1, <1>3 DEF IInv, TypesInv, TasksInv, UpdatingGuardsDock, InFlight,
       docks
  <2>. QED
    BY <1>2, <2>1 DEF IInv
<1>4. CASE /\ ~updating[cur]
           /\ updating' = [updating EXCEPT ![cur] = TRUE]
           /\ tasks' = tasks
  <2>1. TypesInv' /\ TasksInv'
    BY <1>1, <1>4 DEF IInv, TypesInv, TasksInv, UpdatingGuardsDock, InFlight,
       docks
  <2>. QED
    BY <1>2, <2>1 DEF IInv
<1>5. CASE /\ ~updating[cur]
           /\ updating' = [updating EXCEPT ![cur] = TRUE]
           /\ tasks' = Append(tasks, cur)
  <2>1. /\ tasks' \in Seq(Docks) /\ Len(tasks') = Len(tasks) + 1
        /\ \A i \in 1..Len(tasks) : tasks'[i] = tasks[i]
        /\ tasks'[Len(tasks) + 1] = cur
        /\ Len(tasks) \in Nat
    BY <1>1, <1>5 DEF IInv, TypesInv
  <2>2. TypesInv'
    BY <1>1, <1>5, <2>1 DEF IInv, TypesInv, docks
  <2>3. /\ \A i \in 1..Len(tasks) : tasks[i] # cur
        /\ \A v \in Workers : wdock[v] # cur
    BY <1>1, <1>5 DEF IInv, TasksInv, UpdatingGuardsDock, InFlight
  <2>4. \A d \in Docks : InFlight(d)' => InFlight(d) \/ d = cur
    BY <1>1, <2>1 DEF InFlight
  <2>5. UpdatingGuardsDock'
    BY <1>1, <1>5, <2>4 DEF IInv, TypesInv, TasksInv, UpdatingGuardsDock
  <2>6. \A i, j \in 1..Len(tasks') : tasks'[i] = tasks'[j] => i = j
    BY <2>1, <2>3 DEF IInv, TasksInv
  <2>7. \A i \in 1..Len(tasks'), v \in Workers : tasks'[i] # wdock'[v]
    BY <1>1, <2>1, <2>3 DEF IInv, TasksInv
  <2>8. TasksInv'
    BY <1>1, <2>5, <2>6, <2>7 DEF IInv, TasksInv
  <2>. QED
    BY <1>2, <2>2, <2>8 DEF IInv
<1>. QED
  BY <1>3, <1>4, <1>5 DEF HonAsk

\* The steps of a worker with a task.
LEMMA WorkerStep ==
  ASSUME IInv, NEW w \in Workers, WorkerSteps(w)
  PROVE  IInv'
<1>1. CASE TaskTake(w)
  <2>1. /\ wpc' = [wpc EXCEPT ![w] = "task"]
        /\ wdock' = [wdock EXCEPT ![w] = Head(tasks)]
        /\ tasks' = Tail(tasks) /\ tasks # <<>>
        /\ UNCHANGED <<boot, docks, gui, plots>>
    BY <1>1 DEF TaskTake
  <2>2. /\ tasks' \in Seq(Docks) /\ Len(tasks') = Len(tasks) - 1
        /\ \A i \in 1..Len(tasks') : tasks'[i] = tasks[i + 1]
        /\ Head(tasks) = tasks[1] /\ tasks[1] \in Docks
        /\ Len(tasks) \in Nat \ {0}
    BY <2>1 DEF IInv, TypesInv
  <2>3. TypesInv'
    BY <2>1, <2>2 DEF IInv, TypesInv, docks, gui, plots
  <2>4. StartInv' /\ LockInv'
    BY <2>1, OthersStay DEF IInv, boot, docks, gui
  <2>5. \A d \in Docks : InFlight(d)' => InFlight(d)
    BY <2>1, <2>2 DEF InFlight, IInv, TypesInv
  <2>6. UpdatingGuardsDock'
    BY <2>1, <2>5 DEF IInv, TasksInv, UpdatingGuardsDock, plots
  <2>7. \A i, j \in 1..Len(tasks') : tasks'[i] = tasks'[j] => i = j
    BY <2>2 DEF IInv, TasksInv
  <2>8. \A u, v \in Workers : wdock'[u] = wdock'[v] /\ wdock'[u] # None => u = v
    BY <2>1, <2>2 DEF IInv, TypesInv, TasksInv
  <2>9. \A i \in 1..Len(tasks'), v \in Workers : tasks'[i] # wdock'[v]
    BY <2>1, <2>2 DEF IInv, TypesInv, TasksInv
  <2>10. TasksInv'
    BY <2>6, <2>7, <2>8, <2>9 DEF TasksInv
  <2>11. \A d \in Docks : WillStore(d)' => WillStore(d)
    BY <2>1, <2>2 DEF WillStore, IInv, TypesInv
  <2>12. WatchInv'
    BY <2>1, <2>11 DEF IInv, TypesInv, WatchInv, gui
  <2>. QED
    BY <2>3, <2>4, <2>10, <2>12 DEF IInv
<1>2. CASE TaskBuild(w)
  <2>1. /\ wpc[w] = "task"
        /\ \E pc \in {"store", "clear"} : wpc' = [wpc EXCEPT ![w] = pc]
        /\ UNCHANGED <<boot, docks, gui, plots, tasks, wdock>>
    BY <1>2 DEF TaskBuild
  <2>2. TypesInv'
    BY <2>1 DEF IInv, TypesInv, docks, gui, plots
  <2>3. StartInv' /\ LockInv'
    BY <2>1, OthersStay DEF IInv, boot, docks, gui
  <2>4. TasksInv'
    BY <2>1 DEF IInv, TasksInv, UpdatingGuardsDock, InFlight, plots
  <2>5. \A d \in Docks : WillStore(d)' => WillStore(d)
    BY <2>1 DEF WillStore, IInv, TypesInv
  <2>6. WatchInv'
    BY <2>1, <2>5 DEF IInv, TypesInv, WatchInv, gui
  <2>. QED
    BY <2>2, <2>3, <2>4, <2>6 DEF IInv
<1>3. CASE TaskStore(w)
  <2>1. /\ wpc[w] = "store" /\ wpc' = [wpc EXCEPT ![w] = "clear"]
        /\ UNCHANGED <<boot, docks, guiPc, left, cur, updating, tasks, wdock>>
    BY <1>3 DEF TaskStore
  <2>2. TypesInv'
    BY <2>1 DEF IInv, TypesInv, docks
  <2>3. StartInv' /\ LockInv'
    BY <2>1, OthersStay DEF IInv, boot, docks
  <2>4. TasksInv'
    BY <2>1 DEF IInv, TasksInv, UpdatingGuardsDock, InFlight
  <2>5. \A d \in Docks : WillStore(d)' => WillStore(d) /\ d # wdock[w]
    BY <2>1, MadonnaAssumption DEF WillStore, IInv, TypesInv, TasksInv
  <2>6. CASE cur = wdock[w]
    <3>1. guiPc \in {"use", "using"} => held = "current"
      BY <2>1, <2>6 DEF IInv, WatchInv, WillStore
    <3>2. /\ held' = IF held = "current" THEN "old" ELSE held
          /\ bare' = IF bare = "bare" THEN "freed" ELSE bare
      BY <1>3, <2>6 DEF TaskStore
    <3>3. WatchInv'
      BY <2>1, <2>5, <2>6, <3>1, <3>2 DEF IInv, TypesInv, WatchInv
    <3>. QED
      BY <2>2, <2>3, <2>4, <3>3 DEF IInv
  <2>7. CASE cur # wdock[w]
    <3>1. held' = held /\ bare' = bare
      BY <1>3, <2>7 DEF TaskStore
    <3>2. WatchInv'
      BY <2>1, <2>5, <3>1 DEF IInv, TypesInv, WatchInv
    <3>. QED
      BY <2>2, <2>3, <2>4, <3>2 DEF IInv
  <2>. QED
    BY <2>6, <2>7
<1>4. CASE TaskClear(w)
  <2>1. /\ wpc' = [wpc EXCEPT ![w] = "idle"]
        /\ wdock' = [wdock EXCEPT ![w] = None]
        /\ updating' = [updating EXCEPT ![wdock[w]] = FALSE]
        /\ UNCHANGED <<boot, docks, gui, tasks>>
    BY <1>4 DEF TaskClear
  <2>2. TypesInv'
    BY <2>1 DEF IInv, TypesInv, docks, gui
  <2>3. StartInv' /\ LockInv'
    BY <2>1, OthersStay DEF IInv, boot, docks, gui
  <2>4. \A d \in Docks : InFlight(d)' => InFlight(d) /\ d # wdock[w]
    BY <2>1, MadonnaAssumption DEF InFlight, IInv, TypesInv, TasksInv
  <2>5. UpdatingGuardsDock'
    BY <2>1, <2>4 DEF IInv, TypesInv, TasksInv, UpdatingGuardsDock
  <2>6. TasksInv'
    BY <2>1, <2>5, MadonnaAssumption DEF IInv, TypesInv, TasksInv
  <2>7. \A d \in Docks : WillStore(d)' => WillStore(d)
    BY <2>1 DEF WillStore, IInv, TypesInv
  <2>8. WatchInv'
    BY <2>1, <2>7 DEF IInv, TypesInv, WatchInv, gui
  <2>. QED
    BY <2>2, <2>3, <2>6, <2>8 DEF IInv
<1>5. CASE TaskCrash(w)
  BY <1>5 DEF TaskCrash, IInv, TypesInv, StartInv, LockInv, Drawing, TasksInv,
     UpdatingGuardsDock, InFlight, WatchInv, WillStore, docks, gui, plots, pool
<1>. QED
  BY <1>1, <1>2, <1>3, <1>4, <1>5 DEF WorkerSteps

\* One step for each action.
LEMMA StepInv == IInv /\ [Next]_vars => IInv'
<1>. SUFFICES ASSUME IInv, [Next]_vars PROVE IInv'
  OBVIOUS
<1>. USE MadonnaAssumption DEF IInv, TypesInv, StartInv, LockInv, Drawing,
     TasksInv, UpdatingGuardsDock, InFlight, WatchInv, WillStore, boot, docks,
     gui, plots, pool, vars
<1>1. ASSUME MainStart PROVE IInv'
  BY <1>1 DEF MainStart
<1>2. ASSUME MainWatch PROVE IInv'
  BY <1>2 DEF MainWatch
<1>3. ASSUME MainLaunch PROVE IInv'
  BY <1>3 DEF MainLaunch
<1>4. ASSUME MainWait PROVE IInv'
  BY <1>4 DEF MainWait, SignalStop
<1>5. ASSUME MainJoin PROVE IInv'
  BY <1>5 DEF MainJoin
<1>6. ASSUME SigInt PROVE IInv'
  BY <1>6 DEF SigInt, SignalStop
<1>7. ASSUME GuiSetup PROVE IInv'
  BY <1>7 DEF GuiSetup
<1>8. ASSUME GuiLoop PROVE IInv'
  BY <1>8 DEF GuiLoop
<1>9. ASSUME GuiLock PROVE IInv'
  BY <1>9 DEF GuiLock
<1>10. ASSUME GuiFrameEnd PROVE IInv'
  BY <1>10 DEF GuiFrameEnd
<1>11. ASSUME GuiExit PROVE IInv'
  BY <1>11 DEF GuiExit, SignalStop
<1>12. ASSUME CliFrame PROVE IInv'
  BY <1>12 DEF CliFrame
<1>13. ASSUME CliDrawn PROVE IInv'
  BY <1>13 DEF CliDrawn
<1>14. ASSUME HonWatch PROVE IInv'
  BY <1>14 DEF HonWatch
<1>15. ASSUME HonUse PROVE IInv'
  BY <1>15 DEF HonUse
<1>16. ASSUME HonUsed PROVE IInv'
  BY <1>16 DEF HonUsed
<1>17. ASSUME HonAsk PROVE IInv'
  BY <1>17, HonAskStep
<1>18. ASSUME HonEnd PROVE IInv'
  BY <1>18 DEF HonEnd
<1>19. ASSUME NEW d \in register, MainWake(d) PROVE IInv'
  <2>1. UNCHANGED <<mainPc, docks, gui, plots, pool>>
    BY <1>19 DEF MainWake
  <2>. QED
    BY <2>1
<1>20. ASSUME NEW d \in register, GuiNext(d) PROVE IInv'
  BY <1>20 DEF GuiNext
<1>21. ASSUME NEW c \in Cmds, CmdOther(c) PROVE IInv'
  BY <1>21 DEF CmdOther
<1>22. ASSUME NEW c \in Cmds, CmdExit(c) PROVE IInv'
  BY <1>22 DEF CmdExit, SignalStop
<1>23. ASSUME NEW c \in Cmds, CmdProxy(c) PROVE IInv'
  BY <1>23 DEF CmdProxy
<1>24. ASSUME NEW c \in Cmds, CmdInstall(c) PROVE IInv'
  BY <1>24 DEF CmdInstall
<1>25. ASSUME NEW c \in Cmds, CmdOut(c) PROVE IInv'
  BY <1>25 DEF CmdOut
<1>26. ASSUME NEW w \in Workers, WorkerSteps(w) PROVE IInv'
  BY <1>26, WorkerStep
<1>27. CASE UNCHANGED vars
  BY <1>27
<1>. QED
  BY <1>1, <1>2, <1>3, <1>4, <1>5, <1>6, <1>7, <1>8, <1>9, <1>10, <1>11,
     <1>12, <1>13, <1>14, <1>15, <1>16, <1>17, <1>18, <1>19, <1>20, <1>21,
     <1>22, <1>23, <1>24, <1>25, <1>26, <1>27
     DEF Next, MainSteps, GuiSteps, CmdSteps

\* The invariant holds in every behaviour of the program.
LEMMA SpecInv == Spec => []IInv
BY InitInv, StepInv, PTL DEF Spec

-----------------------------------------------------------------------------

\* From the push of a dock's task to the task's last store, updating of the
\* dock is set, so that no second task is pushed and the two never build and
\* publish plots of the dock at once (hon-opt.cpp:527-532).
THEOREM UpdatingAlwaysGuards == Spec => []UpdatingGuardsDock
<1>1. IInv => UpdatingGuardsDock
  BY DEF IInv, TasksInv
<1>. QED
  BY SpecInv, <1>1, PTL

\* The gradient and Hessian reach the plot through this->ex with no handle,
\* and no worker frees it under them: the frame's own watch has the plot of
\* its start, and one more could be published only by a task that updating
\* has already excluded (hon-opt.cpp:84-90, :527).
THEOREM UnheldAlwaysAlive == Spec => []UnheldIsAlive
<1>1. IInv => UnheldIsAlive
  BY DEF IInv, WatchInv, UnheldIsAlive
<1>. QED
  BY SpecInv, <1>1, PTL

\* Only the frame at work on a dock takes that dock from under its own loop.
LEMMA RegisterStep ==
  IInv /\ [Next]_vars =>
    [register' # register =>
       /\ mainPc # "wake"
       /\ Drawing => guiPc = "end" /\ register' = register \ {cur}]_vars
<1>. SUFFICES ASSUME IInv, Next, register' # register
              PROVE  /\ mainPc # "wake"
                     /\ Drawing => /\ guiPc = "end"
                                   /\ register' = register \ {cur}
  BY DEF vars, docks
<1>1. \/ HonEnd
      \/ \E c \in Cmds : CmdInstall(c)
  BY DEF Next, MainSteps, GuiSteps, CmdSteps, WorkerSteps, vars, docks,
     MainStart, MainWatch, MainWake, MainLaunch, MainWait, MainJoin, SigInt,
     GuiSetup, GuiLoop, GuiLock, GuiNext, GuiFrameEnd, GuiExit, CliFrame,
     CliDrawn, HonWatch, HonUse, HonUsed, HonAsk, CmdOther, CmdExit, CmdProxy,
     CmdOut, TaskTake, TaskBuild, TaskStore, TaskClear, TaskCrash
<1>2. CASE HonEnd
  BY <1>2 DEF HonEnd, IInv, LockInv, Drawing
<1>3. CASE \E c \in Cmds : CmdInstall(c)
  BY <1>3, MadonnaAssumption DEF CmdInstall, IInv, LockInv
<1>. QED
  BY <1>1, <1>2, <1>3

\* No thread adds a dock to the register or takes one out under the loop of
\* start or of guix_frame over it, but the frame's own erase of the dock it
\* has drawn (bridge.hpp:257-264, :312-319).
THEOREM RegisterAlwaysStable == Spec => RegisterIsStable
BY SpecInv, RegisterStep, PTL DEF Spec, RegisterIsStable

-----------------------------------------------------------------------------
(* The asset store.  A field is where an object keeps a name; Owned says of  *)
(* what the fields hold that it is a set of names, each in one field.        *)

Fields == (Texs \X {"tex"}) \cup (Targs \X {"tex", "fbo", "rbo"})

Value == [p \in Fields |-> IF p[1] \in Texs THEN tex[p[1]]
                           ELSE targ[p[1]][p[2]]]

\* Each name is in one field, and a field holds a name or none.
Owned(val, names) ==
  /\ val \in [Fields -> Int]
  /\ \A n \in names : n \in Nat /\ n > NONE
  /\ \A p \in Fields : val[p] > NONE => val[p] \in names
  /\ \A p, q \in Fields : val[p] > NONE /\ val[p] = val[q] => p = q
  /\ \A n \in names : \E p \in Fields : val[p] = n

\* A field without a name gets one that nobody has.
LEMMA OwnedAdd ==
  ASSUME NEW val, NEW names, Owned(val, names), NEW p \in Fields,
         val[p] <= NONE, NEW n \in Nat, n > NONE, n \notin names
  PROVE  Owned([val EXCEPT ![p] = n], names \cup {n})
<1>. DEFINE w == [val EXCEPT ![p] = n]
<1>1. /\ w \in [Fields -> Int] /\ w[p] = n
      /\ \A q \in Fields : q # p => w[q] = val[q]
  BY DEF Owned
<1>. HIDE DEF w
<1>2. \A m \in names \cup {n} : m \in Nat /\ m > NONE
  BY DEF Owned
<1>3. \A q \in Fields : w[q] > NONE => w[q] \in names \cup {n}
  BY <1>1 DEF Owned
<1>4. \A q, r \in Fields : w[q] > NONE /\ w[q] = w[r] => q = r
  BY <1>1 DEF Owned
<1>5. \A m \in names \cup {n} : \E q \in Fields : w[q] = m
  <2>1. ASSUME NEW m \in names PROVE \E q \in Fields : w[q] = m
    <3>1. PICK q \in Fields : val[q] = m
      BY DEF Owned
    <3>2. q # p
      BY <3>1 DEF Owned, NONE
    <3>. QED  BY <1>1, <3>1, <3>2
  <2>. QED  BY <1>1, <2>1
<1>6. Owned(w, names \cup {n})
  BY <1>1, <1>2, <1>3, <1>4, <1>5 DEF Owned
<1>. QED  BY <1>6 DEF w

\* A field gives up the name it has, if it has one.
LEMMA OwnedDrop ==
  ASSUME NEW val, NEW names, Owned(val, names), NEW p \in Fields,
         NEW m \in Int, m <= NONE
  PROVE  Owned([val EXCEPT ![p] = m], names \ {val[p]})
<1>. DEFINE w == [val EXCEPT ![p] = m]
<1>1. /\ w \in [Fields -> Int] /\ w[p] = m
      /\ \A q \in Fields : q # p => w[q] = val[q]
  BY DEF Owned
<1>. HIDE DEF w
<1>2. \A n \in names \ {val[p]} : n \in Nat /\ n > NONE
  BY DEF Owned
<1>3. \A q \in Fields : w[q] > NONE => w[q] \in names \ {val[p]}
  BY <1>1 DEF Owned, NONE
<1>4. \A q, r \in Fields : w[q] > NONE /\ w[q] = w[r] => q = r
  BY <1>1 DEF Owned, NONE
<1>5. \A n \in names \ {val[p]} : \E q \in Fields : w[q] = n
  BY <1>1 DEF Owned
<1>6. Owned(w, names \ {val[p]})
  BY <1>1, <1>2, <1>3, <1>4, <1>5 DEF Owned
<1>. QED  BY <1>6 DEF w

\* A field hands what it has to a field without a name.
LEMMA OwnedMove ==
  ASSUME NEW val, NEW names, Owned(val, names), NEW p \in Fields,
         NEW q \in Fields, p # q, val[q] <= NONE, NEW m \in Int, m <= NONE
  PROVE  Owned([val EXCEPT ![q] = val[p], ![p] = m], names)
<1>. DEFINE w == [val EXCEPT ![q] = val[p], ![p] = m]
<1>1. /\ w \in [Fields -> Int] /\ w[p] = m /\ w[q] = val[p]
      /\ \A r \in Fields : r # p /\ r # q => w[r] = val[r]
  BY DEF Owned
<1>. HIDE DEF w
<1>2. \A r \in Fields : w[r] > NONE => w[r] \in names
  BY <1>1 DEF Owned, NONE
<1>3. \A r, s \in Fields : w[r] > NONE /\ w[r] = w[s] => r = s
  BY <1>1 DEF Owned, NONE
<1>4. \A n \in names : \E r \in Fields : w[r] = n
  <2>. TAKE n \in names
  <2>1. PICK r \in Fields : val[r] = n
    BY DEF Owned
  <2>2. r # q
    BY <2>1 DEF Owned, NONE
  <2>. QED  BY <1>1, <2>1, <2>2
<1>5. Owned(w, names)
  BY <1>1, <1>2, <1>3, <1>4 DEF Owned
<1>. QED  BY <1>5 DEF w

\* What glGen* gives is a name nobody has.
LEMMA FreshIs ==
  ASSUME NEW taken, taken \subseteq Nat, IsFiniteSet(taken),
         Cardinality(taken) < MaxNames + 4
  PROVE  /\ Fresh(taken) \in 1 .. MaxNames + 4
         /\ Fresh(taken) \notin taken
<1>. DEFINE All == 1 .. MaxNames + 4
            Left == All \ taken
<1>1. Left # {}
  <2>. SUFFICES ASSUME Left = {} PROVE FALSE
    OBVIOUS
  <2>1. All \in SUBSET taken
    OBVIOUS
  <2>2. MaxNames + 4 \in Nat
    BY GlAssumption
  <2>3. Cardinality(All) = MaxNames + 4
    BY <2>2, FS_Interval
  <2>4. Cardinality(All) <= Cardinality(taken) /\ Cardinality(taken) \in Nat
    BY <2>1, FS_Subset, FS_CardinalityType
  <2>. QED  BY <2>2, <2>3, <2>4
<1>2. PICK n \in Left : \A k \in Left : ~ (<<k, n>> \in OpToRel(<, Nat))
  <2>1. Left \subseteq Nat
    BY GlAssumption
  <2>. QED  BY <1>1, <2>1, NatLessThanWellFounded, WFMin
<1>3. n \in All /\ n \notin taken /\ n \in Nat
  <2>1. n \in Left
    BY <1>2
  <2>. HIDE <1>2
  <2>2. n \in 1 .. MaxNames + 4 /\ n \notin taken
    BY <2>1
  <2>. QED  BY <2>2, GlAssumption
<1>4. ASSUME NEW k \in 1 .. n - 1 PROVE k \in taken
  <2>1. k \in All /\ k \in Nat /\ k < n
    BY <1>3, GlAssumption
  <2>2. <<k, n>> \in OpToRel(<, Nat)
    BY <1>3, <2>1 DEF OpToRel
  <2>. QED  BY <1>2, <2>1, <2>2
<1>. QED  BY <1>3, <1>4 DEF Fresh

\* The types of the store; what OpenGL gives out is in Nat.
StoreTypes ==
  /\ live \subseteq Nat \ {NONE} /\ IsFiniteSet(live) /\ gone \subseteq live
  /\ tex \in [Texs -> Nat \cup {NoTex}]
  /\ refs \in [Texs -> Nat]
  /\ ring \in Seq([verb : Verbs, ref : Texs])
  /\ targ \in [Targs -> [tex : Nat, fbo : Nat, rbo : Nat]]
  /\ stack \in Seq(Targs)

\* What OpenGL has given out, and what of it the fields hold.
NamesInv ==
  /\ live \subseteq Nat \ {NONE} /\ IsFiniteSet(live) /\ gone \subseteq live
  /\ tex \in [Texs -> Nat \cup {NoTex}]
  /\ Owned(Value, live \ gone)

\* A texture somebody has a handle of is an object, with or without a name,
\* and a target without a texture has no other name.
ObjectsInv ==
  /\ \A t \in Texs : Alive(t) => tex[t] # NoTex
  /\ \A g \in Targs : targ[g].tex = NONE =>
       targ[g].fbo = NONE /\ targ[g].rbo = NONE

BoundInv == bound \in {NONE} \cup
              (IF stack = <<>> THEN {} ELSE {targ[Last(stack)].fbo})

StoreInv == /\ StoreTypes /\ ObjectsInv /\ BoundInv
            /\ Owned(Value, live \ gone)

\* Nothing is made yet.
LEMMA StoreInit == AInit => StoreInv
<1>. SUFFICES ASSUME AInit PROVE StoreInv
  OBVIOUS
<1>1. StoreTypes
  BY FS_EmptySet DEF AInit, StoreTypes, NoTex, NONE
<1>2. ObjectsInv /\ BoundInv
  BY DEF AInit, ObjectsInv, BoundInv, Alive, InRing, NONE
<1>3. \A p \in Fields : Value[p] \in {NoTex, NONE}
  BY DEF AInit, Value, Fields
<1>4. Owned(Value, live \ gone)
  BY <1>3 DEF AInit, Owned, Value, NoTex, NONE
<1>. QED  BY <1>1, <1>2, <1>4 DEF StoreInv

\* What the fields of an object are in Value.
LEMMA ValueAt ==
  ASSUME StoreTypes
  PROVE  /\ \A t \in Texs :
              <<t, "tex">> \in Fields /\ Value[<<t, "tex">>] = tex[t]
         /\ \A g \in Targs :
              /\ <<g, "tex">> \in Fields /\ Value[<<g, "tex">>] = targ[g].tex
              /\ <<g, "fbo">> \in Fields /\ Value[<<g, "fbo">>] = targ[g].fbo
              /\ <<g, "rbo">> \in Fields /\ Value[<<g, "rbo">>] = targ[g].rbo
BY GlAssumption DEF Fields, Value, StoreTypes

\* A texture's name is one field of Value.
LEMMA TexChanges ==
  ASSUME NEW t \in Texs, NEW m, StoreTypes, UNCHANGED targ,
         tex' = [tex EXCEPT ![t] = m]
  PROVE  Value' = [Value EXCEPT ![<<t, "tex">>] = m]
<1>1. ASSUME NEW p \in Fields
      PROVE  Value'[p] = IF p = <<t, "tex">> THEN m ELSE Value[p]
  <2>1. CASE p \in Texs \X {"tex"}
    <3>1. PICK u \in Texs : p = <<u, "tex">>
      BY <2>1
    <3>2. Value'[p] = tex'[u] /\ Value[p] = tex[u]
      BY <3>1 DEF Value
    <3>3. tex'[u] = IF u = t THEN m ELSE tex[u]
      BY DEF StoreTypes
    <3>. QED  BY <3>1, <3>2, <3>3
  <2>2. CASE p \in Targs \X {"tex", "fbo", "rbo"}
    <3>1. p[1] \notin Texs /\ p # <<t, "tex">>
      BY <2>2, GlAssumption
    <3>. QED  BY <3>1 DEF Value
  <2>. QED  BY <2>1, <2>2 DEF Fields
<1>. QED  BY <1>1 DEF Value

\* A function that differs from another in three places.
LEMMA ThreePlaces ==
  ASSUME NEW S, NEW f, NEW h, NEW x \in S, NEW y \in S, NEW z \in S,
         NEW a, NEW b, NEW c,
         f = [p \in S |-> f[p]], h = [p \in S |-> h[p]],
         \A p \in S : h[p] = IF p = z THEN c ELSE IF p = y THEN b
                            ELSE IF p = x THEN a ELSE f[p]
  PROVE  h = [[[f EXCEPT ![x] = a] EXCEPT ![y] = b] EXCEPT ![z] = c]
<1>. DEFINE g == [[[f EXCEPT ![x] = a] EXCEPT ![y] = b] EXCEPT ![z] = c]
<1>1. g = [p \in S |-> g[p]]
  OBVIOUS
<1>2. ASSUME NEW p \in S
      PROVE  g[p] = IF p = z THEN c ELSE IF p = y THEN b
                    ELSE IF p = x THEN a ELSE f[p]
  OBVIOUS
<1>3. \A p \in S : h[p] = g[p]
  BY <1>2
<1>. HIDE DEF g
<1>4. h = g
  BY <1>1, <1>3
<1>. QED  BY <1>4 DEF g

\* A target's names are three.
LEMMA TargChanges ==
  ASSUME NEW g \in Targs, NEW new, StoreTypes, UNCHANGED tex,
         targ' = [targ EXCEPT ![g] = new]
  PROVE  Value' = [[[Value EXCEPT ![<<g, "tex">>] = new.tex]
                           EXCEPT ![<<g, "fbo">>] = new.fbo]
                           EXCEPT ![<<g, "rbo">>] = new.rbo]
<1>1. ASSUME NEW p \in Fields
      PROVE  Value'[p] = IF p = <<g, "rbo">> THEN new.rbo
                         ELSE IF p = <<g, "fbo">> THEN new.fbo
                         ELSE IF p = <<g, "tex">> THEN new.tex ELSE Value[p]
  <2>1. CASE p \in Texs \X {"tex"}
    <3>1. p[1] \in Texs /\ p[1] # g
      BY <2>1, GlAssumption
    <3>. QED  BY <3>1 DEF Value
  <2>2. CASE p \in Targs \X {"tex", "fbo", "rbo"}
    <3>1. PICK h \in Targs, f \in {"tex", "fbo", "rbo"} : p = <<h, f>>
      BY <2>2
    <3>2. Value'[p] = targ'[h][f] /\ Value[p] = targ[h][f]
      BY <3>1, GlAssumption DEF Value
    <3>3. targ'[h] = IF h = g THEN new ELSE targ[h]
      BY DEF StoreTypes
    <3>. QED  BY <3>1, <3>2, <3>3
  <2>. QED  BY <2>1, <2>2 DEF Fields
<1>2. /\ Value = [p \in Fields |-> Value[p]]
      /\ Value' = [p \in Fields |-> Value'[p]]
  BY DEF Value
<1>3. /\ <<g, "tex">> \in Fields /\ <<g, "fbo">> \in Fields
      /\ <<g, "rbo">> \in Fields
  BY DEF Fields
<1>. QED  BY <1>1, <1>2, <1>3, ThreePlaces

\* The names in use stay when a step leaves the objects and OpenGL alone.
LEMMA OwnedStays ==
  ASSUME Owned(Value, live \ gone), UNCHANGED <<live, gone, tex, targ>>
  PROVE  Owned(Value, live \ gone)'
<1>1. Value' = Value
  BY DEF Value
<1>2. live' \ gone' = live \ gone
  OBVIOUS
<1>3. Owned(Value', live' \ gone')
  BY <1>1, <1>2
<1>. QED  BY <1>3

\* A texture that has a name gives it up, to OpenGL or to nobody.
LEMMA NameGoes ==
  ASSUME StoreInv, NEW t \in Texs, NEW m \in {NONE, NoTex}, UNCHANGED targ,
         tex' = [tex EXCEPT ![t] = m],
         \/ live' = live \ {tex[t]} /\ UNCHANGED gone
         \/ gone' = gone \cup ({tex[t]} \ {NONE}) /\ UNCHANGED live,
         tex[t] # NoTex
  PROVE  NamesInv'
<1>1. StoreTypes /\ Owned(Value, live \ gone)
  BY DEF StoreInv
<1>2. tex[t] \in Nat
  BY <1>1 DEF StoreTypes
<1>3. <<t, "tex">> \in Fields /\ Value[<<t, "tex">>] = tex[t]
  BY <1>1, ValueAt
<1>4. tex[t] > NONE => tex[t] \in live \ gone
  BY <1>1, <1>3 DEF Owned
<1>5. NONE \notin live \ gone
  BY <1>1 DEF Owned
<1>6. live' \ gone' = (live \ gone) \ {tex[t]}
  BY <1>5
<1>7. Value' = [Value EXCEPT ![<<t, "tex">>] = m]
  BY <1>1, TexChanges
<1>8. Owned(Value', live' \ gone')
  <2>1. m \in Int /\ m <= NONE
    BY DEF NONE, NoTex
  <2>. QED  BY <1>1, <1>3, <1>6, <1>7, <2>1, OwnedDrop
<1>9. live' \subseteq live /\ IsFiniteSet(live')
  BY <1>1, FS_Subset DEF StoreTypes
<1>10. tex' \in [Texs -> Nat \cup {NoTex}]
  BY <1>1 DEF StoreTypes, NONE
<1>11. gone' \subseteq live'
  <2>1. tex[t] \notin gone
    <3>1. CASE tex[t] = NONE
      BY <1>1, <3>1 DEF StoreTypes
    <3>2. CASE tex[t] > NONE
      BY <1>4, <3>2
    <3>. QED  BY <1>2, <3>1, <3>2 DEF NONE
  <2>2. tex[t] # NONE => tex[t] \in live
    BY <1>2, <1>4 DEF NONE
  <2>3. gone \subseteq live
    BY <1>1 DEF StoreTypes
  <2>. QED  BY <2>1, <2>2, <2>3
<1>. QED  BY <1>1, <1>8, <1>9, <1>10, <1>11 DEF StoreTypes, NamesInv

\* A texture without a name gets one from OpenGL.
LEMMA NameComes ==
  ASSUME StoreInv, NEW t \in Texs, tex[t] = NONE, Cardinality(live) < MaxNames,
         tex' = [tex EXCEPT ![t] = Fresh(live)],
         live' = live \cup {Fresh(live)}, UNCHANGED <<gone, targ>>
  PROVE  NamesInv'
<1>1. StoreTypes /\ Owned(Value, live \ gone)
  BY DEF StoreInv
<1>2. live \subseteq Nat /\ Cardinality(live) \in Nat /\ gone \subseteq live
  BY <1>1, FS_CardinalityType DEF StoreTypes
<1>3. Fresh(live) \in 1 .. MaxNames + 4 /\ Fresh(live) \notin live
  <2>1. Cardinality(live) < MaxNames + 4
    BY <1>2, GlAssumption
  <2>2. IsFiniteSet(live)
    BY <1>1 DEF StoreTypes
  <2>. QED  BY <1>2, <2>1, <2>2, FreshIs
<1>. DEFINE n == Fresh(live)
<1>4. n \in Nat /\ n > NONE /\ n \notin live
  BY <1>3, GlAssumption DEF NONE
<1>. HIDE DEF n
<1>5. Value' = [Value EXCEPT ![<<t, "tex">>] = n]
  BY <1>1, TexChanges DEF n
<1>6. <<t, "tex">> \in Fields /\ Value[<<t, "tex">>] <= NONE
  BY <1>1, ValueAt DEF NONE
<1>7. live' \ gone' = (live \ gone) \cup {n}
  BY <1>2, <1>4 DEF n
<1>8. Owned(Value', live' \ gone')
  <2>1. n \notin live \ gone
    BY <1>4
  <2>2. Owned([Value EXCEPT ![<<t, "tex">>] = n], (live \ gone) \cup {n})
    BY <1>1, <1>4, <1>6, <2>1, OwnedAdd
  <2>. QED  BY <1>5, <1>7, <2>2
<1>9. live' \subseteq Nat \ {NONE} /\ IsFiniteSet(live')
  <2>1. live' = live \cup {n}
    BY DEF n
  <2>2. IsFiniteSet(live) /\ live \subseteq Nat \ {NONE}
    BY <1>1 DEF StoreTypes
  <2>3. IsFiniteSet(live \cup {n})
    BY <2>2, FS_AddElement
  <2>4. n # NONE
    BY <1>4 DEF NONE
  <2>5. IsFiniteSet(live')
    BY <2>1, <2>3
  <2>. QED  BY <1>4, <2>1, <2>2, <2>4, <2>5
<1>10. tex' \in [Texs -> Nat \cup {NoTex}]
  BY <1>1, <1>4 DEF StoreTypes, n
<1>. QED  BY <1>2, <1>8, <1>9, <1>10 DEF NamesInv

\* What a step of the textures has to show.
LEMMA TexPart ==
  ASSUME StoreInv, UNCHANGED <<targ, stack, bound>>,
         NamesInv', refs' \in [Texs -> Nat],
         ring' \in Seq([verb : Verbs, ref : Texs]),
         \A t \in Texs : refs'[t] > 0 \/ InRing(t, ring') => tex'[t] # NoTex
  PROVE  StoreInv'
<1>1. StoreTypes'
  BY DEF StoreInv, StoreTypes, NamesInv
<1>2. ObjectsInv' /\ BoundInv'
  BY DEF StoreInv, ObjectsInv, BoundInv, Alive
<1>. QED  BY <1>1, <1>2 DEF StoreInv, NamesInv

\* The handle that is let go is the last one, or nothing changes.
LEMMA Releases ==
  ASSUME StoreInv, NEW t \in Texs, NEW c \in BOOLEAN, refs[t] > 0,
         refs' = [refs EXCEPT ![t] = @ - 1], Release(t, ring, c),
         UNCHANGED <<ring, targ, stack, bound>>
  PROVE  StoreInv'
<1>1. StoreTypes /\ ObjectsInv /\ Owned(Value, live \ gone)
  BY DEF StoreInv
<1>2. /\ refs' \in [Texs -> Nat] /\ ring' \in Seq([verb : Verbs, ref : Texs])
      /\ \A u \in Texs : u # t => refs'[u] = refs[u]
      /\ tex[t] # NoTex
  BY <1>1 DEF StoreTypes, ObjectsInv, Alive
<1>3. CASE refs'[t] > 0 \/ InRing(t, ring)
  <2>1. UNCHANGED <<live, gone, tex>>
    BY <1>3 DEF Release
  <2>2. Owned(Value, live \ gone)'
    BY <1>1, <2>1, OwnedStays
  <2>3. \A u \in Texs : refs'[u] > 0 \/ InRing(u, ring') => tex'[u] # NoTex
    BY <1>1, <1>2, <2>1 DEF ObjectsInv, Alive
  <2>. QED  BY <1>1, <1>2, <2>1, <2>2, <2>3, TexPart DEF StoreTypes, NamesInv
<1>4. CASE ~ (refs'[t] > 0 \/ InRing(t, ring))
  <2>1. /\ tex' = [tex EXCEPT ![t] = NoTex]
        /\ \/ live' = live \ {tex[t]} /\ UNCHANGED gone
           \/ gone' = gone \cup ({tex[t]} \ {NONE}) /\ UNCHANGED live
    BY <1>4 DEF Release, Deld
  <2>2. NamesInv'
    BY <1>2, <2>1, NameGoes
  <2>3. \A u \in Texs : refs'[u] > 0 \/ InRing(u, ring') => tex'[u] # NoTex
    BY <1>1, <1>2, <1>4, <2>1 DEF ObjectsInv, Alive, StoreTypes
  <2>. QED  BY <1>2, <2>2, <2>3, TexPart
<1>. QED  BY <1>3, <1>4

\* The name of a texture has not been given back.
LEMMA HeldIsLive ==
  ASSUME StoreInv, NEW t \in Texs, tex[t] \in Nat, tex[t] # NONE
  PROVE  tex[t] \in live
<1>1. <<t, "tex">> \in Fields /\ Value[<<t, "tex">>] = tex[t]
  BY ValueAt DEF StoreInv
<1>2. tex[t] > NONE
  BY DEF NONE
<1>3. Owned(Value, live \ gone)
  BY DEF StoreInv
<1>4. Value[<<t, "tex">>] \in live \ gone
  BY <1>1, <1>2, <1>3 DEF Owned
<1>. QED  BY <1>1, <1>4

\* The steps of the textures and of their payloads.
LEMMA TexInv == StoreInv /\ TexNext => StoreInv'
<1>. SUFFICES ASSUME StoreInv, TexNext PROVE StoreInv'
  OBVIOUS
<1>. DEFINE Kept == \A u \in Texs : refs'[u] > 0 \/ InRing(u, ring')
                                    => tex'[u] # NoTex
            Payloads == [verb : Verbs, ref : Texs]
<1>1. /\ live \subseteq Nat \ {NONE} /\ IsFiniteSet(live) /\ gone \subseteq live
      /\ tex \in [Texs -> Nat \cup {NoTex}] /\ refs \in [Texs -> Nat]
      /\ ring \in Seq(Payloads)
      /\ Owned(Value, live \ gone) /\ StoreTypes
      /\ \A u \in Texs : refs[u] > 0 \/ InRing(u, ring) => tex[u] # NoTex
  BY DEF StoreInv, StoreTypes, ObjectsInv, Alive
<1>2. ASSUME NEW t \in Texs, NewTex(t) PROVE StoreInv'
  <2>1. Owned(Value, live \ gone)'
    <3>1. Value' = [Value EXCEPT ![<<t, "tex">>] = NONE]
      BY <1>1, <1>2, TexChanges DEF NewTex
    <3>2. <<t, "tex">> \in Fields /\ Value[<<t, "tex">>] = NoTex
      BY <1>1, <1>2, ValueAt DEF NewTex
    <3>3. NONE \in Int /\ NONE <= NONE /\ NoTex \notin live
      BY <1>1 DEF NONE, NoTex
    <3>4. (live \ gone) \ {NoTex} = live \ gone
      BY <3>3
    <3>5. Owned(Value', live \ gone)
      BY <1>1, <3>1, <3>2, <3>3, <3>4, OwnedDrop
    <3>. QED  BY <1>2, <3>5 DEF NewTex
  <2>2. tex' \in [Texs -> Nat \cup {NoTex}] /\ refs' \in [Texs -> Nat]
    BY <1>1, <1>2 DEF NewTex, NONE
  <2>3. Kept
    BY <1>1, <1>2 DEF NewTex, NONE, NoTex
  <2>. QED  BY <1>1, <1>2, <2>1, <2>2, <2>3, TexPart DEF NewTex, NamesInv
<1>3. ASSUME NEW t \in Texs, NEW u \in Texs \ {t}, MoveTex(t, u) PROVE StoreInv'
  <2>1. tex[t] \in Nat /\ tex[u] = NoTex
    BY <1>1, <1>3 DEF MoveTex
  <2>2. Value' = [Value EXCEPT ![<<u, "tex">>] = tex[t], ![<<t, "tex">>] = NONE]
    <3>1. ASSUME NEW p \in Fields
          PROVE  Value'[p] = IF p = <<t, "tex">> THEN NONE
                             ELSE IF p = <<u, "tex">> THEN tex[t] ELSE Value[p]
      <4>1. CASE p \in Texs \X {"tex"}
        <5>1. PICK v \in Texs : p = <<v, "tex">>
          BY <4>1
        <5>2. Value'[p] = tex'[v] /\ Value[p] = tex[v]
          BY <5>1 DEF Value
        <5>3. tex'[v] = IF v = t THEN NONE ELSE IF v = u THEN tex[t] ELSE tex[v]
          BY <1>1, <1>3 DEF MoveTex
        <5>. QED  BY <5>1, <5>2, <5>3
      <4>2. CASE p \in Targs \X {"tex", "fbo", "rbo"}
        <5>1. p[1] \notin Texs /\ p # <<t, "tex">> /\ p # <<u, "tex">>
          BY <4>2, GlAssumption
        <5>. QED  BY <1>3, <5>1 DEF Value, MoveTex
      <4>. QED  BY <4>1, <4>2 DEF Fields
    <3>. QED  BY <3>1 DEF Value
  <2>3. /\ <<t, "tex">> \in Fields /\ Value[<<t, "tex">>] = tex[t]
        /\ <<u, "tex">> \in Fields /\ Value[<<u, "tex">>] = NoTex
        /\ <<t, "tex">> # <<u, "tex">>
    BY <1>1, <2>1, ValueAt
  <2>4. NONE \in Int /\ NONE <= NONE /\ NoTex <= NONE
    BY DEF NONE, NoTex
  <2>5. Owned(Value', live \ gone)
    BY <1>1, <2>2, <2>3, <2>4, OwnedMove
  <2>6. Owned(Value, live \ gone)'
    BY <1>3, <2>5 DEF MoveTex
  <2>7. tex' \in [Texs -> Nat \cup {NoTex}] /\ refs' \in [Texs -> Nat]
    BY <1>1, <1>3 DEF MoveTex, NONE
  <2>8. Kept
    BY <1>1, <1>3, <2>1 DEF MoveTex, NONE, NoTex
  <2>. QED  BY <1>1, <1>3, <2>6, <2>7, <2>8, TexPart DEF MoveTex, NamesInv
<1>4. ASSUME NEW t \in Texs, UpldTex(t) PROVE StoreInv'
  <2>1. tex[t] \in Nat
    BY <1>1, <1>4 DEF UpldTex
  <2>2. CASE tex[t] = NONE
    <3>1. /\ tex' = [tex EXCEPT ![t] = Fresh(live)]
          /\ live' = live \cup {Fresh(live)} /\ UNCHANGED <<gone, others>>
          /\ Cardinality(live) < MaxNames
      BY <1>1, <1>4, <2>2 DEF UpldTex, Uploaded
    <3>2. NamesInv'
      BY <2>2, <3>1, NameComes DEF others
    <3>3. Fresh(live) # NoTex
      <4>1. tex'[t] \in live'
        BY <1>1, <3>1
      <4>. QED  BY <1>1, <3>1, <3>2, <4>1 DEF NoTex, NamesInv
    <3>4. Kept
      BY <1>1, <3>1, <3>3 DEF others
    <3>. QED  BY <1>1, <3>1, <3>2, <3>4, TexPart DEF others, NamesInv
  <2>3. CASE tex[t] # NONE
    <3>1. tex' = tex
      BY <1>1, <1>4, <2>3 DEF UpldTex, Uploaded
    <3>2. tex[t] \in live
      BY <2>1, <2>3, HeldIsLive
    <3>3. live' = live /\ UNCHANGED <<gone, others>>
      BY <1>4, <3>1, <3>2 DEF UpldTex
    <3>4. Owned(Value, live \ gone)'
      BY <1>1, <3>1, <3>3, OwnedStays DEF others
    <3>5. Kept
      BY <1>1, <3>1, <3>3 DEF others
    <3>. QED  BY <1>1, <3>1, <3>3, <3>4, <3>5, TexPart DEF others, NamesInv
  <2>. QED  BY <2>2, <2>3
<1>5. ASSUME NEW t \in Texs, DeldTex(t) PROVE StoreInv'
  <2>1. tex' = [tex EXCEPT ![t] = NONE] /\ live' = live \ {tex[t]}
        /\ UNCHANGED <<gone, others>> /\ tex[t] # NoTex
    BY <1>1, <1>5 DEF DeldTex, Deld
  <2>2. NamesInv'
    BY <2>1, NameGoes DEF others
  <2>3. Kept
    BY <1>1, <2>1 DEF others, NONE, NoTex
  <2>. QED  BY <1>1, <2>1, <2>2, <2>3, TexPart DEF others, NamesInv
<1>6. ASSUME NEW t \in Texs, Share(t) PROVE StoreInv'
  <2>1. refs[t] > 0 /\ refs' = [refs EXCEPT ![t] = @ + 1]
    BY <1>6 DEF Share
  <2>2. refs' \in [Texs -> Nat] /\ Owned(Value, live \ gone)'
    BY <1>1, <1>6, <2>1, OwnedStays DEF Share
  <2>3. Kept
    BY <1>1, <1>6, <2>1 DEF Share
  <2>. QED  BY <1>1, <1>6, <2>2, <2>3, TexPart DEF Share, NamesInv
<1>7. ASSUME NEW t \in Texs, NEW c \in BOOLEAN,
             DropTex(t, c) \/ PushRefused(t, c)
      PROVE  StoreInv'
  BY <1>7, Releases DEF DropTex, PushRefused
<1>8. ASSUME NEW t \in Texs, PushPayload(t) PROVE StoreInv'
  <2>1. PICK verb \in Verbs, own \in BOOLEAN :
          /\ refs[t] > 0
          /\ ring' = Append(ring, [verb |-> verb, ref |-> t])
          /\ refs' = [refs EXCEPT ![t] = IF own THEN @ - 1 ELSE @]
          /\ UNCHANGED <<live, gone, tex, targ, stack, bound>>
    BY <1>8 DEF PushPayload
  <2>2. ring' \in Seq(Payloads) /\ refs' \in [Texs -> Nat]
    BY <1>1, <2>1
  <2>3. ASSUME NEW u \in Texs, InRing(u, ring') PROVE u = t \/ InRing(u, ring)
    <3>1. PICK k \in 1 .. Len(ring) + 1 : ring'[k].ref = u
      BY <1>1, <2>1, <2>3 DEF InRing
    <3>2. CASE k = Len(ring) + 1
      BY <1>1, <2>1, <3>1, <3>2
    <3>3. CASE k \in 1 .. Len(ring)
      BY <1>1, <2>1, <3>1, <3>3 DEF InRing
    <3>. QED  BY <1>1, <3>1, <3>2, <3>3
  <2>4. Owned(Value, live \ gone)'
    BY <1>1, <2>1, OwnedStays
  <2>5. Kept
    BY <1>1, <2>1, <2>3
  <2>. QED  BY <1>1, <2>1, <2>2, <2>4, <2>5, TexPart DEF NamesInv
<1>9. ASSUME ResolvePayloads PROVE StoreInv'
  <2>. DEFINE t == Head(ring).ref
              upld == Head(ring).verb = "upld" /\ tex[t] = NONE
              last == refs[t] = 0 /\ ~InRing(t, Tail(ring))
              x == IF upld THEN Fresh(live) ELSE tex[t]
  <2>1. ring # <<>> /\ t \in Texs /\ InRing(t, ring) /\ tex[t] \in Nat
        /\ Cardinality(live) < MaxNames
    <3>1. ring # <<>> /\ Cardinality(live) < MaxNames
      BY <1>9 DEF ResolvePayloads
    <3>2. 1 \in DOMAIN ring /\ Head(ring) = ring[1] /\ Head(ring) \in Payloads
      <4>. HIDE DEF Payloads
      <4>1. Len(ring) \in Nat /\ Len(ring) # 0
        BY <1>1, <3>1
      <4>2. 1 \in DOMAIN ring /\ Head(ring) = ring[1]
        BY <1>1, <3>1, <4>1
      <4>. QED  BY <1>1, <4>2
    <3>3. t \in Texs /\ InRing(t, ring)
      BY <3>2 DEF InRing
    <3>. HIDE DEF t
    <3>4. tex[t] # NoTex /\ tex[t] \in Nat \cup {NoTex}
      BY <1>1, <3>3
    <3>. QED  BY <3>1, <3>3, <3>4
  <2>2. /\ live' = IF last THEN live \ {x} ELSE live \cup ({x} \ {NONE})
        /\ tex' = [tex EXCEPT ![t] = IF last THEN NoTex ELSE x]
        /\ ring' = Tail(ring)
        /\ UNCHANGED <<gone, refs, targ, stack, bound>>
    BY <1>9 DEF ResolvePayloads, Uploaded
  <2>3. ring' \in Seq(Payloads)
    BY <1>1, <2>1, <2>2
  <2>4. ASSUME NEW u \in Texs, InRing(u, ring') PROVE InRing(u, ring)
    <3>1. PICK k \in DOMAIN ring' : ring'[k].ref = u
      BY <2>4 DEF InRing
    <3>2. k + 1 \in DOMAIN ring /\ ring'[k] = ring[k + 1]
      BY <1>1, <2>1, <2>2
    <3>. QED  BY <3>1, <3>2 DEF InRing
  <2>. HIDE DEF t, x, last, upld
  <2>5. CASE last
    <3>1. Fresh(live) \notin live
      <4>1. Cardinality(live) < MaxNames + 4
        BY <1>1, <2>1, GlAssumption, FS_CardinalityType
      <4>. QED  BY <1>1, <4>1, FreshIs
    <3>2. NONE \notin live
      BY <1>1
    <3>3. live' = live \ {tex[t]} /\ tex' = [tex EXCEPT ![t] = NoTex]
      BY <2>2, <2>5, <3>1, <3>2 DEF x, upld
    <3>4. NamesInv'
      <4>1. /\ tex[t] # NoTex /\ NoTex \in {NONE, NoTex}
            /\ UNCHANGED <<gone, targ>>
        BY <2>1, <2>2 DEF NoTex
      <4>. QED  BY <2>1, <3>3, <4>1, NameGoes
    <3>5. Kept
      BY <1>1, <2>2, <2>4, <2>5, <3>3 DEF last
    <3>. QED  BY <1>1, <2>2, <2>3, <3>4, <3>5, TexPart DEF NamesInv
  <2>6. CASE ~last /\ upld
    <3>1. Fresh(live) # NONE
      <4>1. Cardinality(live) < MaxNames + 4
        BY <1>1, <2>1, GlAssumption, FS_CardinalityType
      <4>2. Fresh(live) \in 1 .. MaxNames + 4
        BY <1>1, <4>1, FreshIs
      <4>. QED  BY <4>2, GlAssumption DEF NONE
    <3>2. /\ live' = live \cup {Fresh(live)}
          /\ tex' = [tex EXCEPT ![t] = Fresh(live)]
      BY <2>2, <2>6, <3>1 DEF x
    <3>3. NamesInv'
      BY <2>1, <2>2, <2>6, <3>2, NameComes DEF upld
    <3>4. Fresh(live) # NoTex
      BY <3>2, <3>3 DEF NoTex, NamesInv
    <3>5. Kept
      BY <1>1, <2>1, <2>2, <2>4, <3>2, <3>4
    <3>. QED  BY <1>1, <2>2, <2>3, <3>3, <3>5, TexPart DEF NamesInv
  <2>7. CASE ~last /\ ~upld
    <3>1. tex[t] # NONE => tex[t] \in live
      BY <2>1, HeldIsLive
    <3>2. live' = live /\ tex' = tex
      BY <1>1, <2>2, <2>7, <3>1 DEF x
    <3>3. Owned(Value, live \ gone)'
      BY <1>1, <2>2, <3>2, OwnedStays
    <3>4. Kept
      BY <1>1, <2>2, <2>4, <3>2
    <3>. QED  BY <1>1, <2>2, <2>3, <3>2, <3>3, <3>4, TexPart DEF NamesInv
  <2>. QED  BY <2>5, <2>6, <2>7
<1>. QED  BY <1>2, <1>3, <1>4, <1>5, <1>6, <1>7, <1>8, <1>9 DEF TexNext

\* What a step of the targets has to show.
LEMMA TargPart ==
  ASSUME StoreInv, UNCHANGED <<tex, refs, ring, gone>>,
         live' \subseteq Nat \ {NONE}, IsFiniteSet(live'), gone \subseteq live',
         targ' \in [Targs -> [tex : Nat, fbo : Nat, rbo : Nat]],
         stack' \in Seq(Targs), BoundInv', Owned(Value, live \ gone)',
         \A g \in Targs : targ'[g].tex = NONE =>
            targ'[g].fbo = NONE /\ targ'[g].rbo = NONE
  PROVE  StoreInv'
BY DEF StoreInv, StoreTypes, ObjectsInv, Alive, InRing

\* The stack of targets, seen from its top.
LEMMA TopOfStack ==
  ASSUME NEW s \in Seq(Targs), s # <<>>
  PROVE  /\ Last(s) \in Targs
         /\ Front(s) \in Seq(Targs)
<1>1. Len(s) \in Nat /\ Len(s) # 0
  OBVIOUS
<1>2. Last(s) \in Targs
  BY <1>1 DEF Last
<1>3. Front(s) \in Seq(Targs)
  BY <1>1 DEF Front
<1>. QED  BY <1>2, <1>3

\* A target takes three names, each of them nobody's.
LEMMA UpldTargInv ==
  ASSUME StoreInv, NEW g \in Targs, UpldTarg(g)
  PROVE  StoreInv'
<1>. DEFINE t == Fresh(live)
            f == Fresh(live \cup {t})
            r == Fresh(live \cup {t, f})
<1>1. /\ live \subseteq Nat \ {NONE} /\ IsFiniteSet(live) /\ gone \subseteq live
      /\ targ \in [Targs -> [tex : Nat, fbo : Nat, rbo : Nat]]
      /\ stack \in Seq(Targs) /\ Owned(Value, live \ gone) /\ StoreTypes
      /\ \A h \in Targs : targ[h].tex = NONE =>
            targ[h].fbo = NONE /\ targ[h].rbo = NONE
  BY DEF StoreInv, StoreTypes, ObjectsInv
<1>2. /\ targ[g].tex = NONE /\ Cardinality(live) + 3 <= MaxNames
      /\ live' = live \cup {t, f, r}
      /\ targ' = [targ EXCEPT ![g] = [tex |-> t, fbo |-> f, rbo |-> r]]
      /\ bound' = NONE /\ UNCHANGED <<gone, tex, refs, ring, stack>>
  BY DEF UpldTarg
<1>3. Cardinality(live) \in Nat
  BY <1>1, FS_CardinalityType
<1>4. t \in Nat /\ t > NONE /\ t \notin live
  <2>1. Cardinality(live) < MaxNames + 4
    BY <1>2, <1>3, GlAssumption
  <2>2. t \in 1 .. MaxNames + 4 /\ t \notin live
    BY <1>1, <2>1, FreshIs
  <2>. QED  BY <2>2, GlAssumption DEF NONE
<1>. HIDE DEF t
<1>5. f \in Nat /\ f > NONE /\ f \notin live \cup {t}
  <2>1. /\ IsFiniteSet(live \cup {t})
        /\ Cardinality(live \cup {t}) = Cardinality(live) + 1
    BY <1>1, <1>4, FS_AddElement
  <2>2. Cardinality(live \cup {t}) < MaxNames + 4
    BY <1>2, <1>3, <2>1, GlAssumption
  <2>3. f \in 1 .. MaxNames + 4 /\ f \notin live \cup {t}
    BY <1>1, <1>4, <2>1, <2>2, FreshIs
  <2>. QED  BY <2>3, GlAssumption DEF NONE
<1>. HIDE DEF f
<1>6. r \in Nat /\ r > NONE /\ r \notin live \cup {t, f}
  <2>1. /\ IsFiniteSet(live \cup {t})
        /\ Cardinality(live \cup {t}) = Cardinality(live) + 1
    BY <1>1, <1>4, FS_AddElement
  <2>2. (live \cup {t}) \cup {f} = live \cup {t, f}
    OBVIOUS
  <2>3. /\ IsFiniteSet(live \cup {t, f})
        /\ Cardinality(live \cup {t, f}) = Cardinality(live) + 2
    <3>1. /\ IsFiniteSet((live \cup {t}) \cup {f})
          /\ Cardinality((live \cup {t}) \cup {f})
               = Cardinality(live \cup {t}) + 1
      BY <1>5, <2>1, FS_AddElement
    <3>. QED  BY <1>3, <2>1, <2>2, <3>1
  <2>4. Cardinality(live \cup {t, f}) < MaxNames + 4
    BY <1>2, <1>3, <2>3, GlAssumption
  <2>5. r \in 1 .. MaxNames + 4 /\ r \notin live \cup {t, f}
    BY <1>1, <1>4, <1>5, <2>3, <2>4, FreshIs
  <2>. QED  BY <2>5, GlAssumption DEF NONE
<1>7. IsFiniteSet(live \cup {t, f, r})
  <2>1. IsFiniteSet(((live \cup {t}) \cup {f}) \cup {r})
    BY <1>1, FS_AddElement
  <2>2. ((live \cup {t}) \cup {f}) \cup {r} = live \cup {t, f, r}
    OBVIOUS
  <2>. QED  BY <2>1, <2>2
<1>. HIDE DEF r
<1>. DEFINE names == live \ gone
            v1 == [Value EXCEPT ![<<g, "tex">>] = t]
            v2 == [v1 EXCEPT ![<<g, "fbo">>] = f]
            v3 == [v2 EXCEPT ![<<g, "rbo">>] = r]
<1>8. /\ <<g, "tex">> \in Fields /\ Value[<<g, "tex">>] = NONE
      /\ <<g, "fbo">> \in Fields /\ Value[<<g, "fbo">>] = NONE
      /\ <<g, "rbo">> \in Fields /\ Value[<<g, "rbo">>] = NONE
      /\ NONE <= NONE
  BY <1>1, <1>2, ValueAt DEF NONE
<1>9. Owned(v1, names \cup {t})
  <2>1. t \notin names
    BY <1>4
  <2>. QED  BY <1>1, <1>4, <1>8, <2>1, OwnedAdd
<1>10. Owned(v2, (names \cup {t}) \cup {f})
  <2>1. f \notin names \cup {t}
    BY <1>5
  <2>2. v1[<<g, "fbo">>] <= NONE
    BY <1>8 DEF Value
  <2>. QED  BY <1>5, <1>8, <1>9, <2>1, <2>2, OwnedAdd
<1>11. Owned(v3, ((names \cup {t}) \cup {f}) \cup {r})
  <2>1. r \notin (names \cup {t}) \cup {f}
    BY <1>6
  <2>2. v2[<<g, "rbo">>] <= NONE
    BY <1>8 DEF Value
  <2>. QED  BY <1>6, <1>8, <1>10, <2>1, <2>2, OwnedAdd
<1>12. Value' = v3
  <2>1. StoreTypes /\ UNCHANGED tex
    BY <1>1, <1>2
  <2>2. targ' = [targ EXCEPT ![g] = [tex |-> t, fbo |-> f, rbo |-> r]]
    BY <1>2
  <2>. DEFINE new == [tex |-> t, fbo |-> f, rbo |-> r]
  <2>3. new.tex = t /\ new.fbo = f /\ new.rbo = r
    OBVIOUS
  <2>. HIDE DEF new
  <2>4. Value' = [[[Value EXCEPT ![<<g, "tex">>] = new.tex]
                           EXCEPT ![<<g, "fbo">>] = new.fbo]
                           EXCEPT ![<<g, "rbo">>] = new.rbo]
    BY <2>1, <2>2, TargChanges DEF new
  <2>. QED  BY <2>3, <2>4
<1>13. live' \ gone' = ((names \cup {t}) \cup {f}) \cup {r}
  BY <1>1, <1>2, <1>4, <1>5, <1>6
<1>14. Owned(Value, live \ gone)'
  BY <1>11, <1>12, <1>13
<1>15. live' \subseteq Nat \ {NONE} /\ IsFiniteSet(live')
  <2>1. t # NONE /\ f # NONE /\ r # NONE
    BY <1>4, <1>5, <1>6 DEF NONE
  <2>2. IsFiniteSet(live')
    BY <1>2, <1>7
  <2>. QED  BY <1>1, <1>2, <1>4, <1>5, <1>6, <2>1, <2>2
<1>16. targ' \in [Targs -> [tex : Nat, fbo : Nat, rbo : Nat]]
  BY <1>1, <1>2, <1>4, <1>5, <1>6
<1>17. \A h \in Targs : targ'[h].tex = NONE =>
          targ'[h].fbo = NONE /\ targ'[h].rbo = NONE
  BY <1>1, <1>2, <1>4 DEF NONE
<1>18. BoundInv'
  BY <1>2 DEF BoundInv
<1>. QED  BY <1>1, <1>2, <1>14, <1>15, <1>16, <1>17, <1>18, TargPart

\* A target gives up its names, and is not drawn to any more.
LEMMA DeldTargInv ==
  ASSUME StoreInv, NEW g \in Targs, DeldTarg(g)
  PROVE  StoreInv'
<1>. DEFINE t == targ[g].tex
            f == targ[g].fbo
            r == targ[g].rbo
            names == live \ gone
            none == [tex |-> NONE, fbo |-> NONE, rbo |-> NONE]
            v1 == [Value EXCEPT ![<<g, "tex">>] = NONE]
            v2 == [v1 EXCEPT ![<<g, "fbo">>] = NONE]
            v3 == [v2 EXCEPT ![<<g, "rbo">>] = NONE]
<1>1. /\ live \subseteq Nat \ {NONE} /\ IsFiniteSet(live) /\ gone \subseteq live
      /\ targ \in [Targs -> [tex : Nat, fbo : Nat, rbo : Nat]]
      /\ stack \in Seq(Targs) /\ Owned(Value, live \ gone) /\ StoreTypes
      /\ \A h \in Targs : targ[h].tex = NONE =>
            targ[h].fbo = NONE /\ targ[h].rbo = NONE
      /\ BoundInv
  BY DEF StoreInv, StoreTypes, ObjectsInv
<1>2. /\ live' = live \ {t, f, r}
      /\ targ' = [targ EXCEPT ![g] = none]
      /\ bound' = IF bound = f THEN NONE ELSE bound
      /\ UNCHANGED <<gone, tex, refs, ring, stack>>
  BY DEF DeldTarg
<1>3. /\ <<g, "tex">> \in Fields /\ Value[<<g, "tex">>] = t
      /\ <<g, "fbo">> \in Fields /\ Value[<<g, "fbo">>] = f
      /\ <<g, "rbo">> \in Fields /\ Value[<<g, "rbo">>] = r
      /\ NONE \in Int /\ NONE <= NONE
  BY <1>1, ValueAt DEF NONE
<1>4. v1[<<g, "fbo">>] = f /\ v2[<<g, "rbo">>] = r
  BY <1>3 DEF Value
<1>5. {t, f, r} \cap gone = {}
  <2>1. t \in Nat /\ f \in Nat /\ r \in Nat
    BY <1>1
  <2>2. \A n \in {t, f, r} : n > NONE => n \in names
    BY <1>1, <1>3 DEF Owned
  <2>3. \A n \in {t, f, r} : ~ n > NONE => n = NONE
    BY <2>1 DEF NONE
  <2>. QED  BY <1>1, <2>2, <2>3
<1>6. Owned(v1, names \ {t})
  <2>1. Owned(Value, names)
    BY <1>1
  <2>2. Owned(v1, names \ {Value[<<g, "tex">>]})
    BY <1>3, <2>1, OwnedDrop
  <2>. QED  BY <1>3, <2>2
<1>7. Owned(v2, (names \ {t}) \ {f})
  BY <1>3, <1>4, <1>6, OwnedDrop
<1>8. Owned(v3, ((names \ {t}) \ {f}) \ {r})
  BY <1>3, <1>4, <1>7, OwnedDrop
<1>9. Value' = v3
  <2>1. StoreTypes /\ UNCHANGED tex /\ targ' = [targ EXCEPT ![g] = none]
    BY <1>1, <1>2
  <2>2. none.tex = NONE /\ none.fbo = NONE /\ none.rbo = NONE
    OBVIOUS
  <2>. HIDE DEF none
  <2>3. Value' = [[[Value EXCEPT ![<<g, "tex">>] = none.tex]
                          EXCEPT ![<<g, "fbo">>] = none.fbo]
                          EXCEPT ![<<g, "rbo">>] = none.rbo]
    BY <2>1, TargChanges
  <2>. QED  BY <2>2, <2>3
<1>10. live' \ gone' = ((names \ {t}) \ {f}) \ {r}
  BY <1>2
<1>11. Owned(Value, live \ gone)'
  BY <1>8, <1>9, <1>10
<1>12. /\ live' \subseteq Nat \ {NONE} /\ IsFiniteSet(live')
       /\ gone \subseteq live'
  BY <1>1, <1>2, <1>5, FS_Subset
<1>13. targ' \in [Targs -> [tex : Nat, fbo : Nat, rbo : Nat]]
  BY <1>1, <1>2 DEF NONE
<1>14. \A h \in Targs : targ'[h].tex = NONE =>
          targ'[h].fbo = NONE /\ targ'[h].rbo = NONE
  BY <1>1, <1>2
<1>15. BoundInv'
  <2>1. CASE stack = <<>>
    BY <1>1, <1>2, <2>1 DEF BoundInv
  <2>2. CASE stack # <<>>
    <3>1. Last(stack) \in Targs
      BY <1>1, <2>2, TopOfStack
    <3>2. Last(stack) # g => targ'[Last(stack)] = targ[Last(stack)]
      BY <1>1, <1>2, <3>1
    <3>3. bound \in {NONE, targ[Last(stack)].fbo}
      BY <1>1, <2>2 DEF BoundInv
    <3>4. bound' \in {NONE, targ'[Last(stack)].fbo}
      BY <1>2, <3>2, <3>3
    <3>. QED  BY <1>2, <2>2, <3>4 DEF BoundInv
  <2>. QED  BY <2>1, <2>2
<1>. QED  BY <1>1, <1>2, <1>11, <1>12, <1>13, <1>14, <1>15, TargPart

\* The steps of the targets and of their stack.
LEMMA TargInv == StoreInv /\ TargNext => StoreInv'
<1>. SUFFICES ASSUME StoreInv, TargNext PROVE StoreInv'
  OBVIOUS
<1>1. /\ stack \in Seq(Targs) /\ Owned(Value, live \ gone)
      /\ live \subseteq Nat \ {NONE} /\ IsFiniteSet(live) /\ gone \subseteq live
      /\ targ \in [Targs -> [tex : Nat, fbo : Nat, rbo : Nat]]
      /\ \A h \in Targs : targ[h].tex = NONE =>
            targ[h].fbo = NONE /\ targ[h].rbo = NONE
  BY DEF StoreInv, StoreTypes, ObjectsInv
<1>2. ASSUME NEW g \in Targs, PushTarg(g) PROVE StoreInv'
  <2>1. stack' = Append(stack, g) /\ bound' = targ[g].fbo
        /\ UNCHANGED <<live, gone, tex, refs, ring, targ>>
    BY <1>2 DEF PushTarg
  <2>2. stack' \in Seq(Targs) /\ stack' # <<>> /\ Last(stack') = g
    BY <1>1, <2>1 DEF Last
  <2>3. Owned(Value, live \ gone)'
    BY <1>1, <2>1, OwnedStays
  <2>4. BoundInv'
    BY <2>1, <2>2 DEF BoundInv
  <2>. QED  BY <1>1, <2>1, <2>2, <2>3, <2>4, TargPart
<1>3. ASSUME PopTarg PROVE StoreInv'
  <2>1. /\ stack # <<>> /\ stack' = Front(stack)
        /\ bound' = IF stack' = <<>> THEN NONE ELSE targ[Last(stack')].fbo
        /\ UNCHANGED <<live, gone, tex, refs, ring, targ>>
    BY <1>3 DEF PopTarg
  <2>2. stack' \in Seq(Targs)
    BY <1>1, <2>1, TopOfStack
  <2>3. Owned(Value, live \ gone)'
    BY <1>1, <2>1, OwnedStays
  <2>4. BoundInv'
    BY <2>1 DEF BoundInv
  <2>. QED  BY <1>1, <2>1, <2>2, <2>3, <2>4, TargPart
<1>. QED  BY <1>2, <1>3, UpldTargInv, DeldTargInv DEF TargNext

\* The fields that hold a name and the names are in a bijection.
LEMMA StoreOwns == StoreInv => NamesAreOwned
<1>. SUFFICES ASSUME StoreInv PROVE NamesAreOwned
  OBVIOUS
<1>. DEFINE names == live \ gone
<1>1. Owned(Value, names) /\ StoreTypes
  BY DEF StoreInv
<1>2. Held = {<<p[1], p[2], Value[p]>> : p \in Fields}
  <2>1. ASSUME NEW h \in Held
        PROVE  \E p \in Fields : h = <<p[1], p[2], Value[p]>>
    <3>1. CASE \E t \in Texs : h = <<t, "tex", tex[t]>>
      BY <1>1, <3>1, ValueAt
    <3>2. CASE \E g \in Targs, f \in {"tex", "fbo", "rbo"} :
                 h = <<g, f, targ[g][f]>>
      <4>1. PICK g \in Targs, f \in {"tex", "fbo", "rbo"} :
              h = <<g, f, targ[g][f]>>
        BY <3>2
      <4>2. <<g, f>> \in Fields /\ Value[<<g, f>>] = targ[g][f]
        BY <1>1, ValueAt
      <4>. QED  BY <4>1, <4>2
    <3>. QED  BY <3>1, <3>2 DEF Held
  <2>2. ASSUME NEW p \in Fields PROVE <<p[1], p[2], Value[p]>> \in Held
    <3>1. CASE p \in Texs \X {"tex"}
      BY <1>1, <3>1, ValueAt DEF Held
    <3>2. CASE p \in Targs \X {"tex", "fbo", "rbo"}
      <4>1. PICK g \in Targs, f \in {"tex", "fbo", "rbo"} : p = <<g, f>>
        BY <3>2
      <4>2. Value[p] = targ[g][f]
        BY <1>1, <4>1, ValueAt
      <4>. QED  BY <4>1, <4>2 DEF Held
    <3>. QED  BY <3>1, <3>2 DEF Fields
  <2>. QED  BY <2>1, <2>2
<1>3. Names = {<<p[1], p[2], Value[p]>> :
                 p \in {q \in Fields : Value[q] > NONE}}
  BY <1>2 DEF Names
<1>4. {h[3] : h \in Names} = names
  <2>1. ASSUME NEW h \in Names PROVE h[3] \in names
    BY <1>1, <1>3 DEF Owned
  <2>2. ASSUME NEW n \in names PROVE \E h \in Names : n = h[3]
    <3>1. PICK p \in Fields : Value[p] = n
      BY <1>1 DEF Owned
    <3>2. Value[p] > NONE
      BY <1>1, <3>1 DEF Owned
    <3>3. <<p[1], p[2], Value[p]>> \in Names
      BY <1>3, <3>2
    <3>. QED  BY <3>1, <3>3
  <2>. QED  BY <2>1, <2>2
<1>5. ASSUME NEW h \in Names, NEW i \in Names, h[3] = i[3] PROVE h = i
  <2>1. PICK p \in Fields : h = <<p[1], p[2], Value[p]>> /\ Value[p] > NONE
    BY <1>3
  <2>2. PICK q \in Fields : i = <<q[1], q[2], Value[q]>> /\ Value[q] > NONE
    BY <1>3
  <2>3. p = q
    BY <1>1, <1>5, <2>1, <2>2 DEF Owned
  <2>. QED  BY <2>1, <2>2, <2>3
<1>6. Cardinality(Names) = Cardinality(names)
  <2>. DEFINE B == [h \in Names |-> h[3]]
  <2>1. B \in Bijection(Names, names)
    BY <1>4, <1>5 DEF Bijection, Injection, Surjection, IsInjective
  <2>2. IsFiniteSet(names)
    BY <1>1, FS_Subset DEF StoreTypes
  <2>3. ExistsBijection(names, Names)
    BY <2>1, Fun_ExistsBijSymmetric DEF ExistsBijection
  <2>. QED  BY <2>2, <2>3, FS_Bijection
<1>. QED  BY <1>1, <1>4, <1>6 DEF NamesAreOwned, StoreTypes, BoundInv, StoreInv

\* No texture, render target or payload loses or shares a name of OpenGL, for
\* any number of them, of names and of slots in the ring.
THEOREM NamesAreOwnedAlways == AInit /\ [][ANext]_avars => []NamesAreOwned
<1>1. StoreInv /\ [ANext]_avars => StoreInv'
  <2>. SUFFICES ASSUME StoreInv, [ANext]_avars PROVE StoreInv'
    OBVIOUS
  <2>1. CASE ANext
    BY <2>1, TexInv, TargInv DEF ANext
  <2>2. CASE UNCHANGED avars
    <3>1. UNCHANGED <<live, gone, tex, refs, ring, targ, stack, bound>>
      BY <2>2 DEF avars
    <3>2. Owned(Value, live \ gone)'
      BY <3>1, OwnedStays DEF StoreInv
    <3>. QED  BY <3>1, <3>2 DEF StoreInv, StoreTypes, ObjectsInv, BoundInv,
                                Alive, InRing
  <2>. QED  BY <2>1, <2>2
<1>. QED  BY <1>1, StoreInit, StoreOwns, PTL

-----------------------------------------------------------------------------
(* The optimisation: the searches. *)

\* The points of the plane, and intervals.
Points == Int \X Int

\* The width of an interval, what the next inner points are apart, and their
\* ratio for the Fibonacci numbers: between 3/5 and 2/3.
SearchInv ==
  Searching =>
    /\ fun \in Int \X (Nat \ {0}) \X (Nat \ {0})
    /\ st \in [a : Int, b : Int, d : Int, f1 : Nat, f2 : Nat, from : Points]
    /\ st.a <= st.b
    /\ meth = "elimgr" => st.d = st.b - st.a
    /\ 0 < st.f1 /\ 3 * st.f1 <= 5 * st.f2 /\ 3 * st.f2 <= 2 * st.f1
    /\ Brackets

\* A factor above zero keeps the order.
LEMMA TimesKeeps ==
  ASSUME NEW k \in Nat, k > 0, NEW p \in Int, NEW q \in Int, p < q
  PROVE  k * p < k * q
<1>1. q - p > 0 /\ k * (q - p) > 0
  OBVIOUS
<1>2. k * (q - p) = k * q - k * p
  OBVIOUS
<1>. QED  BY <1>1, <1>2

\* Of two points of a valley, the minimum is left of the right one if the left
\* one is no higher, and right of the left one if it is.
LEMMA ValleyLeft ==
  ASSUME NEW f \in Int \X (Nat \ {0}) \X (Nat \ {0}),
         NEW x \in Int, NEW y \in Int, x < y
  PROVE  /\ Valley(f, x) <= Valley(f, y) => f[1] <= y
         /\ ~ (Valley(f, x) <= Valley(f, y)) => x <= f[1]
<1>. DEFINE m == f[1]
            l == f[2]
            r == f[3]
<1>1. m \in Int /\ l \in Nat /\ l > 0 /\ r \in Nat /\ r > 0
  OBVIOUS
<1>2. /\ Valley(f, x) = IF x < m THEN l * (m - x) ELSE r * (x - m)
      /\ Valley(f, y) = IF y < m THEN l * (m - y) ELSE r * (y - m)
  BY DEF Valley
<1>3. f[1] = m
  OBVIOUS
<1>. HIDE DEF m, l, r
<1>4. y < m => ~ (Valley(f, x) <= Valley(f, y))
  <2>. SUFFICES ASSUME y < m PROVE ~ (Valley(f, x) <= Valley(f, y))
    OBVIOUS
  <2>1. l * (m - y) < l * (m - x)
    BY <1>1, TimesKeeps
  <2>2. l * (m - y) \in Int /\ l * (m - x) \in Int /\ x < m
    BY <1>1
  <2>. QED  BY <1>2, <2>1, <2>2
<1>5. m < x => Valley(f, x) <= Valley(f, y)
  <2>. SUFFICES ASSUME m < x PROVE Valley(f, x) <= Valley(f, y)
    OBVIOUS
  <2>1. r * (x - m) < r * (y - m)
    BY <1>1, TimesKeeps
  <2>2. r * (y - m) \in Int /\ r * (x - m) \in Int /\ ~ (x < m) /\ ~ (y < m)
    BY <1>1
  <2>. QED  BY <1>2, <2>1, <2>2
<1>. QED  BY <1>1, <1>3, <1>4, <1>5

\* With a step above half the width, what is kept lies within the interval,
\* has the width of the step, and has the minimum.
LEMMA Eliminates ==
  ASSUME SearchInv, Searching, NEW d \in Int, d <= st.b - st.a,
         st.b - st.a < 2 * d
  PROVE  LET i == Eliminate(d)
         IN /\ i[1] \in Int /\ i[2] \in Int /\ i[2] - i[1] = d
            /\ st.a <= fun[1] /\ fun[1] <= st.b
                 => i[1] <= fun[1] /\ fun[1] <= i[2]
<1>. DEFINE x1 == st.b - d
            x2 == st.a + d
<1>1. /\ fun \in Int \X (Nat \ {0}) \X (Nat \ {0})
      /\ st.a \in Int /\ st.b \in Int
  BY DEF SearchInv
<1>2. x1 \in Int /\ x2 \in Int /\ x1 < x2 /\ st.b - x1 = d /\ x2 - st.a = d
  BY <1>1
<1>3. Eliminate(d) = IF Valley(fun, x1) <= Valley(fun, x2)
                     THEN <<st.a, x2>> ELSE <<x1, st.b>>
  BY DEF Eliminate
<1>. HIDE DEF x1, x2
<1>4. CASE Valley(fun, x1) <= Valley(fun, x2)
  <2>1. Eliminate(d)[1] = st.a /\ Eliminate(d)[2] = x2
    BY <1>3, <1>4
  <2>2. fun[1] <= x2
    BY <1>1, <1>2, <1>4, ValleyLeft
  <2>. QED  BY <1>1, <1>2, <2>1, <2>2
<1>5. CASE ~ (Valley(fun, x1) <= Valley(fun, x2))
  <2>1. Eliminate(d)[1] = x1 /\ Eliminate(d)[2] = st.b
    BY <1>3, <1>5
  <2>2. x1 <= fun[1]
    BY <1>1, <1>2, <1>5, ValleyLeft
  <2>. QED  BY <1>1, <1>2, <2>1, <2>2
<1>. QED  BY <1>4, <1>5

\* The golden ratio, rounded down, is above a half of nine and more.
LEMMA GoldenStep ==
  ASSUME NEW w \in Int, w >= 9
  PROVE  (w * 618) \div 1000 \in Int /\ (w * 618) \div 1000 <= w
         /\ w < 2 * ((w * 618) \div 1000)
OBVIOUS

\* So is a ratio of Fibonacci numbers.
LEMMA FibonacciStep ==
  ASSUME NEW w \in Int, w >= 9, NEW f1 \in Nat, NEW f2 \in Nat,
         0 < f1, 3 * f1 <= 5 * f2, 3 * f2 <= 2 * f1
  PROVE  (w * f2) \div f1 \in Int /\ (w * f2) \div f1 <= w
         /\ w < 2 * ((w * f2) \div f1)
<1>. DEFINE d == (w * f2) \div f1
            p == w * f2
            q == f1 * d
<1>1. p \in Int /\ d \in Int /\ q \in Int /\ q <= p /\ p < q + f1
  OBVIOUS
<1>2. 3 * (w * f1) <= 5 * p
  OBVIOUS
<1>3. 3 * p <= 2 * (w * f1)
  OBVIOUS
<1>4. d <= w
  <2>1. ASSUME d > w PROVE FALSE
    <3>1. q >= f1 * (w + 1)
      BY <1>1, <2>1
    <3>. QED  BY <1>1, <1>3, <3>1
  <2>. QED  BY <1>1, <2>1
<1>5. w < 2 * d
  <2>1. ASSUME 2 * d <= w PROVE FALSE
    <3>1. 2 * q <= f1 * w
      BY <1>1, <2>1
    <3>. QED  BY <1>1, <1>2, <3>1
  <2>. QED  BY <1>1, <2>1
<1>. QED  BY <1>1, <1>4, <1>5

\* A method goes on with its function.
LEMMA MethodStays ==
  ASSUME [ONext]_ovars
  PROVE  meth' = meth /\ fun' = fun
<1>1. ElimGr => meth' = meth /\ fun' = fun
  BY DEF ElimGr
<1>2. ElimFib => meth' = meth /\ fun' = fun
  BY DEF ElimFib
<1>3. Newton => meth' = meth /\ fun' = fun
  BY DEF Newton
<1>4. NelderMead => meth' = meth /\ fun' = fun
  BY DEF NelderMead
<1>5. Rosenbrock => meth' = meth /\ fun' = fun
  BY DEF Rosenbrock
<1>. QED  BY <1>1, <1>2, <1>3, <1>4, <1>5 DEF ONext, ovars

\* The ends of the interval given, in order.
LEMMA SearchBegins ==
  ASSUME NEW m \in {"elimgr", "elimfib"}, Search(m)
  PROVE  SearchInv
<1>1. PICK ab \in Ends, f \in Valleys :
        /\ meth = m /\ fun = f
        /\ LET a == IF ab[2] < ab[1] THEN ab[2] ELSE ab[1]
               b == IF ab[2] < ab[1] THEN ab[1] ELSE ab[2]
           IN st = [a |-> a, b |-> b, d |-> b - a, f1 |-> 3, f2 |-> 2,
                    from |-> ab]
  BY DEF Search
<1>2. ab \in Int \X Int /\ f \in Int \X (Nat \ {0}) \X (Nat \ {0})
  BY OptimAssumption
<1>. DEFINE a == IF ab[2] < ab[1] THEN ab[2] ELSE ab[1]
            b == IF ab[2] < ab[1] THEN ab[1] ELSE ab[2]
<1>3. st = [a |-> a, b |-> b, d |-> b - a, f1 |-> 3, f2 |-> 2, from |-> ab]
  BY <1>1
<1>4. /\ a \in Int /\ b \in Int /\ a <= b /\ ab[1] \in Int /\ ab[2] \in Int
      /\ \A x \in Int : ab[1] <= x /\ x <= ab[2] => a <= x /\ x <= b
      /\ \A x \in Int : ab[2] <= x /\ x <= ab[1] => a <= x /\ x <= b
  BY <1>2
<1>. HIDE DEF a, b
<1>5. st \in [a : Int, b : Int, d : Int, f1 : Nat, f2 : Nat, from : Points]
  BY <1>2, <1>3, <1>4 DEF Points
<1>6. /\ st.a = a /\ st.b = b /\ st.d = b - a /\ st.f1 = 3 /\ st.f2 = 2
      /\ st.from = ab
  BY <1>3
<1>7. fun[1] \in Int /\ fun = f
  BY <1>1, <1>2
<1>8. Brackets
  BY <1>4, <1>6, <1>7 DEF Brackets
<1>. QED  BY <1>2, <1>4, <1>5, <1>6, <1>7, <1>8 DEF SearchInv

\* A search keeps its width, ratio and minimum; the other methods are no search.
LEMMA SearchStep == SearchInv /\ [ONext]_ovars => SearchInv'
<1>. SUFFICES ASSUME SearchInv, [ONext]_ovars, Searching' PROVE SearchInv'
  BY DEF SearchInv
<1>1. /\ fun \in Int \X (Nat \ {0}) \X (Nat \ {0}) /\ fun[1] \in Int
      /\ st \in [a : Int, b : Int, d : Int, f1 : Nat, f2 : Nat, from : Points]
      /\ st.a <= st.b /\ Brackets /\ Eps \in Nat /\ Eps >= 9
      /\ 0 < st.f1 /\ 3 * st.f1 <= 5 * st.f2 /\ 3 * st.f2 <= 2 * st.f1
      /\ meth = "elimgr" => st.d = st.b - st.a
      /\ Searching
  <2>2. Searching
    BY MethodStays DEF Searching
  <2>. QED  BY <2>2, OptimAssumption DEF SearchInv
<1>2. ASSUME NEW d \in Int, d <= st.b - st.a, st.b - st.a < 2 * d,
             UNCHANGED <<meth, fun>>, st'.from = st.from,
             st'.a = Eliminate(d)[1], st'.b = Eliminate(d)[2]
      PROVE  /\ st'.a \in Int /\ st'.b \in Int /\ st'.a <= st'.b
             /\ st'.b - st'.a = d /\ Brackets'
  <2>1. LET i == Eliminate(d)
        IN /\ i[1] \in Int /\ i[2] \in Int /\ i[2] - i[1] = d
           /\ st.a <= fun[1] /\ fun[1] <= st.b
                => i[1] <= fun[1] /\ fun[1] <= i[2]
    BY <1>1, <1>2, Eliminates
  <2>2. d >= 0
    BY <1>1, <1>2
  <2>3. st'.a \in Int /\ st'.b \in Int /\ st'.b - st'.a = d
    BY <1>2, <2>1
  <2>. QED  BY <1>1, <1>2, <2>1, <2>2, <2>3 DEF Brackets, Searching
<1>3. CASE ElimGr
  <2>. DEFINE w == st.b - st.a
              d == (st.d * 618) \div 1000
  <2>1. w \in Int /\ w >= 9 /\ st.d = w
    BY <1>1, <1>3 DEF ElimGr
  <2>2. d \in Int /\ d <= w /\ w < 2 * d
    BY <2>1, GoldenStep
  <2>3. st' = [st EXCEPT !.d = d, !.a = Eliminate(d)[1], !.b = Eliminate(d)[2]]
        /\ UNCHANGED <<meth, fun>>
    BY <1>3 DEF ElimGr
  <2>. HIDE DEF d
  <2>4. /\ st'.d = d /\ st'.from = st.from /\ st'.f1 = st.f1 /\ st'.f2 = st.f2
        /\ st'.a = Eliminate(d)[1] /\ st'.b = Eliminate(d)[2]
    BY <1>1, <2>3
  <2>5. /\ st'.a \in Int /\ st'.b \in Int /\ st'.a <= st'.b
        /\ st'.b - st'.a = d /\ Brackets'
    BY <1>2, <2>2, <2>3, <2>4
  <2>6. st' \in [a : Int, b : Int, d : Int, f1 : Nat, f2 : Nat, from : Points]
    <3>1. Eliminate(d)[1] \in Int /\ Eliminate(d)[2] \in Int
      BY <2>4, <2>5
    <3>. QED  BY <1>1, <2>2, <2>3, <3>1
  <2>. QED  BY <1>1, <2>3, <2>4, <2>5, <2>6 DEF SearchInv
<1>4. CASE ElimFib
  <2>. DEFINE w == st.b - st.a
              d == (w * st.f2) \div st.f1
  <2>1. w \in Int /\ w >= 9 /\ st.f1 \in Nat /\ st.f2 \in Nat
    BY <1>1, <1>4 DEF ElimFib
  <2>2. d \in Int /\ d <= w /\ w < 2 * d
    BY <1>1, <2>1, FibonacciStep
  <2>3. st' = [st EXCEPT !.a = Eliminate(d)[1], !.b = Eliminate(d)[2],
                         !.f1 = st.f1 + st.f2, !.f2 = st.f1]
        /\ UNCHANGED <<meth, fun>> /\ meth = "elimfib"
    BY <1>4 DEF ElimFib
  <2>. HIDE DEF d
  <2>4. /\ st'.d = st.d /\ st'.from = st.from
        /\ st'.f1 = st.f1 + st.f2 /\ st'.f2 = st.f1
        /\ st'.a = Eliminate(d)[1] /\ st'.b = Eliminate(d)[2]
    BY <1>1, <2>3
  <2>5. /\ st'.a \in Int /\ st'.b \in Int /\ st'.a <= st'.b /\ Brackets'
    BY <1>2, <2>2, <2>3, <2>4
  <2>6. st' \in [a : Int, b : Int, d : Int, f1 : Nat, f2 : Nat, from : Points]
    <3>. DEFINE x == Eliminate(d)[1]
                y == Eliminate(d)[2]
                g == st.f1 + st.f2
    <3>1. x \in Int /\ y \in Int /\ g \in Nat
      BY <2>1, <2>4, <2>5
    <3>2. st' = [st EXCEPT !.a = x, !.b = y, !.f1 = g, !.f2 = st.f1]
      BY <2>3
    <3>. HIDE DEF x, y, g
    <3>. QED  BY <1>1, <2>1, <3>1, <3>2
  <2>7. /\ 0 < st'.f1 /\ 3 * st'.f1 <= 5 * st'.f2 /\ 3 * st'.f2 <= 2 * st'.f1
    BY <1>1, <2>1, <2>4
  <2>. QED  BY <1>1, <2>3, <2>4, <2>5, <2>6, <2>7 DEF SearchInv
<1>5. CASE UNCHANGED ovars
  BY <1>5 DEF ovars, SearchInv, Searching, Brackets
<1>. QED
  BY <1>1, <1>3, <1>4, <1>5
  DEF ONext, Newton, NelderMead, Rosenbrock, Searching

(* Newton's method.  On a quadratic the differences are exact. *)

\* The gradient of the quadratic.
G1(p) == 2 * fun[1] * p[1] + fun[2] * p[2] + fun[4]
G2(p) == fun[2] * p[1] + 2 * fun[3] * p[2] + fun[5]

\* A multiple divided by its factor.
LEMMA DivExact ==
  ASSUME NEW k \in Nat, k > 0, NEW q \in Int
  PROVE  (k * q) \div k = q
<1>. DEFINE p == k * q
            d == p \div k
<1>1. p \in Int /\ d \in Int /\ k * d <= p /\ p < k * d + k
  OBVIOUS
<1>2. d <= q
  <2>1. ASSUME d > q PROVE FALSE
    <3>1. k * d >= k * (q + 1)
      BY <1>1, <2>1
    <3>. QED  BY <1>1, <2>1, <3>1, TimesKeeps
  <2>. QED  BY <1>1, <2>1
<1>3. q <= d
  <2>1. ASSUME q > d PROVE FALSE
    <3>1. k * q >= k * (d + 1) /\ k * (d + 1) = k * d + k
      BY <1>1, <2>1
    <3>. QED  BY <1>1, <2>1, <3>1
  <2>. QED  BY <1>1, <2>1
<1>. QED  BY <1>1, <1>2, <1>3

\* The difference of a quadratic across a point is its slope there.
LEMMA CentralDifference ==
  ASSUME NEW a \in Int, NEW b \in Int, NEW c \in Int, NEW d \in Int,
         NEW e \in Int, NEW x \in Int, NEW y \in Int, NEW r \in Int
  PROVE  LET Q(u, v) == a*u*u + b*u*v + c*v*v + d*u + e*v
         IN /\ Q(x + r, y) - Q(x + (-r), y) = (2 * r) * (2 * a * x + b * y + d)
            /\ Q(x, y + r) - Q(x, y + (-r)) = (2 * r) * (b * x + 2 * c * y + e)
OBVIOUS

\* The function of the methods of two variables.
QuadricInt == \A k \in 1 .. 5 : fun[k] \in Int

\* What the differences give at any point.
LEMMA GradientIs ==
  ASSUME QuadricInt, NEW p \in Points, NEW r \in Nat, r > 0
  PROVE  /\ D1F1(p, 1, r) = G1(p) /\ D1F1(p, 2, r) = G2(p)
         /\ G1(p) \in Int /\ G2(p) \in Int
<1>. DEFINE a == fun[1]
            b == fun[2]
            c == fun[3]
            d == fun[4]
            e == fun[5]
            x == p[1]
            y == p[2]
            Q(u, v) == a*u*u + b*u*v + c*v*v + d*u + e*v
<1>1. /\ a \in Int /\ b \in Int /\ c \in Int /\ d \in Int /\ e \in Int
      /\ x \in Int /\ y \in Int /\ -r \in Int /\ 2 * r \in Nat /\ 2 * r > 0
  BY DEF QuadricInt, Points
<1>2. ASSUME NEW s \in Int
      PROVE  /\ F(Shift(p, 1, s)) = Q(x + s, y)
             /\ F(Shift(p, 2, s)) = Q(x, y + s)
  <2>1. /\ Shift(p, 1, s)[1] = x + s /\ Shift(p, 1, s)[2] = y
        /\ Shift(p, 2, s)[1] = x /\ Shift(p, 2, s)[2] = y + s
    BY DEF Shift, Points
  <2>. QED  BY <2>1 DEF F, Quadric
<1>3. /\ D1F1(p, 1, r) = (Q(x + r, y) - Q(x + (-r), y)) \div (2 * r)
      /\ D1F1(p, 2, r) = (Q(x, y + r) - Q(x, y + (-r))) \div (2 * r)
  <2>. HIDE DEF Q, x, y
  <2>. QED  BY <1>1, <1>2 DEF D1F1
<1>4. /\ G1(p) = 2 * a * x + b * y + d /\ G2(p) = b * x + 2 * c * y + e
  BY DEF G1, G2
<1>. HIDE DEF a, b, c, d, e, x, y
<1>5. G1(p) \in Int /\ G2(p) \in Int
  BY <1>1, <1>4
<1>6. /\ Q(x + r, y) - Q(x + (-r), y) = (2 * r) * G1(p)
      /\ Q(x, y + r) - Q(x, y + (-r)) = (2 * r) * G2(p)
  BY <1>1, <1>4, CentralDifference
<1>. HIDE DEF Q
<1>. QED  BY <1>1, <1>3, <1>5, <1>6, DivExact

\* The second differences of a quadratic are its coefficients.
LEMMA HessianIs ==
  ASSUME QuadricInt, NEW p \in Points, NEW r \in Nat, r > 0
  PROVE  D2hF2(p, r) = <<2 * fun[1], fun[2], fun[2], 2 * fun[3]>>
<1>. DEFINE a == fun[1]
            b == fun[2]
            c == fun[3]
            k == 2 * r
<1>1. /\ a \in Int /\ b \in Int /\ c \in Int /\ fun[4] \in Int /\ fun[5] \in Int
      /\ p[1] \in Int /\ p[2] \in Int /\ -r \in Int /\ k \in Nat /\ k > 0
  BY DEF QuadricInt, Points
<1>2. ASSUME NEW i \in {1, 2}, NEW s \in Int
      PROVE  /\ Shift(p, i, s) \in Points
             /\ Shift(p, i, s)[i] = p[i] + s
             /\ Shift(p, i, s)[3 - i] = p[3 - i]
  BY DEF Shift, Points
<1>3. ASSUME NEW i \in {1, 2}, NEW s \in Int
      PROVE  /\ D1F1(Shift(p, i, s), 1, r) = G1(Shift(p, i, s))
             /\ D1F1(Shift(p, i, s), 2, r) = G2(Shift(p, i, s))
  BY <1>2, GradientIs
<1>4. ASSUME NEW s \in Int
      PROVE  /\ G1(Shift(p, 1, s)) = G1(p) + s * (2 * a)
             /\ G1(Shift(p, 2, s)) = G1(p) + s * b
             /\ G2(Shift(p, 1, s)) = G2(p) + s * b
             /\ G2(Shift(p, 2, s)) = G2(p) + s * (2 * c)
  <2>1. /\ Shift(p, 1, s)[1] = p[1] + s /\ Shift(p, 1, s)[2] = p[2]
        /\ Shift(p, 2, s)[1] = p[1] /\ Shift(p, 2, s)[2] = p[2] + s
    BY <1>2
  <2>. DEFINE x == p[1]
              y == p[2]
              d == fun[4]
              e == fun[5]
  <2>2. /\ G1(Shift(p, 1, s)) = 2 * a * (x + s) + b * y + d
        /\ G1(Shift(p, 2, s)) = 2 * a * x + b * (y + s) + d
        /\ G2(Shift(p, 1, s)) = b * (x + s) + 2 * c * y + e
        /\ G2(Shift(p, 2, s)) = b * x + 2 * c * (y + s) + e
    BY <2>1 DEF G1, G2
  <2>3. G1(p) = 2 * a * x + b * y + d /\ G2(p) = b * x + 2 * c * y + e
    BY DEF G1, G2
  <2>. HIDE DEF a, b, c, d, e, x, y
  <2>4. /\ a \in Int /\ b \in Int /\ c \in Int /\ d \in Int /\ e \in Int
        /\ x \in Int /\ y \in Int
    BY <1>1 DEF a, b, c, d, e, x, y
  <2>. QED  BY <2>2, <2>3, <2>4
<1>5. G1(p) \in Int /\ G2(p) \in Int
  BY GradientIs
<1>6. ASSUME NEW g \in Int, NEW q \in Int
      PROVE  ((g + r * q) - (g + (-r) * q)) \div k = q
  <2>1. (g + r * q) - (g + (-r) * q) = k * q
    BY <1>1
  <2>. HIDE DEF k
  <2>. QED  BY <1>1, <2>1, DivExact
<1>7. /\ D2F1(p, 1, 1, r) = 2 * a /\ D2F1(p, 1, 2, r) = b
      /\ D2F1(p, 2, 1, r) = b /\ D2F1(p, 2, 2, r) = 2 * c
  <2>1. /\ D2F1(p, 1, 1, r) =
             ((G1(p) + r * (2 * a)) - (G1(p) + (-r) * (2 * a))) \div k
        /\ D2F1(p, 1, 2, r) = ((G1(p) + r * b) - (G1(p) + (-r) * b)) \div k
        /\ D2F1(p, 2, 1, r) = ((G2(p) + r * b) - (G2(p) + (-r) * b)) \div k
        /\ D2F1(p, 2, 2, r) =
             ((G2(p) + r * (2 * c)) - (G2(p) + (-r) * (2 * c))) \div k
    <3>1. r \in Int
      OBVIOUS
    <3>. HIDE DEF a, b, c
    <3>. QED  BY <1>1, <1>3, <1>4, <3>1 DEF D2F1
  <2>2. 2 * a \in Int /\ 2 * c \in Int
    BY <1>1
  <2>. HIDE DEF a, b, c, k
  <2>. QED  BY <1>1, <1>5, <1>6, <2>1, <2>2
<1>. QED  BY <1>7 DEF D2hF2, D2F2

\* The point Newton's step goes to, times the determinant.
LEMMA NewtonPoint ==
  ASSUME NEW a \in Int, NEW b \in Int, NEW c \in Int, NEW d \in Int,
         NEW e \in Int, NEW x \in Int, NEW y \in Int
  PROVE  LET g1 == 2 * a * x + b * y + d
             g2 == b * x + 2 * c * y + e
             D == (2 * a) * (2 * c) - b * b
             u == D * x - ((2 * c) * g1 + (-b) * g2)
             v == D * y - ((-b) * g1 + (2 * a) * g2)
         IN 2 * a * u + b * v + d * D = 0 /\ b * u + 2 * c * v + e * D = 0
OBVIOUS

\* Newton's method has a point, until its one step.
NewtonInv ==
  meth = "newton" =>
    /\ QuadricInt
    /\ st = [x |-> st.x, r |-> st.r, den |-> st.den]
    /\ st.r \in Nat /\ st.r > 0
    /\ st.den = 0 => st.x \in Points
    /\ NewtonLands

\* Its step lands where the gradient is zero.
LEMMA NewtonStep == NewtonInv /\ [ONext]_ovars => NewtonInv'
<1>. SUFFICES ASSUME NewtonInv, [ONext]_ovars, meth' = "newton"
              PROVE  NewtonInv'
  BY DEF NewtonInv
<1>1. meth = "newton" /\ fun' = fun
  BY MethodStays
<1>2. CASE UNCHANGED ovars
  BY <1>2 DEF ovars, NewtonInv, NewtonLands, QuadricInt
<1>3. CASE Newton
  <2>. DEFINE a == fun[1]
              b == fun[2]
              c == fun[3]
              d == fun[4]
              e == fun[5]
              x == st.x[1]
              y == st.x[2]
              g1 == 2 * a * x + b * y + d
              g2 == b * x + 2 * c * y + e
              D == (2 * a) * (2 * c) - b * b
              u == D * x - ((2 * c) * g1 + (-b) * g2)
              v == D * y - ((-b) * g1 + (2 * a) * g2)
  <2>1. /\ QuadricInt /\ st.r \in Nat /\ st.r > 0 /\ st.x \in Points
        /\ st = [x |-> st.x, r |-> st.r, den |-> st.den]
    BY <1>1, <1>3 DEF NewtonInv, Newton
  <2>2. /\ a \in Int /\ b \in Int /\ c \in Int /\ d \in Int /\ e \in Int
        /\ x \in Int /\ y \in Int
    BY <2>1 DEF QuadricInt, Points
  <2>3. Gradient(st.x) = <<g1, g2>>
    BY <2>1, GradientIs DEF Gradient, D1F2, G1, G2
  <2>4. Hessian(st.x) = <<2 * a, b, b, 2 * c>>
    BY <2>1, HessianIs DEF Hessian
  <2>5. /\ Det(Hessian(st.x)) = D
        /\ Adjugate(Hessian(st.x)) = <<2 * c, -b, -b, 2 * a>>
    BY <2>4 DEF Det, Adjugate
  <2>6. st' = [st EXCEPT !.den = D, !.x = <<u, v>>] /\ D # 0
    <3>. DEFINE g == Gradient(st.x)
                i == Adjugate(Hessian(st.x))
    <3>1. /\ Det(Hessian(st.x)) # 0
          /\ st' = [st EXCEPT !.den = Det(Hessian(st.x)),
                 !.x = <<Det(Hessian(st.x)) * x - (i[1] * g[1] + i[2] * g[2]),
                         Det(Hessian(st.x)) * y - (i[3] * g[1] + i[4] * g[2])>>]
      BY <1>3 DEF Newton
    <3>2. g[1] = g1 /\ g[2] = g2 /\ i[1] = 2 * c /\ i[2] = -b /\ i[3] = -b
          /\ i[4] = 2 * a
      BY <2>3, <2>5
    <3>. HIDE DEF g, i, g1, g2, a, b, c, d, e, x, y, D
    <3>. QED  BY <2>5, <3>1, <3>2
  <2>7. 2 * a * u + b * v + d * D = 0 /\ b * u + 2 * c * v + e * D = 0
    <3>. HIDE DEF a, b, c, d, e, x, y
    <3>. QED  BY <2>2, NewtonPoint
  <2>. HIDE DEF u, v, D
  <2>8. /\ st' = [x |-> <<u, v>>, r |-> st.r, den |-> D]
    BY <2>1, <2>6
  <2>9. NewtonLands'
    BY <1>1, <2>7, <2>8 DEF NewtonLands
  <2>. QED  BY <1>1, <2>1, <2>6, <2>8, <2>9 DEF NewtonInv, QuadricInt
<1>. QED
  BY <1>1, <1>2, <1>3 DEF ONext, ElimGr, ElimFib, NelderMead, Rosenbrock

(* The direct methods: Rosenbrock's and the simplex. *)

\* The function has integer values.
LEMMA FIsInt == ASSUME QuadricInt, NEW p \in Points PROVE F(p) \in Int
<1>1. /\ p[1] \in Int /\ p[2] \in Int
      /\ fun[1] \in Int /\ fun[2] \in Int /\ fun[3] \in Int /\ fun[4] \in Int
      /\ fun[5] \in Int
  BY DEF Points, QuadricInt
<1>. QED  BY <1>1 DEF F, Quadric

\* The arithmetic of points.
LEMMA PointsClosed ==
  ASSUME NEW p \in Points, NEW q \in Points
  PROVE  /\ Plus(p, q) \in Points /\ Minus(p, q) \in Points
         /\ Twice(p) \in Points /\ Half(p) \in Points
BY DEF Points, Plus, Minus, Twice, Half

\* Rosenbrock's method, with the sums of its moves.
MovesInv ==
  meth = "rosenbrock" =>
    /\ QuadricInt
    /\ st = [x |-> st.x, s |-> st.s, c |-> st.c, i |-> st.i, succ |-> st.succ,
             fail |-> st.fail, osc |-> st.osc, x0 |-> st.x0]
    /\ st.x \in Points /\ st.s \in Points /\ st.c \in Points
    /\ st.x0 \in Points /\ st.i \in {1, 2}
    /\ MovesAdd

\* A try is kept when it is better, and counted when it is kept.
LEMMA MovesStep ==
  ASSUME MovesInv, Rosenbrock
  PROVE  MovesInv' /\ F(st.x)' <= F(st.x)
<1>. DEFINE i == st.i
            x == [st.x EXCEPT ![i] = @ + st.s[i]]
            hit == F(x) < F(st.x)
            s == [st.s EXCEPT ![i] = IF hit THEN (@ * 3) \div 2
                                      ELSE -(@ \div 2)]
            c == [st.c EXCEPT ![i] = @ + st.s[i]]
<1>1. /\ meth = "rosenbrock" /\ meth' = meth /\ fun' = fun /\ QuadricInt
      /\ st.x \in Points /\ st.s \in Points /\ st.c \in Points
      /\ st.x0 \in Points /\ i \in {1, 2} /\ st.x = Plus(st.x0, st.c)
      /\ st = [x |-> st.x, s |-> st.s, c |-> st.c, i |-> st.i,
               succ |-> st.succ, fail |-> st.fail, osc |-> st.osc,
               x0 |-> st.x0]
  BY DEF MovesInv, MovesAdd, Rosenbrock
<1>2. x \in Points /\ c \in Points /\ s \in Points
  BY <1>1 DEF Points
<1>3. x = Plus(st.x0, c)
  BY <1>1 DEF Points, Plus
<1>. DEFINE succ == IF hit THEN st.succ \cup {i} ELSE st.succ
            fail == IF hit THEN st.fail ELSE st.fail \cup {i}
            over == i = 2 /\ succ = {1, 2} /\ fail = {1, 2}
            osc == IF over THEN MaxSteps + 1
                   ELSE IF i = 2 THEN st.osc + 1 ELSE st.osc
<1>4. st' = [st EXCEPT !.x = IF hit THEN x ELSE @,
                       !.c = IF hit THEN c ELSE @,
                       !.s = s, !.succ = succ, !.fail = fail,
                       !.i = 3 - i, !.osc = osc]
  BY DEF Rosenbrock
<1>. HIDE DEF x, c, s, hit, succ, fail, osc
<1>5. st' = [x |-> IF hit THEN x ELSE st.x, s |-> s,
             c |-> IF hit THEN c ELSE st.c, i |-> 3 - i, succ |-> succ,
             fail |-> fail, osc |-> osc, x0 |-> st.x0]
  BY <1>1, <1>4
<1>6. /\ st'.x \in Points /\ st'.s \in Points /\ st'.c \in Points
      /\ st'.x0 \in Points /\ st'.i \in {1, 2}
      /\ st'.x = Plus(st'.x0, st'.c)
  BY <1>1, <1>2, <1>3, <1>5
<1>7. MovesInv'
  BY <1>1, <1>5, <1>6 DEF MovesInv, MovesAdd, QuadricInt
<1>8. F(st.x)' = F(st'.x)
  BY <1>1 DEF F
<1>9. F(st'.x) <= F(st.x)
  <2>1. F(st.x) \in Int /\ F(x) \in Int
    BY <1>1, <1>2, FIsInt
  <2>. QED  BY <1>5, <2>1 DEF hit
<1>. QED  BY <1>7, <1>8, <1>9

\* The three vertices.
NelderInv ==
  meth = "nelder" =>
    /\ QuadricInt
    /\ st = [v |-> st.v, n |-> st.n]
    /\ st.v[1] \in Points /\ st.v[2] \in Points /\ st.v[3] \in Points

\* The least of the values at the vertices.
LEMMA BestIs ==
  ASSUME NelderInv, meth = "nelder"
  PROVE  /\ Best \in {F(st.v[1]), F(st.v[2]), F(st.v[3])}
         /\ Best <= F(st.v[1]) /\ Best <= F(st.v[2]) /\ Best <= F(st.v[3])
<1>. DEFINE vs == {F(st.v[k]) : k \in 1 .. 3}
            p == F(st.v[1])
            q == F(st.v[2])
            r == F(st.v[3])
<1>1. vs = {p, q, r}
  OBVIOUS
<1>2. p \in Int /\ q \in Int /\ r \in Int
  BY FIsInt DEF NelderInv
<1>3. Best = CHOOSE m \in vs : \A n \in vs : m <= n
  BY DEF Best
<1>. HIDE DEF p, q, r, vs
<1>4. \E m \in vs : \A n \in vs : m <= n
  <2>1. CASE p <= q /\ p <= r
    BY <1>1, <1>2, <2>1
  <2>2. CASE q <= p /\ q <= r
    BY <1>1, <1>2, <2>2
  <2>3. CASE r <= p /\ r <= q
    BY <1>1, <1>2, <2>3
  <2>. QED  BY <1>2, <2>1, <2>2, <2>3
<1>5. Best \in vs /\ \A n \in vs : Best <= n
  BY <1>3, <1>4
<1>. QED  BY <1>1, <1>5 DEF p, q, r

\* The least is one of the values.
LEMMA BestIsInt == NelderInv /\ meth = "nelder" => Best \in Int
BY BestIs, FIsInt DEF NelderInv

\* A sorting keeps the vertices, the best one first.
LEMMA SortedIs ==
  ASSUME NelderInv, meth = "nelder", NEW u \in Sorted(st.v)
  PROVE  /\ u[1] \in Points /\ u[2] \in Points /\ u[3] \in Points
         /\ \A k \in 1 .. 3 : F(u[1]) <= F(st.v[k])
<1>1. PICK p \in Orders : u = [k \in 1 .. 3 |-> st.v[p[k]]]
  BY DEF Sorted
<1>2. /\ p \in [1 .. 3 -> 1 .. 3]
      /\ \A w \in 1 .. 3 : \E k \in 1 .. 3 : p[k] = w
  BY DEF Orders
<1>3. \A k \in 1 .. 3 : st.v[k] \in Points
  BY DEF NelderInv
<1>4. \A k \in 1 .. 3 : u[k] \in Points
  BY <1>1, <1>2, <1>3
<1>5. F(u[1]) <= F(u[2]) /\ F(u[2]) <= F(u[3])
  BY DEF Sorted
<1>6. \A k \in 1 .. 3 : F(u[k]) \in Int
  BY <1>4, FIsInt DEF NelderInv
<1>7. \A k \in 1 .. 3 : F(u[1]) <= F(u[k])
  BY <1>5, <1>6
<1>8. ASSUME NEW k \in 1 .. 3 PROVE F(u[1]) <= F(st.v[k])
  <2>1. PICK j \in 1 .. 3 : p[j] = k
    BY <1>2
  <2>2. u[j] = st.v[k]
    BY <1>1, <2>1
  <2>. QED  BY <1>7, <2>2
<1>. QED  BY <1>4, <1>8

\* The best vertex stays, whatever takes the place of the worst.
LEMMA NelderStep ==
  ASSUME NelderInv, NelderMead
  PROVE  NelderInv' /\ Best' <= Best
<1>1. meth = "nelder" /\ meth' = meth /\ fun' = fun
  BY DEF NelderMead
<1>2. PICK u \in Sorted(st.v) :
        LET B == u[1]
            G == u[2]
            W == u[3]
            M == Half(Plus(B, G))
            R == Minus(Twice(M), W)
            E == Minus(Twice(R), M)
            C1 == Half(Plus(M, W))
            C2 == Half(Plus(M, R))
            C == IF F(C1) < F(C2) THEN C1 ELSE C2
            v == IF F(R) < F(W)
                 THEN <<B, G, IF F(E) < F(R) THEN E ELSE R>>
                 ELSE IF F(C) < F(W) THEN <<B, G, C>>
                 ELSE <<B, M, Half(Plus(B, W))>>
        IN st' = [st EXCEPT !.v = v, !.n = @ + 1]
  BY DEF NelderMead
<1>. DEFINE B == u[1]
            G == u[2]
            W == u[3]
            M == Half(Plus(B, G))
            R == Minus(Twice(M), W)
            E == Minus(Twice(R), M)
            C1 == Half(Plus(M, W))
            C2 == Half(Plus(M, R))
            S == Half(Plus(B, W))
            C == IF F(C1) < F(C2) THEN C1 ELSE C2
            v == IF F(R) < F(W)
                 THEN <<B, G, IF F(E) < F(R) THEN E ELSE R>>
                 ELSE IF F(C) < F(W) THEN <<B, G, C>>
                 ELSE <<B, M, S>>
<1>3. st' = [st EXCEPT !.v = v, !.n = @ + 1]
  BY <1>2
<1>4. /\ B \in Points /\ G \in Points /\ W \in Points
      /\ \A k \in 1 .. 3 : F(B) <= F(st.v[k])
  BY <1>1, SortedIs
<1>. HIDE DEF B, G, W
<1>5. M \in Points
  BY <1>4, PointsClosed
<1>. HIDE DEF M
<1>6. R \in Points
  BY <1>4, <1>5, PointsClosed
<1>. HIDE DEF R
<1>7. E \in Points /\ C1 \in Points /\ C2 \in Points /\ S \in Points
  BY <1>4, <1>5, <1>6, PointsClosed
<1>. HIDE DEF E, C1, C2, S
<1>8. C \in Points
  BY <1>7
<1>. HIDE DEF C
<1>9. v[1] = B /\ v[2] \in Points /\ v[3] \in Points
  BY <1>4, <1>5, <1>6, <1>7, <1>8
<1>. HIDE DEF v
<1>10. st = [v |-> st.v, n |-> st.n] /\ QuadricInt
  BY <1>1 DEF NelderInv
<1>11. st' = [v |-> v, n |-> st.n + 1]
  BY <1>3, <1>10
<1>12. NelderInv'
  BY <1>1, <1>4, <1>9, <1>10, <1>11 DEF NelderInv, QuadricInt
<1>13. Best' <= F(B)
  <2>1. (NelderInv /\ meth = "nelder" => Best <= F(st.v[1]))'
    BY BestIs, PTL
  <2>2. Best' <= F(st'.v[1])
    BY <1>1, <1>12, <2>1 DEF F
  <2>. QED  BY <1>9, <1>11, <2>2
<1>14. F(B) <= Best
  BY <1>1, <1>4, BestIs
<1>15. Best' \in Int /\ F(B) \in Int /\ Best \in Int
  <2>1. Best \in {F(st.v[1]), F(st.v[2]), F(st.v[3])}
    BY <1>1, BestIs
  <2>2. Best \in Int
    BY <1>1, <2>1, FIsInt DEF NelderInv
  <2>3. (NelderInv /\ meth = "nelder" => Best \in Int)'
    BY BestIsInt, PTL
  <2>. QED  BY <1>1, <1>4, <1>10, <1>12, <2>2, <2>3, FIsInt
<1>. QED  BY <1>12, <1>13, <1>14, <1>15

(* The methods together. *)

\* The parts, one of which is about the method at work.
OptimInv == SearchInv /\ NewtonInv /\ MovesInv /\ NelderInv

\* Each method begins with its part.
LEMMA OptimInit == OInit => OptimInv
<1>. SUFFICES ASSUME OInit PROVE OptimInv
  OBVIOUS
<1>1. ASSUME NEW m \in {"elimgr", "elimfib"}, Search(m) PROVE OptimInv
  <2>1. meth = m
    BY <1>1 DEF Search
  <2>. QED
    BY <1>1, <2>1, SearchBegins DEF OptimInv, NewtonInv, MovesInv, NelderInv
<1>2. fun \in Quadrics => QuadricInt
  BY OptimAssumption DEF QuadricInt
<1>3. Starts \subseteq Points /\ Units \subseteq Nat \ {0}
  BY OptimAssumption DEF Points
<1>4. ASSUME fun \in Quadrics, meth = "newton", NEW x \in Starts,
             NEW r \in Units, st = [x |-> x, r |-> r, den |-> 0]
      PROVE  OptimInv
  BY <1>2, <1>3, <1>4
     DEF OptimInv, SearchInv, Searching, NewtonInv, NewtonLands, MovesInv,
         NelderInv
<1>5. ASSUME fun \in Quadrics, meth = "nelder",
             NEW v \in Starts \X Starts \X Starts, st = [v |-> v, n |-> 0]
      PROVE  OptimInv
  BY <1>2, <1>3, <1>5
     DEF OptimInv, SearchInv, Searching, NewtonInv, MovesInv, NelderInv
<1>6. ASSUME fun \in Quadrics, meth = "rosenbrock", NEW x \in Starts,
             NEW s \in Units,
             st = [x |-> x, s |-> <<s, s>>, c |-> <<0, 0>>, i |-> 1,
                   succ |-> {}, fail |-> {}, osc |-> 1, x0 |-> x]
      PROVE  OptimInv
  <2>1. x \in Points /\ <<s, s>> \in Points /\ <<0, 0>> \in Points
    BY <1>3 DEF Points
  <2>2. x = Plus(x, <<0, 0>>)
    BY <2>1 DEF Points, Plus
  <2>3. MovesInv
    BY <1>2, <1>6, <2>1, <2>2 DEF MovesInv, MovesAdd
  <2>. QED
    BY <1>6, <2>3 DEF OptimInv, SearchInv, Searching, NewtonInv, NelderInv
<1>. QED  BY <1>1, <1>4, <1>5, <1>6 DEF OInit

\* A step is of the method at work, and leaves the other parts true of none.
LEMMA OptimStep ==
  ASSUME OptimInv, [ONext]_ovars
  PROVE  OptimInv' /\ (ONext => Best' <= Best)
<1>1. SearchInv' /\ NewtonInv' /\ meth' = meth /\ fun' = fun
  BY SearchStep, NewtonStep, MethodStays DEF OptimInv
<1>2. CASE Rosenbrock
  <2>1. meth = "rosenbrock"
    BY <1>2 DEF Rosenbrock
  <2>2. MovesInv' /\ F(st.x)' <= F(st.x)
    BY <1>2, MovesStep DEF OptimInv
  <2>3. Best = F(st.x) /\ Best' = F(st.x)'
    BY <1>1, <2>1 DEF Best
  <2>. QED  BY <1>1, <2>1, <2>2, <2>3 DEF OptimInv, NelderInv
<1>3. CASE NelderMead
  <2>1. meth = "nelder"
    BY <1>3 DEF NelderMead
  <2>2. NelderInv' /\ Best' <= Best
    BY <1>3, NelderStep DEF OptimInv
  <2>. QED  BY <1>1, <2>1, <2>2 DEF OptimInv, MovesInv
<1>4. CASE ElimGr \/ ElimFib \/ Newton
  <2>1. meth \in {"elimgr", "elimfib", "newton"}
    BY <1>4 DEF ElimGr, ElimFib, Newton
  <2>2. Best = 0 /\ Best' = 0
    BY <1>1, <2>1 DEF Best
  <2>. QED  BY <1>1, <2>1, <2>2 DEF OptimInv, MovesInv, NelderInv
<1>5. CASE UNCHANGED ovars /\ ~ ONext
  <2>1. MovesInv' /\ NelderInv'
    BY <1>5 DEF OptimInv, MovesInv, MovesAdd, NelderInv, ovars, QuadricInt
  <2>. QED  BY <1>1, <1>5, <2>1 DEF OptimInv
<1>. QED  BY <1>2, <1>3, <1>4, <1>5 DEF ONext

\* For any valleys, quadratics, intervals and starts: a search never leaves the
\* minimum of its interval, Newton's step lands where the gradient is zero,
\* Rosenbrock's sums are its moves, and the best point of a direct method never
\* gets worse (madonna.hpp:256-355, hon-opt.cpp:149-168, 383-474).
THEOREM OptimumAlwaysKept == OInit /\ [][ONext]_ovars => OptimumIsKept
<1>1. OptimInv => Brackets /\ NewtonLands /\ MovesAdd
  BY DEF OptimInv, SearchInv, NewtonInv, MovesInv, Brackets, NewtonLands,
         MovesAdd
<1>2. OptimInv /\ [ONext]_ovars
        => /\ OptimInv'
           /\ [(Brackets /\ NewtonLands /\ MovesAdd)' /\ Best' <= Best]_ovars
  <2>. SUFFICES ASSUME OptimInv, [ONext]_ovars
                PROVE  /\ OptimInv'
                       /\ [(Brackets /\ NewtonLands /\ MovesAdd)'
                             /\ Best' <= Best]_ovars
    OBVIOUS
  <2>1. OptimInv' /\ (ONext => Best' <= Best)
    BY OptimStep
  <2>2. (Brackets /\ NewtonLands /\ MovesAdd)'
    BY <1>1, <2>1, PTL
  <2>. QED  BY <2>1, <2>2
<1>. QED  BY <1>2, OptimInit, PTL DEF OptimumIsKept
-----------------------------------------------------------------------------
(* The grid. *)

\* The size of an interval from 0.
LEMMA SizeIs ==
  ASSUME NEW n \in Nat
  PROVE  Cardinality(0 .. n - 1) = n
<1>1. n = 0 => 0 .. n - 1 = {}
  OBVIOUS
<1>2. Cardinality({}) = 0
  BY FS_EmptySet
<1>. QED  BY <1>1, <1>2, FS_Interval

\* linspace_n and linspace_s give integers, numbered from 0.
IsSpan(f) == \E n \in Nat : f \in [0 .. n - 1 -> Int]

\* Both kinds do.
LEMMA LinspaceIs ==
  ASSUME NEW a \in (Nat \ {0}) \X Int \X Int
  PROVE  IsSpan(LinspaceN(a)) /\ IsSpan(LinspaceS(a))
<1>1. a[1] \in Nat /\ a[1] > 0 /\ a[2] \in Int /\ a[3] \in Int
  OBVIOUS
<1>2. IsSpan(LinspaceN(a))
  <2>1. \A k \in 0 .. a[1] - 1 : a[2] + k * ((a[3] - a[2]) \div a[1]) \in Int
    BY <1>1
  <2>. QED  BY <1>1, <2>1 DEF IsSpan, LinspaceN
<1>3. IsSpan(LinspaceS(a))
  <2>. DEFINE w == IF a[3] > a[2] THEN a[3] - a[2] ELSE a[2] - a[3]
              n == w \div a[1]
              b == [a EXCEPT ![1] = n]
  <2>1. w \in Nat
    BY <1>1
  <2>2. n \in Nat
    <3>. HIDE DEF w
    <3>. QED  BY <1>1, <2>1
  <2>3. LinspaceS(a) = LinspaceN(b)
    BY DEF LinspaceS
  <2>. HIDE DEF n
  <2>4. b[1] = n /\ b[2] \in Int /\ b[3] \in Int
    BY <1>1
  <2>. HIDE DEF b
  <2>5. \A k \in 0 .. n - 1 : b[2] + k * ((b[3] - b[2]) \div n) \in Int
    <3>1. n = 0 \/ n > 0
      BY <2>2
    <3>. QED  BY <2>2, <2>4, <3>1
  <2>. QED  BY <2>2, <2>3, <2>4, <2>5 DEF IsSpan, LinspaceN
<1>. QED  BY <1>2, <1>3

\* A grid with its spans: two of them, of n and m points.
Spanned(n, m) ==
  /\ n \in Nat /\ m \in Nat
  /\ DOMAIN spans = {0, 1}
  /\ spans[0] \in [0 .. n - 1 -> Int] /\ spans[1] \in [0 .. m - 1 -> Int]

\* Its sizes.
LEMMA SpannedSizes ==
  ASSUME NEW n, NEW m, Spanned(n, m)
  PROVE  NOf(0) = n /\ NOf(1) = m /\ Dims = 2
<1>1. {0, 1} = 0 .. 2 - 1
  OBVIOUS
<1>. QED  BY <1>1, SizeIs DEF Spanned, NOf, Dims

\* _align_field makes a value for each cell.
LEMMA AlignFieldIs ==
  ASSUME NEW sp, DOMAIN sp = {0, 1}, NEW n \in Nat, NEW m \in Nat,
         DOMAIN sp[0] = 0 .. n - 1, DOMAIN sp[1] = 0 .. m - 1
  PROVE  AlignField(sp) = [k \in 0 .. n * m - 1 |-> 0]
<1>. DEFINE Z(f) == [d \in DOMAIN sp |->
                       (IF d = 0 THEN 1 ELSE f[d - 1])
                         * Cardinality(DOMAIN sp[d])]
            size == CHOOSE f : f = Z(f)
            w == [d \in {0, 1} |-> IF d = 0 THEN n ELSE n * m]
<1>1. Cardinality(DOMAIN sp[0]) = n /\ Cardinality(DOMAIN sp[1]) = m
  BY SizeIs
<1>2. w = Z(w)
  BY <1>1
<1>3. size = Z(size)
  <2>. HIDE DEF Z, w
  <2>. QED  BY <1>2
<1>4. Cardinality(DOMAIN sp) - 1 = 1
  <2>1. {0, 1} = 0 .. 2 - 1
    OBVIOUS
  <2>2. Cardinality(0 .. 2 - 1) = 2
    BY SizeIs
  <2>. QED  BY <2>1, <2>2
<1>5. AlignField(sp) = [k \in 0 .. size[1] - 1 |-> 0]
  BY <1>4 DEF AlignField
<1>. HIDE DEF size
<1>6. size[0] = n /\ size[1] = size[0] * m
  BY <1>1, <1>3
<1>. QED  BY <1>5, <1>6

\* The odometer: the first dimension goes on, or back to 0 with a carry.
LEMMA AdvanceIs ==
  ASSUME NEW n, NEW m, Spanned(n, m), NEW s \in [{0, 1} -> Int]
  PROVE  Advance(s) = IF s[0] + 1 >= n
                      THEN [d \in {0, 1} |-> IF d = 0 THEN 0 ELSE s[1] + 1]
                      ELSE [d \in {0, 1} |-> IF d = 0 THEN s[0] + 1 ELSE s[1]]
<1>. DEFINE G(f) == [d \in DOMAIN spans |->
               IF d = 0 THEN <<s, TRUE>>
               ELSE IF ~f[d - 1][2] THEN f[d - 1]
               ELSE LET inc == [f[d - 1][1] EXCEPT ![d - 1] = @ + 1]
                    IN IF inc[d - 1] >= NOf(d - 1)
                       THEN <<[inc EXCEPT ![d] = @ + 1, ![d - 1] = 0], TRUE>>
                       ELSE <<inc, FALSE>>]
            go == CHOOSE f : f = G(f)
            up == [s EXCEPT ![0] = @ + 1]
            last == IF up[0] >= n
                    THEN <<[up EXCEPT ![1] = @ + 1, ![0] = 0], TRUE>>
                    ELSE <<up, FALSE>>
            w == [d \in {0, 1} |-> IF d = 0 THEN <<s, TRUE>> ELSE last]
<1>1. DOMAIN spans = {0, 1} /\ NOf(0) = n /\ Dims = 2 /\ n \in Nat
  BY SpannedSizes DEF Spanned
<1>2. w = G(w)
  BY <1>1
<1>3. go = G(go)
  <2>. HIDE DEF G, w
  <2>. QED  BY <1>2
<1>4. Advance(s) = go[1][1]
  BY <1>1 DEF Advance
<1>. HIDE DEF go
<1>5. go[0] = <<s, TRUE>>
  BY <1>1, <1>3
<1>6. go[1] = last
  <2>. DEFINE H(p) == IF ~p[2] THEN p
                      ELSE LET inc == [p[1] EXCEPT ![0] = @ + 1]
                           IN IF inc[0] >= NOf(0)
                              THEN <<[inc EXCEPT ![1] = @ + 1, ![0] = 0], TRUE>>
                              ELSE <<inc, FALSE>>
  <2>1. go[1] = H(go[0])
    <3>1. go[1] = G(go)[1]
      BY <1>3
    <3>2. G(go)[1] = H(go[1 - 1])
      BY <1>1
    <3>3. go[1 - 1] = go[0]
      OBVIOUS
    <3>. HIDE DEF G, H
    <3>. QED  BY <3>1, <3>2, <3>3
  <2>2. H(<<s, TRUE>>) = last
    BY <1>1
  <2>. HIDE DEF H, last
  <2>. QED  BY <1>5, <2>1, <2>2
<1>7. last[1] = IF up[0] >= n THEN [up EXCEPT ![1] = @ + 1, ![0] = 0] ELSE up
  OBVIOUS
<1>8. Advance(s) = last[1]
  <2>. HIDE DEF last, G, w
  <2>. QED  BY <1>4, <1>6
<1>. HIDE DEF last, G, w
<1>9. /\ up[0] = s[0] + 1
      /\ up = [d \in {0, 1} |-> IF d = 0 THEN s[0] + 1 ELSE s[1]]
  OBVIOUS
<1>10. [up EXCEPT ![1] = @ + 1, ![0] = 0]
         = [d \in {0, 1} |-> IF d = 0 THEN 0 ELSE s[1] + 1]
  BY <1>9
<1>. HIDE DEF up
<1>. QED  BY <1>7, <1>8, <1>9, <1>10

\* field_at looks a cell up row by row.
LEMMA FieldAtIs ==
  ASSUME NEW n, NEW m, Spanned(n, m), NEW x \in [{0, 1} -> Int]
  PROVE  FieldAt(x) = x[1] * n + x[0]
<1>. DEFINE O(f) == [d \in DOMAIN spans |->
                       IF d = 0 THEN 0
                       ELSE f[d - 1] + x[d] * NOf(d - 1) + x[d - 1]]
            off == CHOOSE f : f = O(f)
            w == [d \in {0, 1} |-> IF d = 0 THEN 0 ELSE 0 + x[1] * n + x[0]]
<1>1. DOMAIN spans = {0, 1} /\ NOf(0) = n /\ Dims = 2 /\ n \in Nat
  BY SpannedSizes DEF Spanned
<1>2. w = O(w)
  BY <1>1
<1>3. off = O(off)
  <2>. HIDE DEF O, w
  <2>. QED  BY <1>2
<1>4. FieldAt(x) = off[1]
  BY <1>1 DEF FieldAt
<1>. HIDE DEF off
<1>5. off[0] = 0 /\ off[1] = off[0] + x[1] * n + x[0]
  BY <1>1, <1>3
<1>. QED  BY <1>1, <1>4, <1>5

\* A row is full before the next one begins.
LEMMA RowsApart ==
  ASSUME NEW n \in Nat, NEW i \in Int, NEW j \in Int, NEW k \in Int,
         i < n, j < k
  PROVE  j * n + i < k * n
<1>1. (j + 1) * n <= k * n
  <2>1. 0 <= (k - (j + 1)) * n
    OBVIOUS
  <2>2. (k - (j + 1)) * n = k * n - (j + 1) * n
    OBVIOUS
  <2>. QED  BY <2>1, <2>2
<1>2. (j + 1) * n = j * n + n
  OBVIOUS
<1>3. j * n \in Int /\ k * n \in Int
  OBVIOUS
<1>. QED  BY <1>1, <1>2, <1>3

\* Row and column of a cell, from its place.
LEMMA CellIs ==
  ASSUME NEW n \in Nat, NEW i \in 0 .. n - 1, NEW j \in Int,
         NEW e \in 0 .. n - 1, NEW k \in Int, j * n + i = k * n + e
  PROVE  i = e /\ j = k
<1>. DEFINE p == j * n
            q == k * n
<1>1. p \in Int /\ q \in Int /\ n \in Int /\ i \in Int /\ e \in Int
      /\ i < n /\ e < n /\ 0 <= i /\ 0 <= e
  OBVIOUS
<1>2. ~ (j < k)
  <2>1. j < k => p + i < q
    BY <1>1, RowsApart
  <2>. HIDE DEF p, q
  <2>. QED  BY <1>1, <2>1
<1>3. ~ (k < j)
  <2>1. k < j => q + e < p
    BY <1>1, RowsApart
  <2>. HIDE DEF p, q
  <2>. QED  BY <1>1, <2>1
<1>. QED  BY <1>2, <1>3

\* A place is the end of its row before, and a column.
LEMMA PlaceIs ==
  ASSUME NEW n \in Nat, n > 0, NEW z \in Int
  PROVE  /\ z % n \in 0 .. n - 1 /\ z \div n \in Int
         /\ z = (z \div n) * n + (z % n)
OBVIOUS

\* Row and column are read off the place.
LEMMA RowColumn ==
  ASSUME NEW n \in Nat, NEW i \in 0 .. n - 1, NEW j \in Int
  PROVE  (j * n + i) % n = i /\ (j * n + i) \div n = j
<1>. DEFINE z == j * n + i
<1>1. n > 0 /\ z \in Int
  OBVIOUS
<1>2. z % n \in 0 .. n - 1 /\ z \div n \in Int /\ z = (z \div n) * n + (z % n)
  <2>. HIDE DEF z
  <2>. QED  BY <1>1, PlaceIs
<1>. QED  BY <1>2, CellIs

\* The value of a function at a cell, by column and row.
At(i, j) == Sampled(op, [d \in {0, 1} |-> spans[d][<<i, j>>[d + 1]]])

\* The same value, as apply computes it and as a cell has it.
LEMMA AtIs ==
  /\ \A i, j : At(i, j) = op[1] * spans[0][i] + op[2] * spans[1][j]
                            + op[3] * spans[0][i] * spans[1][j]
  /\ \A c \in Cells : ValueOf(c) = At(c[1], c[2])
<1>1. \A i, j : At(i, j) = op[1] * spans[0][i] + op[2] * spans[1][j]
                            + op[3] * spans[0][i] * spans[1][j]
  BY DEF At, Sampled
<1>2. \A c \in Cells : c = <<c[1], c[2]>>
  BY DEF Cells
<1>. QED  BY <1>1, <1>2 DEF At, ValueOf

\* It is an integer.
LEMMA AtIsInt ==
  ASSUME NEW n, NEW m, Spanned(n, m), op \in Int \X Int \X Int,
         NEW i \in 0 .. n - 1, NEW j \in 0 .. m - 1
  PROVE  At(i, j) \in Int
<1>1. /\ spans[0][i] \in Int /\ spans[1][j] \in Int
      /\ op[1] \in Int /\ op[2] \in Int /\ op[3] \in Int
  BY DEF Spanned
<1>. DEFINE a == spans[0][i]
            b == spans[1][j]
<1>. HIDE DEF a, b
<1>2. a \in Int /\ b \in Int
  BY <1>1 DEF a, b
<1>3. op[1] * a + op[2] * b + op[3] * a * b \in Int
  BY <1>1, <1>2
<1>. QED  BY <1>3, AtIs DEF a, b

\* What holds while a function is applied: the odometer tells the place, and
\* the cells before it have their values.
SampledInv(n, m) ==
  /\ op \in Int \X Int \X Int
  /\ at \in 0 .. n * m
  /\ ds \in [{0, 1} -> Nat]
  /\ ds[0] < n /\ ds[1] * n + ds[0] = at
  /\ \A i \in 0 .. n - 1, j \in 0 .. m - 1 :
       j * n + i < at => field[j * n + i] = At(i, j)

\* A sample above 0 need not have been tried for the minimum.
ScaleInv(n, m) ==
  /\ gmax \in Nat /\ gmin \in Int
  /\ gmax = 0 \/ \E k \in 0 .. at - 1 : gmax = field[k]
  /\ gmin = Huge \/ \E k \in 0 .. at - 1 : gmin = field[k]
  /\ \A k \in 0 .. at - 1 : /\ field[k] <= gmax
                            /\ field[k] <= 0 => gmin <= field[k]

\* Before the spans are given, before a function is applied, and since.
GridInv ==
  \/ spans = <<>> /\ op = NoOp /\ at = 0
  \/ \E n, m \in Nat :
       /\ Spanned(n, m)
       /\ field \in [0 .. n * m - 1 -> Int]
       /\ \/ op = NoOp /\ at = 0
          \/ SampledInv(n, m) /\ ScaleInv(n, m)

\* A grid begins without spans.
LEMMA GridInit == GInit => GridInv
BY DEF GInit, GridInv

\* Spans are given once, and with them the field.
LEMMA RespanStep ==
  ASSUME NEW sp, Respan(sp), GridInv,
         DOMAIN sp = {0, 1}, IsSpan(sp[0]), IsSpan(sp[1])
  PROVE  GridInv'
<1>1. spans' = sp /\ field' = AlignField(sp) /\ op' = op /\ at' = at
      /\ spans = <<>>
  BY DEF Respan
<1>2. op = NoOp /\ at = 0
  BY <1>1 DEF GridInv, Spanned
<1>3. PICK n \in Nat, m \in Nat : /\ sp[0] \in [0 .. n - 1 -> Int]
                                  /\ sp[1] \in [0 .. m - 1 -> Int]
  BY DEF IsSpan
<1>4. AlignField(sp) = [k \in 0 .. n * m - 1 |-> 0]
  BY <1>3, AlignFieldIs
<1>5. field' \in [0 .. n * m - 1 -> Int]
  BY <1>1, <1>4
<1>6. Spanned(n, m)'
  BY <1>1, <1>3 DEF Spanned
<1>. QED  BY <1>1, <1>2, <1>5, <1>6 DEF GridInv

\* Either way to give them.
LEMMA SpanStep ==
  ASSUME GridInv, SpanN \/ SpanS
  PROVE  GridInv'
<1>. DEFINE Arg == (Nat \ {0}) \X Int \X Int
<1>1. ASSUME NEW ss \in Arg \X Arg
      PROVE  Len(ss) = 2 /\ ss[1] \in Arg /\ ss[2] \in Arg
  OBVIOUS
<1>2. CASE SpanN
  <2>1. PICK ss \in SpanNs :
          Respan([d \in 0 .. Len(ss) - 1 |-> LinspaceN(ss[d + 1])])
    BY <1>2 DEF SpanN
  <2>. DEFINE sp == [d \in 0 .. Len(ss) - 1 |-> LinspaceN(ss[d + 1])]
  <2>2. ss \in Arg \X Arg
    BY GridAssumption
  <2>3. /\ DOMAIN sp = {0, 1}
        /\ sp[0] = LinspaceN(ss[1]) /\ sp[1] = LinspaceN(ss[2])
    <3>1. Len(ss) = 2
      BY <1>1, <2>2
    <3>2. 0 .. 2 - 1 = {0, 1} /\ 0 + 1 = 1 /\ 1 + 1 = 2
      OBVIOUS
    <3>. QED  BY <3>1, <3>2
  <2>4. IsSpan(sp[0]) /\ IsSpan(sp[1])
    BY <1>1, <2>2, <2>3, LinspaceIs
  <2>. HIDE DEF sp
  <2>. QED  BY <2>1, <2>3, <2>4, RespanStep DEF sp
<1>3. CASE SpanS
  <2>1. PICK ss \in SpanSs :
          Respan([d \in 0 .. Len(ss) - 1 |-> LinspaceS(ss[d + 1])])
    BY <1>3 DEF SpanS
  <2>. DEFINE sp == [d \in 0 .. Len(ss) - 1 |-> LinspaceS(ss[d + 1])]
  <2>2. ss \in Arg \X Arg
    BY GridAssumption
  <2>3. /\ DOMAIN sp = {0, 1}
        /\ sp[0] = LinspaceS(ss[1]) /\ sp[1] = LinspaceS(ss[2])
    <3>1. Len(ss) = 2
      BY <1>1, <2>2
    <3>2. 0 .. 2 - 1 = {0, 1} /\ 0 + 1 = 1 /\ 1 + 1 = 2
      OBVIOUS
    <3>. QED  BY <3>1, <3>2
  <2>4. IsSpan(sp[0]) /\ IsSpan(sp[1])
    BY <1>1, <2>2, <2>3, LinspaceIs
  <2>. HIDE DEF sp
  <2>. QED  BY <2>1, <2>3, <2>4, RespanStep DEF sp
<1>. QED  BY <1>2, <1>3

\* The field has as many values as there are cells.
LEMMA FieldSize ==
  ASSUME NEW n \in Nat, NEW m \in Nat, field \in [0 .. n * m - 1 -> Int]
  PROVE  FieldCount = n * m
<1>1. n * m \in Nat
  OBVIOUS
<1>2. DOMAIN field = 0 .. n * m - 1
  OBVIOUS
<1>. DEFINE c == n * m
<1>. HIDE DEF c
<1>3. c \in Nat /\ DOMAIN field = 0 .. c - 1
  BY <1>1, <1>2 DEF c
<1>4. Cardinality(DOMAIN field) = c
  BY <1>3, SizeIs
<1>. QED  BY <1>4 DEF FieldCount, c

\* The odometer begins at the first cell, the scale beyond every value.
LEMMA ApplyStartStep ==
  ASSUME GridInv, ApplyStart
  PROVE  GridInv'
<1>1. /\ spans # <<>> /\ FieldCount >= Dims /\ op' \in Samples
      /\ ds' = [d \in DOMAIN spans |-> 0] /\ gmin' = Huge /\ gmax' = Tiny
      /\ spans' = spans /\ field' = field /\ at' = at /\ at = 0
  BY DEF ApplyStart
<1>2. PICK n \in Nat, m \in Nat :
        Spanned(n, m) /\ field \in [0 .. n * m - 1 -> Int]
  BY <1>1 DEF GridInv
<1>3. n * m >= 2
  BY <1>1, <1>2, FieldSize, SpannedSizes
<1>4. n > 0
  <2>1. n = 0 => n * m = 0
    OBVIOUS
  <2>. QED  BY <1>3, <2>1
<1>5. op' \in Int \X Int \X Int
  BY <1>1, GridAssumption
<1>6. SampledInv(n, m)'
  <2>1. ds' = [d \in {0, 1} |-> 0]
    BY <1>1, <1>2 DEF Spanned
  <2>2. ds'[0] = 0 /\ ds'[1] = 0 /\ 0 * n + 0 = 0
    BY <2>1
  <2>3. ASSUME NEW i \in 0 .. n - 1, NEW j \in 0 .. m - 1
        PROVE  ~ (j * n + i < 0)
    OBVIOUS
  <2>4. 0 \in 0 .. n * m
    BY <1>3
  <2>. QED  BY <1>1, <1>4, <1>5, <2>1, <2>2, <2>3, <2>4 DEF SampledInv
<1>7. ScaleInv(n, m)'
  BY <1>1 DEF ScaleInv, Huge, Tiny
<1>8. Spanned(n, m)'
  BY <1>1, <1>2 DEF Spanned
<1>. QED  BY <1>1, <1>2, <1>6, <1>7, <1>8 DEF GridInv

\* A step samples the cell the odometer is at, and goes on to the next.
LEMMA ApplyStepStep ==
  ASSUME GridInv, ApplyStep
  PROVE  GridInv'
<1>. DEFINE v == Sampled(op, [d \in DOMAIN spans |-> spans[d][ds[d]]])
<1>1. /\ op # NoOp /\ at < FieldCount
      /\ field' = [field EXCEPT ![at] = v] /\ gmax' = Upper(v)
      /\ gmin' = Lower(v) /\ ds' = Advance(ds) /\ at' = at + 1
      /\ spans' = spans /\ op' = op
  BY DEF ApplyStep
<1>2. PICK n \in Nat, m \in Nat :
        /\ Spanned(n, m) /\ field \in [0 .. n * m - 1 -> Int]
        /\ SampledInv(n, m) /\ ScaleInv(n, m)
  BY <1>1 DEF GridInv
<1>. DEFINE i == ds[0]
            j == ds[1]
            c == n * m
<1>3. /\ op \in Int \X Int \X Int /\ at \in Int /\ at >= 0
      /\ ds \in [{0, 1} -> Nat] /\ i \in 0 .. n - 1 /\ j \in Nat
      /\ j * n + i = at /\ c \in Nat /\ at < c
  <2>1. FieldCount = c
    BY <1>2, FieldSize
  <2>. QED  BY <1>1, <1>2, <2>1 DEF SampledInv
<1>4. j \in 0 .. m - 1
  <2>1. ASSUME m <= j PROVE FALSE
    <3>1. 0 <= (j - m) * n /\ (j - m) * n = j * n - m * n /\ m * n = n * m
      BY <1>3, <2>1
    <3>. DEFINE p == j * n
                q == m * n
    <3>2. p \in Int /\ q \in Int
      BY <1>3
    <3>3. q <= p /\ q = c /\ p + i = at
      <4>1. (j - m) * n = p - q
        BY <3>1
      <4>. HIDE DEF p, q
      <4>. QED  BY <1>3, <3>1, <3>2, <4>1 DEF p, q
    <3>. HIDE DEF p, q, c
    <3>. QED  BY <1>3, <3>2, <3>3
  <2>. QED  BY <1>3, <2>1
<1>5. v = At(i, j)
  <2>1. v = op[1] * spans[0][i] + op[2] * spans[1][j]
              + op[3] * spans[0][i] * spans[1][j]
    BY <1>2 DEF Sampled, Spanned
  <2>. QED  BY <2>1, AtIs
<1>6. v \in Int
  <2>. HIDE DEF v, i, j
  <2>. QED  BY <1>2, <1>3, <1>4, <1>5, AtIsInt
<1>. HIDE DEF v, c
<1>7. /\ field' \in [0 .. n * m - 1 -> Int] /\ field'[at] = v
      /\ \A k \in 0 .. at - 1 : field'[k] = field[k] /\ field[k] \in Int
  <2>1. field \in [0 .. c - 1 -> Int] /\ at \in 0 .. c - 1
    BY <1>2, <1>3 DEF c
  <2>2. field' \in [0 .. c - 1 -> Int] /\ field'[at] = v
    BY <1>1, <1>6, <2>1
  <2>3. ASSUME NEW k \in 0 .. at - 1
        PROVE  field'[k] = field[k] /\ field[k] \in Int
    <3>1. k \in 0 .. c - 1 /\ k # at
      BY <1>3
    <3>. QED  BY <1>1, <2>1, <3>1
  <2>. QED  BY <2>2, <2>3 DEF c
<1>8. Spanned(n, m)'
  BY <1>1, <1>2 DEF Spanned
<1>9. ASSUME NEW e \in 0 .. n - 1, NEW k \in 0 .. m - 1
      PROVE  At(e, k)' = At(e, k)
  BY <1>1, AtIs DEF At
<1>10. /\ ds' \in [{0, 1} -> Nat] /\ ds'[0] < n
       /\ ds'[1] * n + ds'[0] = at + 1
  <2>1. ds \in [{0, 1} -> Int]
    BY <1>3
  <2>2. Advance(ds) = IF i + 1 >= n
                      THEN [d \in {0, 1} |-> IF d = 0 THEN 0 ELSE j + 1]
                      ELSE [d \in {0, 1} |-> IF d = 0 THEN i + 1 ELSE j]
    BY <1>2, <2>1, AdvanceIs
  <2>3. (j + 1) * n = j * n + n /\ j * n \in Int
    BY <1>3
  <2>4. i + 1 >= n => /\ ds' = [d \in {0, 1} |-> IF d = 0 THEN 0 ELSE j + 1]
                      /\ i + 1 = n
    BY <1>1, <1>3, <2>2
  <2>5. i + 1 < n => ds' = [d \in {0, 1} |-> IF d = 0 THEN i + 1 ELSE j]
    BY <1>1, <1>3, <2>2
  <2>. HIDE DEF i, j
  <2>6. i + 1 >= n => ds'[0] = 0 /\ ds'[1] = j + 1 /\ i + 1 = n
    BY <2>4
  <2>7. i + 1 < n => ds'[0] = i + 1 /\ ds'[1] = j
    BY <2>5
  <2>8. ds' \in [{0, 1} -> Nat]
    BY <1>3, <2>4, <2>5
  <2>9. i + 1 >= n => ds'[1] * n + ds'[0] = (j + 1) * n + 0 /\ ds'[0] < n
    BY <1>3, <2>6
  <2>10. i + 1 < n => ds'[1] * n + ds'[0] = j * n + (i + 1) /\ ds'[0] < n
    BY <2>7
  <2>. DEFINE p == j * n
              q == (j + 1) * n
  <2>11. p \in Int /\ q = p + n /\ p + i = at /\ i \in Int
    BY <1>3, <2>3
  <2>12. (i + 1 >= n => q + 0 = at + 1) /\ p + (i + 1) = at + 1
    <3>. HIDE DEF p, q
    <3>. QED  BY <1>3, <2>6, <2>11
  <2>13. i + 1 >= n \/ i + 1 < n
    BY <1>3
  <2>. QED  BY <2>8, <2>9, <2>10, <2>12, <2>13
<1>11. ASSUME NEW e \in 0 .. n - 1, NEW k \in 0 .. m - 1, k * n + e < at + 1
       PROVE  field'[k * n + e] = At(e, k)
  <2>. DEFINE z == k * n + e
  <2>1. z \in Int /\ z >= 0
    OBVIOUS
  <2>2. z = at => e = i /\ k = j
    <3>. HIDE DEF i, j
    <3>. QED  BY <1>3, CellIs
  <2>3. z < at => field[z] = At(e, k)
    BY <1>2 DEF SampledInv
  <2>. HIDE DEF z
  <2>4. z < at \/ z = at
    BY <1>3, <1>11, <2>1 DEF z
  <2>5. z < at => field'[z] = At(e, k)
    BY <1>3, <1>7, <2>1, <2>3
  <2>6. z = at => field'[z] = At(e, k)
    BY <1>5, <1>7, <2>2
  <2>. QED  BY <2>4, <2>5, <2>6 DEF z
<1>12. SampledInv(n, m)'
  <2>1. at' \in 0 .. n * m
    BY <1>1, <1>3 DEF c
  <2>. QED  BY <1>1, <1>3, <1>9, <1>10, <1>11, <2>1 DEF SampledInv
<1>13. ScaleInv(n, m)'
  <2>1. /\ gmax \in Nat /\ gmin \in Int
        /\ gmax = 0 \/ \E k \in 0 .. at - 1 : gmax = field[k]
        /\ gmin = Huge \/ \E k \in 0 .. at - 1 : gmin = field[k]
        /\ \A k \in 0 .. at - 1 : /\ field[k] <= gmax
                                  /\ field[k] <= 0 => gmin <= field[k]
    BY <1>2 DEF ScaleInv
  <2>2. /\ gmax' = IF v > gmax THEN v ELSE gmax
        /\ gmin' = IF v <= gmax /\ v < gmin THEN v ELSE gmin
    BY <1>1 DEF Upper, Lower
  <2>3. gmax' \in Nat /\ gmin' \in Int /\ gmax <= gmax' /\ gmin' <= gmin
    BY <1>6, <2>1, <2>2
  <2>4. v <= gmax' /\ (v <= 0 => gmin' <= v)
    BY <1>6, <2>1, <2>2
  <2>5. \A k \in 0 .. at : k = at \/ k \in 0 .. at - 1
    BY <1>3
  <2>6. 0 .. at' - 1 = 0 .. at /\ at \in 0 .. at
    BY <1>1, <1>3
  <2>7. ASSUME NEW k \in 0 .. at
        PROVE  field'[k] <= gmax' /\ (field'[k] <= 0 => gmin' <= field'[k])
    <3>1. k = at => field'[k] = v
      BY <1>7
    <3>2. k \in 0 .. at - 1 => /\ field'[k] = field[k] /\ field[k] \in Int
                               /\ field[k] <= gmax
                               /\ field[k] <= 0 => gmin <= field[k]
      BY <1>7, <2>1
    <3>. QED  BY <2>1, <2>3, <2>4, <2>5, <3>1, <3>2
  <2>8. ASSUME NEW x, x = v \/ \E k \in 0 .. at - 1 : x = field[k]
        PROVE  \E k \in 0 .. at : x = field'[k]
    <3>1. 0 .. at - 1 \subseteq 0 .. at
      BY <1>3
    <3>. QED  BY <1>7, <2>6, <2>8, <3>1
  <2>9. gmax' = 0 \/ \E k \in 0 .. at : gmax' = field'[k]
    BY <2>1, <2>2, <2>8
  <2>10. gmin' = Huge \/ \E k \in 0 .. at : gmin' = field'[k]
    BY <2>1, <2>2, <2>8
  <2>. QED  BY <2>3, <2>6, <2>7, <2>9, <2>10 DEF ScaleInv
<1>14. op' = op
  BY <1>1
<1>. QED  BY <1>7, <1>8, <1>12, <1>13 DEF GridInv

\* Every step keeps it.
LEMMA GridStep == GridInv /\ [GNext]_gvars => GridInv'
<1>1. GridInv /\ GNext => GridInv'
  BY SpanStep, ApplyStartStep, ApplyStepStep DEF GNext
<1>2. ASSUME GridInv, UNCHANGED gvars PROVE GridInv'
  <2>1. /\ spans' = spans /\ field' = field /\ gmin' = gmin /\ gmax' = gmax
        /\ op' = op /\ ds' = ds /\ at' = at
    BY <1>2 DEF gvars
  <2>2. ASSUME NEW n, NEW m, Spanned(n, m) PROVE Spanned(n, m)'
    BY <2>1, <2>2 DEF Spanned
  <2>3. ASSUME NEW n, NEW m, SampledInv(n, m) PROVE SampledInv(n, m)'
    <3>1. \A i, j : At(i, j)' = At(i, j)
      BY <2>1 DEF At
    <3>. QED  BY <2>1, <2>3, <3>1 DEF SampledInv
  <2>4. ASSUME NEW n, NEW m, ScaleInv(n, m) PROVE ScaleInv(n, m)'
    BY <2>1, <2>4 DEF ScaleInv
  <2>. QED  BY <1>2, <2>1, <2>2, <2>3, <2>4 DEF GridInv
<1>. QED  BY <1>1, <1>2

\* The grid once a function was applied to all of it.
Whole(n, m) ==
  /\ n \in Nat /\ m \in Nat /\ n > 0
  /\ Spanned(n, m) /\ field \in [0 .. n * m - 1 -> Int]
  /\ at = n * m /\ FieldCount = n * m
  /\ SampledInv(n, m) /\ ScaleInv(n, m)

\* It is that once the last sample is taken.
LEMMA AppliedIsWhole ==
  ASSUME GridInv, Applied
  PROVE  \E n, m : Whole(n, m)
<1>1. PICK n \in Nat, m \in Nat :
        /\ Spanned(n, m) /\ field \in [0 .. n * m - 1 -> Int]
        /\ SampledInv(n, m) /\ ScaleInv(n, m)
  BY DEF GridInv, Applied
<1>2. FieldCount = n * m
  BY <1>1, FieldSize
<1>3. n > 0
  BY <1>1 DEF SampledInv
<1>. QED  BY <1>1, <1>2, <1>3 DEF Whole, Applied

\* A cell is a point of the mesh, at its coordinates and with its value.
LEMMA PointIs ==
  ASSUME NEW n, NEW m, Whole(n, m), NEW i \in 0 .. n - 1, NEW j \in 0 .. m - 1
  PROVE  /\ field[j * n + i] = At(i, j)
         /\ j * n + i \in DOMAIN Vbo
         /\ Vbo[j * n + i] = <<spans[0][i], spans[1][j], At(i, j)>>
<1>. DEFINE z == j * n + i
<1>1. n \in Nat /\ n > 0 /\ m \in Nat /\ FieldCount = n * m /\ NOf(0) = n
  BY SpannedSizes DEF Whole
<1>2. z \in Int /\ z >= 0
  BY <1>1
<1>3. z < n * m
  <2>1. z < m * n
    BY <1>1, RowsApart
  <2>. QED  BY <1>1, <2>1
<1>4. z % n = i /\ z \div n = j
  BY <1>1, RowColumn
<1>5. field[z] = At(i, j)
  BY <1>3 DEF Whole, SampledInv
<1>. HIDE DEF z
<1>6. n * m \in Int
  BY <1>1
<1>7. z \in 0 .. FieldCount - 1
  BY <1>1, <1>2, <1>3, <1>6
<1>8. /\ DOMAIN Vbo = 0 .. FieldCount - 1
      /\ Vbo[z] = <<spans[0][z % n], spans[1][z \div n], field[z]>>
  BY <1>1, <1>7 DEF Vbo
<1>. QED  BY <1>4, <1>5, <1>7, <1>8 DEF z

\* Each cell is found, drawn and meshed as sampled.
LEMMA WholeIsFound ==
  ASSUME NEW n, NEW m, Whole(n, m)
  PROVE  FoundWhereStored
<1>1. NOf(0) = n /\ NOf(1) = m /\ Spanned(n, m)
  BY SpannedSizes DEF Whole
<1>2. SUFFICES ASSUME NEW c \in Cells
      PROVE  /\ field[FieldAt([d \in {0, 1} |-> c[d + 1]])] = ValueOf(c)
             /\ Pixel(c[2], c[1]) = ValueOf(c)
             /\ <<spans[0][c[1]], spans[1][c[2]], ValueOf(c)>> \in
                  {Vbo[z] : z \in DOMAIN Vbo}
  BY DEF FoundWhereStored
<1>. DEFINE x == [d \in {0, 1} |-> c[d + 1]]
<1>3. c[1] \in 0 .. n - 1 /\ c[2] \in 0 .. m - 1
  BY <1>1 DEF Cells
<1>4. /\ field[c[2] * n + c[1]] = ValueOf(c)
      /\ c[2] * n + c[1] \in DOMAIN Vbo
      /\ Vbo[c[2] * n + c[1]] = <<spans[0][c[1]], spans[1][c[2]], ValueOf(c)>>
  BY <1>3, PointIs, AtIs
<1>5. x \in [{0, 1} -> Int] /\ x[0] = c[1] /\ x[1] = c[2]
  <2>1. x[0] = c[1] /\ x[1] = c[2]
    OBVIOUS
  <2>2. x = [d \in {0, 1} |-> x[d]]
    OBVIOUS
  <2>. HIDE DEF x
  <2>. QED  BY <1>3, <2>1, <2>2
<1>. HIDE DEF x
<1>6. FieldAt(x) = c[2] * n + c[1]
  BY <1>1, <1>5, FieldAtIs
<1>7. Pixel(c[2], c[1]) = field[c[2] * n + c[1]]
  BY <1>1 DEF Pixel
<1>. QED  BY <1>4, <1>6, <1>7 DEF x

\* Three numbers.
LEMMA ThreeAre ==
  ASSUME NEW x \in Int, NEW y \in Int, NEW z \in Int, x # y, y # z, x # z
  PROVE  Cardinality({x, y, z}) = 3
<1>. DEFINE S == {x}
            T == S \cup {y}
<1>1. y \notin S /\ z \notin T
  OBVIOUS
<1>2. T \cup {z} = {x, y, z}
  OBVIOUS
<1>3. IsFiniteSet(S) /\ Cardinality(S) = 1
  BY FS_Singleton
<1>. HIDE DEF S
<1>4. IsFiniteSet(T) /\ Cardinality(T) = 2
  BY <1>1, <1>3, FS_AddElement
<1>. HIDE DEF T
<1>5. Cardinality(T \cup {z})
        = IF z \in T THEN Cardinality(T) ELSE Cardinality(T) + 1
  BY <1>4, FS_AddElement
<1>6. Cardinality(T \cup {z}) = 3
  BY <1>1, <1>4, <1>5
<1>. QED  BY <1>2, <1>6

\* The triangles of a quad cover it.
LEMMA WholeIsMeshed ==
  ASSUME NEW n, NEW m, Whole(n, m)
  PROVE  MeshCovers
<1>1. NOf(0) = n /\ NOf(1) = m /\ n \in Nat /\ m \in Nat
  BY SpannedSizes DEF Whole
<1>2. SUFFICES ASSUME NEW q \in (0 .. n - 2) \X (0 .. m - 2)
      PROVE  LET e == Ebo[q]
                 X(k) == {Vbo[e[j]][1] : j \in k}
                 Y(k) == {Vbo[e[j]][2] : j \in k}
                 xs == {spans[0][q[1]], spans[0][q[1] + 1]}
                 ys == {spans[1][q[2]], spans[1][q[2] + 1]}
             IN /\ {<<Vbo[e[j]][1], Vbo[e[j]][2]>> : j \in 1 .. 6} = xs \X ys
                /\ Cardinality({e[1], e[2], e[3]}) = 3
                /\ Cardinality({e[4], e[5], e[6]}) = 3
                /\ X(1 .. 3) = xs /\ Y(4 .. 6) = ys
  <2>1. DOMAIN Ebo = (0 .. n - 2) \X (0 .. m - 2)
    BY <1>1 DEF Ebo
  <2>. QED  BY <2>1 DEF MeshCovers
<1>. DEFINE i == q[1]
            j == q[2]
            b == j * n + i
            e == Ebo[q]
            x0 == spans[0][i]
            x1 == spans[0][i + 1]
            y0 == spans[1][j]
            y1 == spans[1][j + 1]
<1>3. /\ i \in 0 .. n - 1 /\ i + 1 \in 0 .. n - 1
      /\ j \in 0 .. m - 1 /\ j + 1 \in 0 .. m - 1
  BY <1>1
<1>4. e = <<b + 1, b, b + n, b + n, b + n + 1, b + 1>>
  BY <1>1 DEF Ebo
<1>5. /\ b + 1 = j * n + (i + 1) /\ b + n = (j + 1) * n + i
      /\ b + n + 1 = (j + 1) * n + (i + 1) /\ b \in Int /\ n >= 2
  BY <1>1, <1>3
<1>6. /\ Vbo[b] = <<x0, y0, At(i, j)>>
      /\ Vbo[b + 1] = <<x1, y0, At(i + 1, j)>>
      /\ Vbo[b + n] = <<x0, y1, At(i, j + 1)>>
      /\ Vbo[b + n + 1] = <<x1, y1, At(i + 1, j + 1)>>
  <2>1. Vbo[j * n + i] = <<x0, y0, At(i, j)>>
    BY <1>3, PointIs
  <2>2. Vbo[j * n + (i + 1)] = <<x1, y0, At(i + 1, j)>>
    <3>. HIDE DEF i, j
    <3>. QED  BY <1>3, PointIs DEF x1, y0
  <2>3. Vbo[(j + 1) * n + i] = <<x0, y1, At(i, j + 1)>>
    <3>. HIDE DEF i, j
    <3>. QED  BY <1>3, PointIs
  <2>4. Vbo[(j + 1) * n + (i + 1)] = <<x1, y1, At(i + 1, j + 1)>>
    <3>. HIDE DEF i, j
    <3>. QED  BY <1>3, PointIs
  <2>. HIDE DEF i, j, x0, x1, y0, y1
  <2>. QED  BY <1>5, <2>1, <2>2, <2>3, <2>4
<1>. HIDE DEF b, x0, x1, y0, y1
<1>7. /\ e[1] = b + 1 /\ e[2] = b /\ e[3] = b + n
      /\ e[4] = b + n /\ e[5] = b + n + 1 /\ e[6] = b + 1
  BY <1>4
<1>. HIDE DEF e
<1>8. /\ Vbo[e[1]][1] = x1 /\ Vbo[e[1]][2] = y0
      /\ Vbo[e[2]][1] = x0 /\ Vbo[e[2]][2] = y0
      /\ Vbo[e[3]][1] = x0 /\ Vbo[e[3]][2] = y1
      /\ Vbo[e[4]][1] = x0 /\ Vbo[e[4]][2] = y1
      /\ Vbo[e[5]][1] = x1 /\ Vbo[e[5]][2] = y1
      /\ Vbo[e[6]][1] = x1 /\ Vbo[e[6]][2] = y0
  BY <1>6, <1>7
<1>9. /\ {<<Vbo[e[k]][1], Vbo[e[k]][2]>> : k \in 1 .. 6}
           = {x0, x1} \X {y0, y1}
      /\ {Vbo[e[k]][1] : k \in 1 .. 3} = {x0, x1}
      /\ {Vbo[e[k]][2] : k \in 4 .. 6} = {y0, y1}
  <2>. DEFINE V(k) == <<Vbo[e[k]][1], Vbo[e[k]][2]>>
  <2>1. /\ V(1) = <<x1, y0>> /\ V(2) = <<x0, y0>> /\ V(3) = <<x0, y1>>
        /\ V(4) = <<x0, y1>> /\ V(5) = <<x1, y1>> /\ V(6) = <<x1, y0>>
    BY <1>8
  <2>2. {x0, x1} \X {y0, y1} = {<<x0, y0>>, <<x0, y1>>, <<x1, y0>>, <<x1, y1>>}
    OBVIOUS
  <2>. HIDE DEF V
  <2>3. {V(k) : k \in 1 .. 6} = {V(1), V(2), V(3), V(4), V(5), V(6)}
    OBVIOUS
  <2>4. {V(k) : k \in 1 .. 6} = {x0, x1} \X {y0, y1}
    BY <2>1, <2>2, <2>3
  <2>5. {Vbo[e[k]][1] : k \in 1 .. 3}
          = {Vbo[e[1]][1], Vbo[e[2]][1], Vbo[e[3]][1]}
    OBVIOUS
  <2>6. {Vbo[e[k]][2] : k \in 4 .. 6}
          = {Vbo[e[4]][2], Vbo[e[5]][2], Vbo[e[6]][2]}
    OBVIOUS
  <2>. QED  BY <1>8, <2>4, <2>5, <2>6 DEF V
<1>10. /\ Cardinality({e[1], e[2], e[3]}) = 3
       /\ Cardinality({e[4], e[5], e[6]}) = 3
  BY <1>1, <1>5, <1>7, ThreeAre
<1>. QED  BY <1>9, <1>10 DEF e, x0, x1, y0, y1

\* The extremes of the samples, where the first values let them be found.
LEMMA WholeIsScaled ==
  ASSUME NEW n, NEW m, Whole(n, m)
  PROVE  ScaleIsTrue
<1>. DEFINE c == n * m
<1>1. /\ c \in Nat /\ field \in [0 .. c - 1 -> Int] /\ at = c
      /\ gmax \in Nat /\ gmin \in Int
      /\ gmax = 0 \/ \E k \in 0 .. c - 1 : gmax = field[k]
      /\ gmin = Huge \/ \E k \in 0 .. c - 1 : gmin = field[k]
      /\ \A k \in 0 .. c - 1 : /\ field[k] <= gmax
                               /\ field[k] <= 0 => gmin <= field[k]
  BY DEF Whole, ScaleInv
<1>. HIDE DEF c
<1>2. Stored \subseteq Int /\ Stored = {field[k] : k \in 0 .. c - 1}
  BY <1>1 DEF Stored
<1>3. ASSUME NEW v \in Stored, v > 0 PROVE gmax = Max(Stored)
  <2>1. gmax \in Stored /\ \A w \in Stored : gmax >= w
    BY <1>1, <1>2, <1>3
  <2>. QED  BY <1>2, <2>1 DEF Max
<1>4. ASSUME NEW v \in Stored, v <= 0 PROVE gmin = Min(Stored)
  <2>1. gmin <= v
    BY <1>1, <1>2, <1>4
  <2>2. gmin \in Stored
    BY <1>1, <1>2, <1>4, <2>1 DEF Huge
  <2>3. \A w \in Stored : gmin <= w
    BY <1>1, <1>2, <1>4, <2>1
  <2>4. ASSUME NEW w \in Stored, \A y \in Stored : w <= y PROVE w = gmin
    BY <1>1, <1>2, <2>2, <2>3, <2>4
  <2>. QED  BY <2>2, <2>3, <2>4 DEF Min
<1>. QED  BY <1>3, <1>4 DEF ScaleIsTrue

\* A function sampled over any two spans, with any counts of points, is read
\* back, drawn and meshed as it was sampled, with a scale that is true where
\* the code's first values let it be (madonna.hpp:579-658).
THEOREM GridAlwaysWhole == GInit /\ [][GNext]_gvars => []GridIsWhole
<1>1. GridInv => GridIsWhole
  BY AppliedIsWhole, WholeIsFound, WholeIsMeshed, WholeIsScaled
     DEF GridIsWhole
<1>. QED  BY <1>1, GridInit, GridStep, PTL

-----------------------------------------------------------------------------
\* Natural numbers have a least one.
LEMMA LeastNatural ==
  ASSUME NEW S, S \subseteq Nat, S # {}
  PROVE  \E i \in S : \A j \in S : i <= j
<1>1. PICK i \in S : \A j \in S : ~ (<<j, i>> \in OpToRel(<, Nat))
  BY NatLessThanWellFounded, WFMin
<1>2. ASSUME NEW j \in S PROVE i <= j
  <2>1. ~ (<<j, i>> \in OpToRel(<, Nat))
    BY <1>1
  <2>2. i \in Nat /\ j \in Nat
    OBVIOUS
  <2>3. ~ (j < i)
    BY <2>1, <2>2 DEF OpToRel
  <2>. QED  BY <2>2, <2>3
<1>. QED  BY <1>2

-----------------------------------------------------------------------------
(* The command map. *)

MapCmds == [text : CmdNames, id : Int]

Rising(m) == \A j, k \in 1 .. Len(m) : j < k => m[j].text <= m[k].text

Latest(m) ==
  \A j, k \in 1 .. Len(m) :
    /\ j < k /\ m[j].text = m[k].text
    /\ m[j].id > 0 \/ m[k].id > 0
    => m[j].id > m[k].id

\* Whatever map, its commands are in order, and each has an identity of its
\* own, above those of the commands that were pushed before it.
CommandsInv ==
  /\ cmdMap \in Seq(MapCmds)
  /\ born \in -1 .. MaxCmds
  /\ born = -1 => cmdMap = <<>>
  /\ \A k \in 1 .. Len(cmdMap) : cmdMap[k].id # 0 /\ cmdMap[k].id <= born
  /\ Rising(cmdMap)
  /\ Latest(cmdMap)

-----------------------------------------------------------------------------

-----------------------------------------------------------------------------
(* The search. *)

Ranges(m) == {r \in (1 .. Len(m) + 1) \X (0 .. Len(m)) :
                r[1] + r[2] <= Len(m) + 1}

\* Where the search goes on from a range that is not empty.
Below(m, name, r) == m[r[1] + (r[2] \div 2)].text < name
Upper2(r) == <<r[1] + (r[2] \div 2) + 1, r[2] - (r[2] \div 2) - 1>>
Lower2(r) == <<r[1], r[2] \div 2>>

\* g follows the search over the ranges of R.
Searches(g, m, name, R) ==
  g = [r \in R |-> IF r[2] = 0 THEN r[1]
                   ELSE IF Below(m, name, r) THEN g[Upper2(r)]
                   ELSE g[Lower2(r)]]

\* What is left of n places from a on behind the place h of them, or before it.
LEMMA HalfLeft ==
  ASSUME NEW l \in Nat, NEW a \in 1 .. l + 1, NEW n \in 1 .. l,
         a + n <= l + 1, NEW h \in 0 .. n - 1
  PROVE  /\ a + h + 1 \in 1 .. l + 1 /\ n - h - 1 \in 0 .. l
         /\ a + h + 1 + (n - h - 1) <= l + 1
         /\ a + h <= l + 1 /\ h \in 0 .. l
         /\ n - h - 1 \in 0 .. n - 1
OBVIOUS

\* It goes on in a shorter range of the same map.
LEMMA HalvesAre ==
  ASSUME NEW m, Len(m) \in Nat, NEW r \in Ranges(m), r[2] # 0
  PROVE  /\ Upper2(r) \in Ranges(m) /\ Lower2(r) \in Ranges(m)
         /\ Upper2(r)[2] \in 0 .. r[2] - 1 /\ Lower2(r)[2] \in 0 .. r[2] - 1
         /\ r[2] \div 2 \in 0 .. r[2] - 1
         /\ r[1] \in 1 .. Len(m) + 1 /\ r[2] \in 1 .. Len(m)
         /\ r[1] + r[2] <= Len(m) + 1
<1>1. /\ r[1] \in 1 .. Len(m) + 1 /\ r[2] \in 1 .. Len(m)
      /\ r[1] + r[2] <= Len(m) + 1
  BY DEF Ranges
<1>2. r[2] \div 2 \in 0 .. r[2] - 1
  BY <1>1
<1>. DEFINE half == r[2] \div 2
<1>7. half \in 0 .. r[2] - 1
  BY <1>2
<1>3. /\ Upper2(r) = <<r[1] + half + 1, r[2] - half - 1>>
      /\ Lower2(r) = <<r[1], half>>
  BY DEF Upper2, Lower2
<1>. HIDE DEF half
<1>4. /\ r[1] + half + 1 \in 1 .. Len(m) + 1 /\ r[2] - half - 1 \in 0 .. Len(m)
      /\ r[1] + half + 1 + (r[2] - half - 1) <= Len(m) + 1
      /\ r[1] + half <= Len(m) + 1 /\ half \in 0 .. Len(m)
      /\ r[2] - half - 1 \in 0 .. r[2] - 1
  BY <1>1, <1>7, HalfLeft
<1>5. Upper2(r) \in Ranges(m) /\ Upper2(r)[2] = r[2] - half - 1
  BY <1>3, <1>4 DEF Ranges
<1>6. Lower2(r) \in Ranges(m) /\ Lower2(r)[2] = half
  BY <1>1, <1>3, <1>4 DEF Ranges
<1>. QED  BY <1>1, <1>4, <1>5, <1>6, <1>7 DEF half

\* For any map there is such a search, because its ranges get shorter.
LEMMA SearchEnds ==
  ASSUME NEW m, Len(m) \in Nat, NEW name
  PROVE  \E g : Searches(g, m, name, Ranges(m))
<1>. DEFINE Short(n) == {r \in Ranges(m) : r[2] <= n}
            Bad == {n \in Nat : ~ \E g : Searches(g, m, name, Short(n))}
<1>1. Bad = {}
  <2>1. SUFFICES ASSUME Bad # {} PROVE FALSE
    OBVIOUS
  <2>2. Bad \subseteq Nat
    OBVIOUS
  <2>3. PICK n \in Bad : \A i \in Bad : n <= i
    BY <2>1, <2>2, LeastNatural
  <2>4. n \in Nat /\ ~ \E g : Searches(g, m, name, Short(n))
    OBVIOUS
  <2>5. ASSUME NEW r \in Short(n), r[2] # 0
        PROVE  /\ Upper2(r) \in Short(n - 1) /\ Lower2(r) \in Short(n - 1)
    BY <2>4, <2>5, HalvesAre DEF Ranges
  <2>6. CASE n = 0
    <3>. DEFINE g == [r \in Short(0) |-> r[1]]
    <3>1. \A r \in Short(0) : r[2] = 0
      BY DEF Ranges
    <3>2. Searches(g, m, name, Short(0))
      BY <3>1, Zenon DEF Searches
    <3>. QED  BY <3>2, <2>4, <2>6
  <2>7. CASE n # 0
    <3>1. n - 1 \in Nat /\ n - 1 \notin Bad
      <4>. HIDE DEF Bad
      <4>. QED  BY <2>3, <2>4, <2>7
    <3>2. PICK f : Searches(f, m, name, Short(n - 1))
      BY <3>1
    <3>. DEFINE g == [r \in Short(n) |->
                        IF r[2] = 0 THEN r[1]
                        ELSE IF Below(m, name, r) THEN f[Upper2(r)]
                        ELSE f[Lower2(r)]]
    <3>3. ASSUME NEW r \in Short(n - 1) PROVE g[r] = f[r]
      <4>1. r \in Short(n)
        BY <2>4 DEF Ranges
      <4>2. g[r] = IF r[2] = 0 THEN r[1]
                   ELSE IF Below(m, name, r) THEN f[Upper2(r)]
                   ELSE f[Lower2(r)]
        BY <4>1
      <4>3. f[r] = IF r[2] = 0 THEN r[1]
                   ELSE IF Below(m, name, r) THEN f[Upper2(r)]
                   ELSE f[Lower2(r)]
        <5>. HIDE DEF Short
        <5>. QED  BY <3>2, <3>3, Zenon DEF Searches
      <4>. QED  BY <4>2, <4>3
    <3>4. ASSUME NEW r \in Short(n), r[2] # 0
          PROVE  g[Upper2(r)] = f[Upper2(r)] /\ g[Lower2(r)] = f[Lower2(r)]
      BY <2>5, <3>3, <3>4
    <3>5. g = [r \in Short(n) |-> IF r[2] = 0 THEN r[1]
                                  ELSE IF Below(m, name, r) THEN g[Upper2(r)]
                                  ELSE g[Lower2(r)]]
      <4>. HIDE DEF Short
      <4>1. \A r \in Short(n) :
              (IF r[2] = 0 THEN r[1]
               ELSE IF Below(m, name, r) THEN f[Upper2(r)] ELSE f[Lower2(r)])
              = (IF r[2] = 0 THEN r[1]
                 ELSE IF Below(m, name, r) THEN g[Upper2(r)] ELSE g[Lower2(r)])
        <5>. HIDE DEF g
        <5>. QED  BY <3>4
      <4>. QED  BY <4>1, Zenon
    <3>6. Searches(g, m, name, Short(n))
      BY <3>5, Zenon DEF Searches
    <3>. QED  BY <3>6, <2>4
  <2>. QED  BY <2>6, <2>7
<1>2. PICK g : Searches(g, m, name, Short(Len(m)))
  BY <1>1
<1>3. Short(Len(m)) = Ranges(m)
  BY DEF Ranges
<1>. QED  BY <1>2, <1>3

\* The place is one of the map, or the one behind it.
InMap(m, p) == p \in 1 .. Len(m) + 1

\* What is before it is below the text, what is at it or after it is not.
Parts(m, name, p) ==
  /\ \A j \in 1 .. Len(m) : j < p => m[j].text < name
  /\ \A j \in 1 .. Len(m) : p <= j => name <= m[j].text

\* From any range the search finds a place; in a map in order, from a range
\* with nothing above the text before it and nothing below it behind, the
\* place that parts the map.
LEMMA SearchFinds ==
  ASSUME NEW m \in Seq(MapCmds), NEW name \in CmdNames,
         NEW g, Searches(g, m, name, Ranges(m)),
         NEW r \in Ranges(m)
  PROVE  /\ InMap(m, g[r])
         /\ /\ Rising(m)
            /\ \A j \in 1 .. Len(m) : j < r[1] => m[j].text < name
            /\ \A j \in 1 .. Len(m) : r[1] + r[2] <= j => name <= m[j].text
            => Parts(m, name, g[r])
<1>. DEFINE Around(q) ==
       /\ Rising(m)
       /\ \A j \in 1 .. Len(m) : j < q[1] => m[j].text < name
       /\ \A j \in 1 .. Len(m) : q[1] + q[2] <= j => name <= m[j].text
     Good(q) == InMap(m, g[q]) /\ (Around(q) => Parts(m, name, g[q]))
     Bad == {n \in Nat : \E q \in Ranges(m) : q[2] = n /\ ~ Good(q)}
<1>1. Len(m) \in Nat /\ \A j \in 1 .. Len(m) : m[j].text \in Int
  <2>1. Len(m) \in Nat /\ \A j \in 1 .. Len(m) : m[j] \in MapCmds
    BY LenProperties, ElementOfSeq
  <2>. QED  BY <2>1, CommandsAssumption DEF MapCmds
<1>2. name \in Int
  BY CommandsAssumption
<1>3. SUFFICES Bad = {}
  <2>1. r[2] \in Nat
    BY <1>1 DEF Ranges
  <2>2. Good(r)
    BY <1>3, <2>1
  <2>. QED  BY <2>2
<1>4. SUFFICES ASSUME Bad # {} PROVE FALSE
  OBVIOUS
<1>5. Bad \subseteq Nat
  OBVIOUS
<1>6. PICK n \in Bad : \A i \in Bad : n <= i
  BY <1>4, <1>5, LeastNatural
<1>7. PICK q \in Ranges(m) : q[2] = n /\ ~ Good(q)
  OBVIOUS
<1>8. /\ n \in Nat
      /\ \A s \in Ranges(m) : s[2] < n /\ s[2] \in Nat => Good(s)
  BY <1>5, <1>6
<1>9. g[q] = IF q[2] = 0 THEN q[1]
             ELSE IF Below(m, name, q) THEN g[Upper2(q)] ELSE g[Lower2(q)]
  BY Zenon DEF Searches
<1>10. q[1] \in 1 .. Len(m) + 1 /\ q[2] \in Nat /\ q[1] + q[2] <= Len(m) + 1
  BY <1>1 DEF Ranges
<1>11. CASE n = 0
  <2>1. g[q] = q[1]
    BY <1>7, <1>9, <1>11
  <2>2. InMap(m, g[q])
    BY <1>10, <2>1 DEF InMap
  <2>3. Around(q) => Parts(m, name, g[q])
    BY <1>7, <1>10, <1>11, <2>1 DEF Parts
  <2>. QED  BY <1>7, <2>2, <2>3
<1>12. CASE n # 0
  <2>. DEFINE half == q[2] \div 2
  <2>1. /\ Upper2(q) \in Ranges(m) /\ Lower2(q) \in Ranges(m)
        /\ Upper2(q)[2] \in 0 .. n - 1 /\ Lower2(q)[2] \in 0 .. n - 1
        /\ half \in 0 .. n - 1
    BY <1>1, <1>7, <1>12, HalvesAre
  <2>2. /\ Upper2(q)[1] = q[1] + half + 1
        /\ Upper2(q)[2] = q[2] - half - 1
        /\ Lower2(q)[1] = q[1] /\ Lower2(q)[2] = half
        /\ Below(m, name, q) <=> m[q[1] + half].text < name
    BY DEF Upper2, Lower2, Below
  <2>. HIDE DEF half
  <2>3. q[1] + half \in 1 .. Len(m)
    BY <1>7, <1>10, <2>1
  <2>4. Good(Upper2(q)) /\ Good(Lower2(q))
    BY <1>8, <2>1
  <2>5. CASE Below(m, name, q)
    <3>1. g[q] = g[Upper2(q)]
      BY <1>7, <1>9, <1>12, <2>5
    <3>2. Around(q) => Around(Upper2(q))
      <4>1. SUFFICES ASSUME Around(q) PROVE Around(Upper2(q))
        OBVIOUS
      <4>2. m[q[1] + half].text < name
        BY <2>2, <2>5
      <4>3. ASSUME NEW j \in 1 .. Len(m), j < Upper2(q)[1]
            PROVE  m[j].text < name
        <5>1. j <= q[1] + half
          BY <1>10, <2>1, <2>2, <4>3
        <5>2. CASE j = q[1] + half
          BY <4>2, <5>2
        <5>3. CASE j < q[1] + half
          <6>1. m[j].text <= m[q[1] + half].text
            BY <2>3, <4>1, <5>3 DEF Rising
          <6>. QED  BY <1>1, <1>2, <2>3, <4>2, <6>1
        <5>4. j \in Int /\ q[1] + half \in Int
          BY <1>1, <2>3
        <5>. QED  BY <5>1, <5>2, <5>3, <5>4
      <4>4. ASSUME NEW j \in 1 .. Len(m),
                   Upper2(q)[1] + Upper2(q)[2] <= j
            PROVE  name <= m[j].text
        <5>1. Upper2(q)[1] + Upper2(q)[2] = q[1] + q[2]
          BY <1>10, <2>1, <2>2
        <5>. QED  BY <4>1, <4>4, <5>1
      <4>. QED  BY <4>1, <4>3, <4>4
    <3>. QED  BY <1>7, <2>4, <3>1, <3>2
  <2>6. CASE ~ Below(m, name, q)
    <3>1. g[q] = g[Lower2(q)]
      BY <1>7, <1>9, <1>12, <2>6
    <3>2. Around(q) => Around(Lower2(q))
      <4>1. SUFFICES ASSUME Around(q) PROVE Around(Lower2(q))
        OBVIOUS
      <4>2. name <= m[q[1] + half].text
        BY <1>1, <1>2, <2>2, <2>3, <2>6
      <4>3. ASSUME NEW j \in 1 .. Len(m), j < Lower2(q)[1]
            PROVE  m[j].text < name
        BY <2>2, <4>1, <4>3
      <4>4. ASSUME NEW j \in 1 .. Len(m),
                   Lower2(q)[1] + Lower2(q)[2] <= j
            PROVE  name <= m[j].text
        <5>1. q[1] + half <= j
          BY <2>2, <4>4
        <5>2. CASE j = q[1] + half
          BY <4>2, <5>2
        <5>3. CASE q[1] + half < j
          <6>1. m[q[1] + half].text <= m[j].text
            BY <2>3, <4>1, <5>3 DEF Rising
          <6>. QED  BY <1>1, <1>2, <2>3, <4>2, <6>1
        <5>4. j \in Int /\ q[1] + half \in Int
          BY <1>1, <2>3
        <5>. QED  BY <5>1, <5>2, <5>3, <5>4
      <4>. QED  BY <4>1, <4>3, <4>4
    <3>. QED  BY <1>7, <2>4, <3>1, <3>2
  <2>. QED  BY <2>5, <2>6
<1>. QED  BY <1>11, <1>12

\* lower_bound points into the map or behind it, and parts a map in order.
LEMMA LowerBoundIs ==
  ASSUME NEW m \in Seq(MapCmds), NEW name \in CmdNames
  PROVE  /\ InMap(m, LowerBound(m, name))
         /\ Rising(m) => Parts(m, name, LowerBound(m, name))
<1>. DEFINE g == CHOOSE f : Searches(f, m, name, Ranges(m))
            all == <<1, Len(m)>>
<1>1. Len(m) \in Nat
  BY LenProperties
<1>2. Searches(g, m, name, Ranges(m))
  <2>1. \E f : Searches(f, m, name, Ranges(m))
    BY <1>1, SearchEnds
  <2>. QED  BY <2>1, Zenon
<1>3. LowerBound(m, name) = g[all]
  BY DEF LowerBound, Searches, Ranges, Below, Upper2, Lower2
<1>4. all \in Ranges(m)
  BY <1>1 DEF Ranges
<1>. HIDE DEF g, all
<1>5. /\ InMap(m, g[all])
      /\ /\ Rising(m)
         /\ \A j \in 1 .. Len(m) : j < all[1] => m[j].text < name
         /\ \A j \in 1 .. Len(m) : all[1] + all[2] <= j => name <= m[j].text
         => Parts(m, name, g[all])
  BY <1>2, <1>4, SearchFinds
<1>6. all[1] = 1 /\ all[2] = Len(m)
  BY DEF all
<1>. QED  BY <1>1, <1>3, <1>5, <1>6

-----------------------------------------------------------------------------
(* The map. *)

FirstOf(m, name) == SelectInSeq(m, LAMBDA c : c.text = name)

\* std::ranges::find gives the first of a name, if there is one.
LEMMA FirstIs ==
  ASSUME NEW m \in Seq(MapCmds), NEW name
  PROVE  /\ name \notin TextsOf(m) => FirstOf(m, name) = 0
         /\ name \in TextsOf(m)
            => /\ FirstOf(m, name) \in 1 .. Len(m)
               /\ m[FirstOf(m, name)].text = name
               /\ \A j \in 1 .. Len(m) :
                    j < FirstOf(m, name) => m[j].text # name
<1>. DEFINE Those == {i \in 1 .. Len(m) : m[i].text = name}
<1>1. Len(m) \in Nat /\ DOMAIN m = 1 .. Len(m)
  BY LenProperties
<1>2. FirstOf(m, name) = IF Those # {} THEN Min(Those) ELSE 0
  BY DEF FirstOf, SelectInSeq
<1>3. name \in TextsOf(m) <=> Those # {}
  BY <1>1 DEF TextsOf
<1>4. ASSUME Those # {}
      PROVE  Min(Those) \in Those /\ \A j \in Those : Min(Those) <= j
  <2>1. Those \subseteq Nat
    BY <1>1
  <2>2. \E i \in Those : \A j \in Those : i <= j
    BY <1>4, <2>1, LeastNatural
  <2>. HIDE DEF Those
  <2>. QED  BY <2>2 DEF Min
<1>5. ASSUME NEW j \in 1 .. Len(m), Those # {}, j < Min(Those)
      PROVE  m[j].text # name
  <2>1. SUFFICES ASSUME m[j].text = name PROVE FALSE
    OBVIOUS
  <2>2. j \in Those
    BY <2>1
  <2>3. Min(Those) <= j /\ Min(Those) \in Nat /\ j \in Nat
    BY <1>1, <1>4, <1>5, <2>2
  <2>. HIDE DEF Those
  <2>. QED  BY <1>5, <2>3
<1>. QED  BY <1>2, <1>3, <1>4, <1>5

\* new is m with the command put in at the place p.
IsPutIn(new, m, p, cmd) ==
  /\ new \in Seq(MapCmds)
  /\ Len(new) = Len(m) + 1
  /\ \A i \in 1 .. Len(m) + 1 :
       new[i] = IF i < p THEN m[i] ELSE IF i = p THEN cmd ELSE m[i - 1]

LEMMA InsertIs ==
  ASSUME NEW m \in Seq(MapCmds), NEW p \in 1 .. Len(m) + 1, NEW cmd \in MapCmds
  PROVE  IsPutIn(InsertAt(m, p, cmd), m, p, cmd)
<1>. DEFINE a == SubSeq(m, 1, p - 1)
            b == SubSeq(m, p, Len(m))
            c == <<cmd>>
<1>1. Len(m) \in Nat /\ p \in Int /\ \A i \in 1 .. Len(m) : m[i] \in MapCmds
  BY LenProperties, ElementOfSeq
<1>2. /\ a \in Seq(MapCmds) /\ Len(a) = p - 1
      /\ \A i \in 1 .. p - 1 : a[i] = m[i]
  <2>1. \A i \in 1 .. p - 1 : m[i] \in MapCmds
    BY <1>1
  <2>2. /\ SubSeq(m, 1, p - 1) \in Seq(MapCmds)
        /\ Len(SubSeq(m, 1, p - 1)) = IF 1 <= p - 1 THEN p - 1 - 1 + 1 ELSE 0
        /\ \A i \in 1 .. p - 1 - 1 + 1 :
             SubSeq(m, 1, p - 1)[i] = m[1 + i - 1]
    BY <1>1, <2>1, SubSeqProperties
  <2>. QED  BY <1>1, <2>2
<1>3. /\ b \in Seq(MapCmds) /\ Len(b) = Len(m) - p + 1
      /\ \A i \in 1 .. Len(m) - p + 1 : b[i] = m[p + i - 1]
  <2>1. \A i \in p .. Len(m) : m[i] \in MapCmds
    BY <1>1
  <2>2. /\ SubSeq(m, p, Len(m)) \in Seq(MapCmds)
        /\ Len(SubSeq(m, p, Len(m)))
             = IF p <= Len(m) THEN Len(m) - p + 1 ELSE 0
        /\ \A i \in 1 .. Len(m) - p + 1 :
             SubSeq(m, p, Len(m))[i] = m[p + i - 1]
    BY <1>1, <2>1, SubSeqProperties
  <2>. QED  BY <1>1, <2>2
<1>4. c \in Seq(MapCmds) /\ Len(c) = 1 /\ c[1] = cmd
  OBVIOUS
<1>5. InsertAt(m, p, cmd) = (a \o c) \o b
  BY DEF InsertAt
<1>. HIDE DEF a, b, c
<1>6. /\ a \o c \in Seq(MapCmds) /\ Len(a \o c) = p
      /\ \A i \in 1 .. p : (a \o c)[i] = IF i < p THEN m[i] ELSE cmd
  <2>1. /\ a \o c \in Seq(MapCmds) /\ Len(a \o c) = Len(a) + Len(c)
        /\ \A i \in 1 .. Len(a) + Len(c) :
             (a \o c)[i] = IF i <= Len(a) THEN a[i] ELSE c[i - Len(a)]
    BY <1>2, <1>4, ConcatProperties
  <2>2. ASSUME NEW i \in 1 .. p
        PROVE  (a \o c)[i] = IF i < p THEN m[i] ELSE cmd
    <3>1. CASE i < p
      BY <1>1, <1>2, <1>4, <2>1, <3>1
    <3>2. CASE i = p
      BY <1>1, <1>2, <1>4, <2>1, <3>2
    <3>3. i < p \/ i = p
      BY <1>1
    <3>. QED  BY <3>1, <3>2, <3>3, Zenon
  <2>. QED  BY <1>1, <1>2, <1>4, <2>1, <2>2
<1>. DEFINE ac == a \o c
<1>. HIDE DEF ac
<1>7. /\ ac \in Seq(MapCmds) /\ Len(ac) = p
      /\ \A i \in 1 .. p : ac[i] = IF i < p THEN m[i] ELSE cmd
  BY <1>6 DEF ac
<1>8. /\ ac \o b \in Seq(MapCmds) /\ Len(ac \o b) = Len(ac) + Len(b)
      /\ \A i \in 1 .. Len(ac) + Len(b) :
           (ac \o b)[i] = IF i <= Len(ac) THEN ac[i] ELSE b[i - Len(ac)]
  BY <1>3, <1>7, ConcatProperties
<1>9. ASSUME NEW i \in 1 .. Len(m) + 1
      PROVE  (ac \o b)[i] = IF i < p THEN m[i]
                            ELSE IF i = p THEN cmd ELSE m[i - 1]
  <2>1. CASE i <= p
    <3>1. (ac \o b)[i] = ac[i]
      BY <1>1, <1>3, <1>7, <1>8, <2>1
    <3>. QED  BY <1>1, <1>7, <2>1, <3>1
  <2>2. CASE i > p
    <3>1. (ac \o b)[i] = b[i - p]
      BY <1>1, <1>3, <1>7, <1>8, <2>2
    <3>2. i - p \in 1 .. Len(m) - p + 1 /\ p + (i - p) - 1 = i - 1
      BY <1>1, <2>2
    <3>3. b[i - p] = m[i - 1]
      BY <1>3, <3>2
    <3>. QED  BY <1>1, <2>2, <3>1, <3>3
  <2>3. i <= p \/ i > p
    BY <1>1
  <2>. QED  BY <2>1, <2>2, <2>3, Zenon
<1>10. InsertAt(m, p, cmd) = ac \o b
  BY <1>5 DEF ac
<1>11. Len(ac \o b) = Len(m) + 1
  BY <1>1, <1>3, <1>7, <1>8
<1>. QED  BY <1>8, <1>9, <1>10, <1>11 DEF IsPutIn

\* A map without its command at the place p.
LEMMA RemoveIs ==
  ASSUME NEW m \in Seq(MapCmds), NEW p \in 1 .. Len(m)
  PROVE  /\ RemoveAt(m, p) \in Seq(MapCmds)
         /\ Len(RemoveAt(m, p)) = Len(m) - 1
         /\ \A i \in 1 .. Len(m) - 1 :
              RemoveAt(m, p)[i] = IF i < p THEN m[i] ELSE m[i + 1]
<1>. DEFINE a == SubSeq(m, 1, p - 1)
            b == SubSeq(m, p + 1, Len(m))
<1>1. Len(m) \in Nat /\ p \in Int /\ \A i \in 1 .. Len(m) : m[i] \in MapCmds
  BY LenProperties, ElementOfSeq
<1>2. /\ a \in Seq(MapCmds) /\ Len(a) = p - 1
      /\ \A i \in 1 .. p - 1 : a[i] = m[i]
  <2>1. \A i \in 1 .. p - 1 : m[i] \in MapCmds
    BY <1>1
  <2>2. /\ SubSeq(m, 1, p - 1) \in Seq(MapCmds)
        /\ Len(SubSeq(m, 1, p - 1)) = IF 1 <= p - 1 THEN p - 1 - 1 + 1 ELSE 0
        /\ \A i \in 1 .. p - 1 - 1 + 1 :
             SubSeq(m, 1, p - 1)[i] = m[1 + i - 1]
    BY <1>1, <2>1, SubSeqProperties
  <2>. QED  BY <1>1, <2>2
<1>3. /\ b \in Seq(MapCmds) /\ Len(b) = Len(m) - p
      /\ \A i \in 1 .. Len(m) - p : b[i] = m[p + i]
  <2>1. \A i \in p + 1 .. Len(m) : m[i] \in MapCmds
    BY <1>1
  <2>2. /\ SubSeq(m, p + 1, Len(m)) \in Seq(MapCmds)
        /\ Len(SubSeq(m, p + 1, Len(m)))
             = IF p + 1 <= Len(m) THEN Len(m) - (p + 1) + 1 ELSE 0
        /\ \A i \in 1 .. Len(m) - (p + 1) + 1 :
             SubSeq(m, p + 1, Len(m))[i] = m[p + 1 + i - 1]
    BY <1>1, <2>1, SubSeqProperties
  <2>. QED  BY <1>1, <2>2
<1>5. RemoveAt(m, p) = a \o b
  BY DEF RemoveAt
<1>. HIDE DEF a, b
<1>8. /\ a \o b \in Seq(MapCmds) /\ Len(a \o b) = Len(a) + Len(b)
      /\ \A i \in 1 .. Len(a) + Len(b) :
           (a \o b)[i] = IF i <= Len(a) THEN a[i] ELSE b[i - Len(a)]
  BY <1>2, <1>3, ConcatProperties
<1>9. ASSUME NEW i \in 1 .. Len(m) - 1
      PROVE  (a \o b)[i] = IF i < p THEN m[i] ELSE m[i + 1]
  <2>1. CASE i < p
    <3>1. (a \o b)[i] = a[i]
      BY <1>1, <1>2, <1>3, <1>8, <2>1
    <3>. QED  BY <1>1, <1>2, <2>1, <3>1
  <2>2. CASE i >= p
    <3>1. (a \o b)[i] = b[i - (p - 1)]
      BY <1>1, <1>2, <1>3, <1>8, <2>2
    <3>2. i - (p - 1) \in 1 .. Len(m) - p /\ p + (i - (p - 1)) = i + 1
      BY <1>1, <2>2
    <3>3. b[i - (p - 1)] = m[i + 1]
      BY <1>3, <3>2
    <3>. QED  BY <1>1, <2>2, <3>1, <3>3
  <2>3. i < p \/ i >= p
    BY <1>1
  <2>. QED  BY <2>1, <2>2, <2>3, Zenon
<1>11. Len(a \o b) = Len(m) - 1
  BY <1>1, <1>2, <1>3, <1>8
<1>. QED  BY <1>5, <1>8, <1>9, <1>11

-----------------------------------------------------------------------------
(* The steps. *)

\* There is no map yet.
LEMMA CommandsInit == MInit => CommandsInv
<1>1. <<>> \in Seq(MapCmds) /\ Len(<<>>) = 0
  BY EmptySeq
<1>2. -1 \in -1 .. MaxCmds
  BY CommandsAssumption
<1>. QED  BY <1>1, <1>2 DEF MInit, CommandsInv, Rising, Latest

\* Bound commands are put in order; none of them was pushed.
LEMMA BindKeepsOrder == CommandsInv /\ Bind => CommandsInv'
<1>. SUFFICES ASSUME CommandsInv, Bind PROVE CommandsInv'
  OBVIOUS
<1>1. PICK n \in 0 .. MaxCmds - 1 :
        \E texts \in [1 .. n -> CmdNames \ {Man}], man \in BOOLEAN :
          cmdMap' \in Prepared([k \in 1 .. n |-> [text |-> texts[k], id |-> -k]],
                               man)
  BY DEF Bind
<1>2. PICK texts \in [1 .. n -> CmdNames \ {Man}], man \in BOOLEAN :
        cmdMap' \in Prepared([k \in 1 .. n |-> [text |-> texts[k], id |-> -k]],
                             man)
  BY <1>1
<1>. DEFINE given == [k \in 1 .. n |-> [text |-> texts[k], id |-> -k]]
            self  == [text |-> Man, id |-> -(Len(given) + 1)]
            full  == IF man THEN Inserted(given, self) ELSE given
<1>3. n \in Nat
  OBVIOUS
<1>4. /\ given \in Seq(MapCmds) /\ Len(given) = n
      /\ \A k \in 1 .. n : given[k].id < 0
  <2>1. \A k \in 1 .. n : [text |-> texts[k], id |-> -k] \in MapCmds
    BY <1>3 DEF MapCmds
  <2>2. given \in Seq(MapCmds)
    BY <1>3, <2>1, IsASeq
  <2>3. Len(given) = n
    BY <1>3
  <2>. QED  BY <1>3, <2>2, <2>3
<1>5. self \in MapCmds /\ self.id < 0 /\ self.text = Man
  BY <1>3, <1>4, CommandsAssumption DEF MapCmds
<1>6. cmdMap' \in Ordered(full)
  BY <1>2 DEF Prepared
<1>. HIDE DEF given, self
<1>7. full \in Seq(MapCmds) /\ \A k \in 1 .. Len(full) : full[k].id < 0
  <2>1. CASE ~ man
    BY <1>4, <2>1
  <2>2. CASE man
    <3>. DEFINE p == LowerBound(given, self.text)
    <3>1. p \in 1 .. Len(given) + 1
      BY <1>4, <1>5, CommandsAssumption, LowerBoundIs DEF InMap
    <3>2. full = InsertAt(given, p, self)
      BY <2>2 DEF Inserted
    <3>. HIDE DEF p, full
    <3>3. /\ full \in Seq(MapCmds) /\ Len(full) = n + 1
          /\ \A i \in 1 .. n + 1 :
               full[i] = IF i < p THEN given[i]
                         ELSE IF i = p THEN self ELSE given[i - 1]
      <4>1. /\ given \in Seq(MapCmds) /\ self \in MapCmds
            /\ p \in 1 .. Len(given) + 1
        BY <1>4, <1>5, <3>1
      <4>2. /\ full \in Seq(MapCmds) /\ Len(full) = Len(given) + 1
            /\ \A i \in 1 .. Len(given) + 1 :
                 full[i] = IF i < p THEN given[i]
                           ELSE IF i = p THEN self ELSE given[i - 1]
        <5>1. IsPutIn(full, given, p, self)
          BY <3>2, <4>1, InsertIs
        <5>. QED  BY <5>1, Zenon DEF IsPutIn
      <4>. QED  BY <1>4, <4>2
    <3>4. ASSUME NEW i \in 1 .. n + 1 PROVE full[i].id < 0
      <4>1. p \in 1 .. n + 1
        BY <1>4, <3>1
      <4>2. CASE i < p
        BY <1>3, <1>4, <3>3, <4>1, <4>2
      <4>3. CASE i = p
        BY <1>5, <3>3, <4>1, <4>3
      <4>4. CASE i > p
        <5>1. i - 1 \in 1 .. n /\ full[i] = given[i - 1]
          BY <1>3, <3>3, <4>1, <4>4
        <5>. QED  BY <1>4, <5>1
      <4>. QED  BY <1>3, <4>1, <4>2, <4>3, <4>4
    <3>. QED  BY <1>3, <3>3, <3>4
  <2>. QED  BY <2>1, <2>2
<1>. HIDE DEF full
<1>8. PICK q \in [DOMAIN full -> DOMAIN full] :
        cmdMap' = [k \in DOMAIN full |-> full[q[k]]]
  BY <1>6 DEF Ordered
<1>9. Len(full) \in Nat /\ DOMAIN full = 1 .. Len(full)
  BY <1>7, LenProperties
<1>10. \A k \in 1 .. Len(full) : /\ cmdMap'[k] \in MapCmds /\ cmdMap'[k].id < 0
                                 /\ cmdMap'[k] = full[q[k]]
  <2>1. \A k \in 1 .. Len(full) : q[k] \in 1 .. Len(full)
    BY <1>9
  <2>2. \A k \in 1 .. Len(full) : full[k] \in MapCmds
    BY <1>7, ElementOfSeq
  <2>. QED  BY <1>7, <1>8, <1>9, <2>1, <2>2
<1>11. cmdMap' \in Seq(MapCmds) /\ Len(cmdMap') = Len(full)
  <2>1. \A k \in 1 .. Len(full) : full[q[k]] \in MapCmds
    BY <1>10
  <2>2. [k \in 1 .. Len(full) |-> full[q[k]]] \in Seq(MapCmds)
    BY <1>9, <2>1, IsASeq
  <2>. QED  BY <1>8, <1>9, <2>2
<1>12. Rising(cmdMap')
  <2>1. \A j, k \in DOMAIN full : j < k => cmdMap'[j].text <= cmdMap'[k].text
    BY <1>6 DEF Ordered
  <2>. QED  BY <1>9, <1>11, <2>1 DEF Rising
<1>13. /\ born' = 0 /\ 0 \in -1 .. MaxCmds
       /\ \A k \in 1 .. Len(cmdMap') : cmdMap'[k].id # 0 /\ cmdMap'[k].id <= 0
  <2>1. ASSUME NEW k \in 1 .. Len(cmdMap')
        PROVE  cmdMap'[k].id # 0 /\ cmdMap'[k].id <= 0
    <3>1. cmdMap'[k].id < 0 /\ cmdMap'[k].id \in Int
      BY <1>10, <1>11 DEF MapCmds
    <3>. QED  BY <3>1
  <2>. QED  BY <2>1, CommandsAssumption DEF Bind
<1>14. Latest(cmdMap')
  <2>1. ASSUME NEW k \in 1 .. Len(cmdMap') PROVE ~ (cmdMap'[k].id > 0)
    <3>1. cmdMap'[k].id < 0 /\ cmdMap'[k].id \in Int
      BY <1>10, <1>11 DEF MapCmds
    <3>. QED  BY <3>1
  <2>. QED  BY <2>1 DEF Latest
<1>. QED  BY <1>11, <1>12, <1>13, <1>14 DEF CommandsInv

\* A pushed command goes before those of its name.
LEMMA PushKeepsOrder == CommandsInv /\ PushCmd => CommandsInv'
<1>. SUFFICES ASSUME CommandsInv, PushCmd PROVE CommandsInv'
  OBVIOUS
<1>1. PICK name \in CmdNames :
        cmdMap' = Inserted(cmdMap, [text |-> name, id |-> born + 1])
  BY DEF PushCmd
<1>2. born \in 0 .. MaxCmds - 1 /\ born' = born + 1 /\ MaxCmds \in Nat
  BY CommandsAssumption DEF PushCmd
<1>. DEFINE cmd == [text |-> name, id |-> born + 1]
            p == LowerBound(cmdMap, name)
            n == Len(cmdMap)
<1>3. cmd \in MapCmds /\ cmd.text = name /\ cmd.id = born + 1
  BY <1>2 DEF MapCmds
<1>4. /\ cmdMap \in Seq(MapCmds) /\ Rising(cmdMap) /\ Latest(cmdMap)
      /\ \A k \in 1 .. n : cmdMap[k].id # 0 /\ cmdMap[k].id <= born
  BY DEF CommandsInv
<1>5. /\ n \in Nat
      /\ \A k \in 1 .. n : cmdMap[k].text \in Int /\ cmdMap[k].id \in Int
  <2>1. n \in Nat /\ \A k \in 1 .. n : cmdMap[k] \in MapCmds
    BY <1>4, LenProperties, ElementOfSeq
  <2>. QED  BY <2>1, CommandsAssumption DEF MapCmds
<1>6. p \in 1 .. n + 1 /\ Parts(cmdMap, name, p)
  BY <1>4, LowerBoundIs DEF InMap
<1>7. cmdMap' = InsertAt(cmdMap, p, cmd)
  BY <1>1, <1>3 DEF Inserted
<1>8. name \in Int
  BY CommandsAssumption
<1>. HIDE DEF cmd, p
<1>9. /\ cmdMap' \in Seq(MapCmds) /\ Len(cmdMap') = n + 1
      /\ \A i \in 1 .. n + 1 :
           cmdMap'[i] = IF i < p THEN cmdMap[i]
                        ELSE IF i = p THEN cmd ELSE cmdMap[i - 1]
  <2>1. IsPutIn(cmdMap', cmdMap, p, cmd)
    BY <1>3, <1>4, <1>6, <1>7, InsertIs
  <2>. QED  BY <2>1, Zenon DEF IsPutIn
<1>. HIDE DEF n
<1>. DEFINE old(i) == IF i < p THEN i ELSE i - 1
<1>10. ASSUME NEW i \in 1 .. n + 1, i # p
       PROVE  /\ old(i) \in 1 .. n /\ cmdMap'[i] = cmdMap[old(i)]
              /\ old(i) < p <=> i < p
  BY <1>5, <1>6, <1>9, <1>10
<1>11. p \in 1 .. n + 1 /\ cmdMap'[p] = cmd
  BY <1>5, <1>6, <1>9
<1>12. ASSUME NEW i \in 1 .. n + 1, NEW j \in 1 .. n + 1, i # p, j # p, i < j
       PROVE  old(i) < old(j)
  BY <1>5, <1>6, <1>12
<1>13. \A j \in 1 .. n : /\ j < p => cmdMap[j].text < name
                         /\ ~ (j < p) => name <= cmdMap[j].text
  BY <1>5, <1>6 DEF Parts, n
<1>. HIDE DEF old
<1>14. Rising(cmdMap')
  <2>1. SUFFICES ASSUME NEW i \in 1 .. n + 1, NEW j \in 1 .. n + 1, i < j
                 PROVE  cmdMap'[i].text <= cmdMap'[j].text
    BY <1>9 DEF Rising
  <2>2. i \in Int /\ j \in Int /\ p \in Int
    BY <1>5, <1>6
  <2>3. CASE i # p /\ j # p
    <3>1. old(i) \in 1 .. n /\ old(j) \in 1 .. n /\ old(i) < old(j)
      BY <1>10, <1>12, <2>1, <2>3
    <3>2. cmdMap[old(i)].text <= cmdMap[old(j)].text
      BY <1>4, <3>1 DEF Rising, n
    <3>. QED  BY <1>10, <2>3, <3>2
  <2>4. CASE i = p
    <3>1. j # p /\ ~ (j < p)
      BY <2>1, <2>2, <2>4
    <3>2. old(j) \in 1 .. n /\ cmdMap'[j] = cmdMap[old(j)] /\ ~ (old(j) < p)
      BY <1>10, <3>1
    <3>. QED  BY <1>3, <1>11, <1>13, <2>4, <3>2
  <2>5. CASE j = p
    <3>1. i # p /\ i < p
      BY <2>1, <2>2, <2>5
    <3>2. old(i) \in 1 .. n /\ cmdMap'[i] = cmdMap[old(i)] /\ old(i) < p
      BY <1>10, <3>1
    <3>3. cmdMap[old(i)].text < name /\ cmdMap[old(i)].text \in Int
      BY <1>5, <1>13, <3>2
    <3>. QED  BY <1>3, <1>8, <1>11, <2>5, <3>2, <3>3
  <2>. QED  BY <2>3, <2>4, <2>5
<1>15. Latest(cmdMap')
  <2>1. SUFFICES ASSUME NEW i \in 1 .. n + 1, NEW j \in 1 .. n + 1, i < j,
                        cmdMap'[i].text = cmdMap'[j].text,
                        cmdMap'[i].id > 0 \/ cmdMap'[j].id > 0
                 PROVE  cmdMap'[i].id > cmdMap'[j].id
    BY <1>9 DEF Latest
  <2>2. i \in Int /\ j \in Int /\ p \in Int
    BY <1>5, <1>6
  <2>3. CASE i # p /\ j # p
    <3>1. old(i) \in 1 .. n /\ old(j) \in 1 .. n /\ old(i) < old(j)
      BY <1>10, <1>12, <2>1, <2>3
    <3>2. cmdMap'[i] = cmdMap[old(i)] /\ cmdMap'[j] = cmdMap[old(j)]
      BY <1>10, <2>3
    <3>3. cmdMap[old(i)].id > cmdMap[old(j)].id
      BY <1>4, <2>1, <3>1, <3>2 DEF Latest, n
    <3>. QED  BY <3>2, <3>3
  <2>4. CASE i = p
    <3>1. j # p
      BY <2>1, <2>2, <2>4
    <3>2. old(j) \in 1 .. n /\ cmdMap'[j] = cmdMap[old(j)]
      BY <1>10, <3>1
    <3>3. cmdMap[old(j)].id <= born /\ cmdMap[old(j)].id \in Int
      BY <1>4, <1>5, <3>2
    <3>. QED  BY <1>2, <1>3, <1>11, <2>4, <3>2, <3>3
  <2>5. CASE j = p
    <3>1. i # p /\ i < p
      BY <2>1, <2>2, <2>5
    <3>2. old(i) \in 1 .. n /\ cmdMap'[i] = cmdMap[old(i)] /\ old(i) < p
      BY <1>10, <3>1
    <3>3. cmdMap[old(i)].text < name /\ cmdMap[old(i)].text \in Int
      BY <1>5, <1>13, <3>2
    <3>4. cmdMap[old(i)].text = name
      BY <1>3, <1>11, <2>1, <2>5, <3>2
    <3>. QED  BY <1>8, <3>3, <3>4
  <2>. QED  BY <2>3, <2>4, <2>5
<1>16. ASSUME NEW i \in 1 .. n + 1
       PROVE  cmdMap'[i].id # 0 /\ cmdMap'[i].id <= born + 1
  <2>1. CASE i = p
    BY <1>2, <1>3, <1>11, <2>1
  <2>2. CASE i # p
    <3>1. old(i) \in 1 .. n /\ cmdMap'[i] = cmdMap[old(i)]
      BY <1>10, <2>2
    <3>2. /\ cmdMap[old(i)].id # 0 /\ cmdMap[old(i)].id <= born
          /\ cmdMap[old(i)].id \in Int
      BY <1>4, <1>5, <3>1 DEF n
    <3>. QED  BY <1>2, <3>1, <3>2
  <2>. QED  BY <2>1, <2>2
<1>17. born' \in -1 .. MaxCmds /\ born' # -1
  BY <1>2
<1>. QED  BY <1>2, <1>9, <1>14, <1>15, <1>16, <1>17 DEF CommandsInv

\* What is left after a pop is in the order it was in.
LEMMA PopKeepsOrder == CommandsInv /\ PopCmd => CommandsInv'
<1>. SUFFICES ASSUME CommandsInv, PopCmd PROVE CommandsInv'
  OBVIOUS
<1>1. PICK name \in TextsOf(cmdMap) :
        cmdMap' = RemoveAt(cmdMap, FirstOf(cmdMap, name))
  BY DEF PopCmd, FirstOf
<1>. DEFINE p == FirstOf(cmdMap, name)
            n == Len(cmdMap)
            old(i) == IF i < p THEN i ELSE i + 1
<1>2. /\ cmdMap \in Seq(MapCmds) /\ Rising(cmdMap) /\ Latest(cmdMap)
      /\ \A k \in 1 .. n : cmdMap[k].id # 0 /\ cmdMap[k].id <= born
      /\ born \in -1 .. MaxCmds
      /\ born = -1 => cmdMap = <<>>
      /\ born' = born
  BY DEF CommandsInv, PopCmd
<1>3. n \in Nat
  BY <1>2, LenProperties
<1>4. p \in 1 .. n
  BY <1>2, FirstIs
<1>. HIDE DEF p
<1>5. /\ cmdMap' \in Seq(MapCmds) /\ Len(cmdMap') = n - 1
      /\ \A i \in 1 .. n - 1 :
           cmdMap'[i] = IF i < p THEN cmdMap[i] ELSE cmdMap[i + 1]
  BY <1>1, <1>2, <1>4, RemoveIs DEF p
<1>6. ASSUME NEW i \in 1 .. n - 1
      PROVE  old(i) \in 1 .. n /\ cmdMap'[i] = cmdMap[old(i)]
  <2>. HIDE DEF n
  <2>. QED  BY <1>3, <1>4, <1>5
<1>7. ASSUME NEW i \in 1 .. n - 1, NEW j \in 1 .. n - 1, i < j
      PROVE  old(i) < old(j)
  <2>. HIDE DEF n
  <2>. QED  BY <1>3, <1>4, <1>7
<1>. HIDE DEF old
<1>8. Rising(cmdMap')
  <2>1. SUFFICES ASSUME NEW i \in 1 .. n - 1, NEW j \in 1 .. n - 1, i < j
                 PROVE  cmdMap'[i].text <= cmdMap'[j].text
    BY <1>5 DEF Rising
  <2>2. cmdMap[old(i)].text <= cmdMap[old(j)].text
    BY <1>2, <1>6, <1>7, <2>1 DEF Rising
  <2>. QED  BY <1>6, <2>2
<1>9. Latest(cmdMap')
  <2>1. SUFFICES ASSUME NEW i \in 1 .. n - 1, NEW j \in 1 .. n - 1, i < j,
                        cmdMap'[i].text = cmdMap'[j].text,
                        cmdMap'[i].id > 0 \/ cmdMap'[j].id > 0
                 PROVE  cmdMap'[i].id > cmdMap'[j].id
    BY <1>5 DEF Latest
  <2>2. /\ cmdMap'[i] = cmdMap[old(i)] /\ cmdMap'[j] = cmdMap[old(j)]
        /\ old(i) \in 1 .. n /\ old(j) \in 1 .. n /\ old(i) < old(j)
    BY <1>6, <1>7, <2>1
  <2>3. cmdMap[old(i)].id > cmdMap[old(j)].id
    BY <1>2, <2>1, <2>2 DEF Latest
  <2>. QED  BY <2>2, <2>3
<1>10. \A i \in 1 .. n - 1 : cmdMap'[i].id # 0 /\ cmdMap'[i].id <= born'
  BY <1>2, <1>6
<1>11. born' # -1
  <2>1. SUFFICES ASSUME cmdMap = <<>> PROVE FALSE
    BY <1>2
  <2>2. n = 0
    BY <2>1
  <2>. QED  BY <1>4, <2>2
<1>. QED  BY <1>2, <1>5, <1>8, <1>9, <1>10, <1>11 DEF CommandsInv

LEMMA CommandsStep == CommandsInv /\ [MNext]_mvars => CommandsInv'
<1>. SUFFICES ASSUME CommandsInv, [MNext]_mvars PROVE CommandsInv'
  OBVIOUS
<1>1. CASE ConsumeToks
  BY <1>1 DEF CommandsInv, ConsumeToks
<1>2. CASE UNCHANGED mvars
  BY <1>2 DEF CommandsInv, mvars
<1>. QED
  BY <1>1, <1>2, BindKeepsOrder, PushKeepsOrder, PopKeepsOrder DEF MNext

\* In a map in order the place lower_bound gives is the first of its name.
LEMMA OrderIsFound == CommandsInv => CommandsAreFound
<1>. SUFFICES ASSUME CommandsInv PROVE CommandsAreFound
  OBVIOUS
<1>1. /\ cmdMap \in Seq(MapCmds) /\ Rising(cmdMap) /\ Latest(cmdMap)
      /\ \A k \in 1 .. Len(cmdMap) : cmdMap[k].id # 0
  BY DEF CommandsInv
<1>2. /\ Len(cmdMap) \in Nat /\ DOMAIN cmdMap = 1 .. Len(cmdMap)
      /\ \A k \in 1 .. Len(cmdMap) : cmdMap[k].text \in Int
  <2>1. /\ Len(cmdMap) \in Nat /\ DOMAIN cmdMap = 1 .. Len(cmdMap)
        /\ \A k \in 1 .. Len(cmdMap) : cmdMap[k] \in MapCmds
    BY <1>1, LenProperties, ElementOfSeq
  <2>. QED  BY <2>1, CommandsAssumption DEF MapCmds
<1>3. ASSUME NEW name \in CmdNames
      PROVE  /\ Lookup(name) = Missing <=> name \notin TextsOf(cmdMap)
             /\ Lookup(name) = ManOf(name)
  <2>. DEFINE k == LowerBound(cmdMap, name)
              f == FirstOf(cmdMap, name)
  <2>1. k \in 1 .. Len(cmdMap) + 1 /\ Parts(cmdMap, name, k) /\ name \in Int
    BY <1>1, LowerBoundIs, CommandsAssumption DEF InMap
  <2>2. /\ name \notin TextsOf(cmdMap) => f = 0
        /\ name \in TextsOf(cmdMap)
           => /\ f \in 1 .. Len(cmdMap) /\ cmdMap[f].text = name
              /\ \A j \in 1 .. Len(cmdMap) : j < f => cmdMap[j].text # name
    BY <1>1, FirstIs
  <2>3. /\ Lookup(name) = IF k <= Len(cmdMap) /\ cmdMap[k].text = name
                          THEN cmdMap[k].id ELSE Missing
        /\ ManOf(name) = IF f = 0 THEN Missing ELSE cmdMap[f].id
    BY DEF Lookup, ManOf, FirstOf
  <2>. HIDE DEF k, f
  <2>4. CASE name \in TextsOf(cmdMap)
    <3>1. f \in 1 .. Len(cmdMap) /\ cmdMap[f].text = name
      BY <2>2, <2>4
    <3>2. k <= f
      <4>1. f < k => cmdMap[f].text < name
        BY <2>1, <3>1 DEF Parts
      <4>2. f \in Int /\ k \in Int
        BY <1>2, <2>1, <3>1
      <4>. QED  BY <2>1, <3>1, <4>1, <4>2
    <3>3. k \in 1 .. Len(cmdMap)
      BY <1>2, <2>1, <3>1, <3>2
    <3>4. cmdMap[k].text = name
      <4>1. name <= cmdMap[k].text
        BY <1>2, <2>1, <3>3 DEF Parts
      <4>2. CASE k = f
        BY <3>1, <4>2
      <4>3. CASE k < f
        <5>1. cmdMap[k].text <= cmdMap[f].text
          BY <1>1, <3>1, <3>3, <4>3 DEF Rising
        <5>. QED  BY <1>2, <2>1, <3>1, <3>3, <4>1, <5>1
      <4>4. k \in Int /\ f \in Int
        BY <1>2, <3>1, <3>3
      <4>. QED  BY <3>2, <4>2, <4>3, <4>4
    <3>5. k = f
      <4>1. ~ (k < f)
        BY <2>2, <2>4, <3>3, <3>4
      <4>2. k \in Int /\ f \in Int
        BY <1>2, <3>1, <3>3
      <4>. QED  BY <3>2, <4>1, <4>2
    <3>6. Lookup(name) = cmdMap[k].id
      BY <1>2, <2>3, <3>3, <3>4
    <3>7. ManOf(name) = cmdMap[k].id
      BY <2>3, <3>1, <3>5
    <3>8. cmdMap[k].id # 0
      BY <1>1, <3>3
    <3>. QED  BY <2>4, <3>6, <3>7, <3>8 DEF Missing
  <2>5. CASE name \notin TextsOf(cmdMap)
    <3>1. ~ (k <= Len(cmdMap) /\ cmdMap[k].text = name)
      <4>1. SUFFICES ASSUME k <= Len(cmdMap), cmdMap[k].text = name PROVE FALSE
        OBVIOUS
      <4>2. k \in DOMAIN cmdMap
        BY <1>2, <2>1, <4>1
      <4>. QED  BY <2>5, <4>1, <4>2 DEF TextsOf
    <3>. QED  BY <2>2, <2>3, <2>5, <3>1
  <2>. QED  BY <2>4, <2>5
<1>4. \A j, k \in DOMAIN cmdMap :
        /\ j < k
        /\ cmdMap[j].text = cmdMap[k].text
        /\ cmdMap[j].id > 0 \/ cmdMap[k].id > 0
        => cmdMap[j].id > cmdMap[k].id
  BY <1>1, <1>2, Zenon DEF Latest
<1>. QED  BY <1>3, <1>4 DEF CommandsAreFound

\* Whatever commands are bound, pushed and popped, the binary search finds every
\* command there is, the one that "man" describes and the next pop erases, and
\* the latest pushed one of a name (fastcli.hpp:268-316, 397-411).
THEOREM CommandsAlwaysFound == MInit /\ [][MNext]_mvars => []CommandsAreFound
<1>. QED  BY CommandsInit, CommandsStep, OrderIsFound, PTL

-----------------------------------------------------------------------------
(* Sequences of sequences. *)

\* g puts the first i of them one behind the other, for each i up to n.
Joins(g, s, n) ==
  g = [i \in 1 .. n |-> IF i = 1 THEN s[i] ELSE g[i - 1] \o s[i]]

LEMMA JoinExists ==
  ASSUME NEW s, NEW k \in Nat
  PROVE  \E g : Joins(g, s, k)
<1>. DEFINE Bad == {n \in Nat : ~ \E g : Joins(g, s, n)}
<1>1. SUFFICES ASSUME Bad # {} PROVE FALSE
  OBVIOUS
<1>2. Bad \subseteq Nat
  OBVIOUS
<1>3. PICK n \in Bad : \A i \in Bad : n <= i
  BY <1>1, <1>2, LeastNatural
<1>4. n \in Nat /\ ~ \E g : Joins(g, s, n)
  OBVIOUS
<1>5. CASE n = 0
  <2>. DEFINE g == [i \in 1 .. 0 |-> s[i]]
  <2>1. \A i \in 1 .. 0 : FALSE
    OBVIOUS
  <2>2. g = [i \in 1 .. 0 |-> IF i = 1 THEN s[i] ELSE g[i - 1] \o s[i]]
    <3>. HIDE DEF g
    <3>1. g = [i \in 1 .. 0 |-> s[i]]
      BY DEF g
    <3>. QED  BY <2>1, <3>1, Zenon
  <2>. QED  BY <1>4, <1>5, <2>2, Zenon DEF Joins
<1>6. CASE n # 0
  <2>1. n - 1 \in Nat /\ n - 1 \notin Bad
    <3>. HIDE DEF Bad
    <3>. QED  BY <1>3, <1>4, <1>6
  <2>2. PICK f : Joins(f, s, n - 1)
    BY <2>1
  <2>. DEFINE next(h, i) == IF i = 1 THEN s[i] ELSE h[i - 1] \o s[i]
              g == [i \in 1 .. n |-> next(f, i)]
  <2>3. f = [i \in 1 .. n - 1 |-> next(f, i)]
    BY <2>2 DEF Joins
  <2>4. ASSUME NEW i \in 1 .. n, i # 1 PROVE g[i - 1] = f[i - 1]
    <3>. HIDE DEF next
    <3>1. i - 1 \in 1 .. n - 1 /\ i - 1 \in 1 .. n
      BY <1>4, <2>4
    <3>2. g[i - 1] = next(f, i - 1)
      BY <3>1
    <3>. HIDE DEF g
    <3>3. f[i - 1] = next(f, i - 1)
      BY <2>3, <3>1, Zenon
    <3>. QED  BY <3>2, <3>3
  <2>5. ASSUME NEW i \in 1 .. n PROVE next(f, i) = next(g, i)
    <3>. HIDE DEF g
    <3>1. CASE i = 1
      BY <3>1
    <3>2. CASE i # 1
      BY <2>4, <3>2
    <3>. QED  BY <3>1, <3>2
  <2>6. g = [i \in 1 .. n |-> next(g, i)]
    <3>1. g = [i \in 1 .. n |-> next(f, i)]
      OBVIOUS
    <3>. HIDE DEF g, next
    <3>. QED  BY <2>5, <3>1, Zenon
  <2>. HIDE DEF g
  <2>7. Joins(g, s, n)
    BY <2>6 DEF Joins
  <2>. QED  BY <1>4, <2>7
<1>. QED  BY <1>5, <1>6

\* The first m are sequences over T, and the same in both.
Alike(T, m, s, t) == \A i \in 1 .. m : s[i] \in Seq(T) /\ t[i] = s[i]

\* Two that start alike are joined alike.
LEMMA JoinsAgree ==
  ASSUME NEW T, NEW m \in Nat, NEW n \in Nat, m <= n, NEW s, NEW t,
         Alike(T, m, s, t), NEW g, Joins(g, s, m), NEW h, Joins(h, t, n)
  PROVE  \A i \in 1 .. m : g[i] = h[i] /\ g[i] \in Seq(T)
<1>. DEFINE Bad == {i \in 1 .. m : ~ (g[i] = h[i] /\ g[i] \in Seq(T))}
<1>1. SUFFICES ASSUME Bad # {} PROVE FALSE
  OBVIOUS
<1>2. Bad \subseteq Nat
  OBVIOUS
<1>3. PICK i \in Bad : \A j \in Bad : i <= j
  BY <1>1, <1>2, LeastNatural
<1>4. i \in 1 .. m /\ i \in 1 .. n /\ ~ (g[i] = h[i] /\ g[i] \in Seq(T))
  OBVIOUS
<1>5. /\ g[i] = IF i = 1 THEN s[i] ELSE g[i - 1] \o s[i]
      /\ h[i] = IF i = 1 THEN t[i] ELSE h[i - 1] \o t[i]
  <2>1. g[i] = IF i = 1 THEN s[i] ELSE g[i - 1] \o s[i]
    BY <1>4, Zenon DEF Joins
  <2>2. h[i] = IF i = 1 THEN t[i] ELSE h[i - 1] \o t[i]
    BY <1>4, Zenon DEF Joins
  <2>. QED  BY <2>1, <2>2
<1>6. s[i] \in Seq(T) /\ t[i] = s[i]
  BY <1>4 DEF Alike
<1>7. CASE i = 1
  BY <1>4, <1>5, <1>6, <1>7
<1>8. CASE i # 1
  <2>1. i - 1 \in 1 .. m /\ i - 1 < i
    BY <1>4, <1>8
  <2>2. i - 1 \notin Bad
    <3>. HIDE DEF Bad
    <3>. QED  BY <1>3, <1>4, <2>1
  <2>3. g[i - 1] = h[i - 1] /\ g[i - 1] \in Seq(T)
    BY <2>1, <2>2
  <2>4. g[i - 1] \o s[i] \in Seq(T)
    BY <1>6, <2>3, ConcatProperties
  <2>. QED  BY <1>4, <1>5, <1>6, <1>8, <2>3, <2>4
<1>. QED  BY <1>7, <1>8

\* FlattenSeq of a sequence that is not empty is the last join.
LEMMA FlattenIs ==
  ASSUME NEW T, NEW s \in Seq(Seq(T)), Len(s) # 0
  PROVE  \E g : /\ Joins(g, s, Len(s)) /\ FlattenSeq(s) = g[Len(s)]
                /\ FlattenSeq(s) \in Seq(T)
<1>. DEFINE g == CHOOSE f : Joins(f, s, Len(s))
<1>1. Len(s) \in Nat /\ \A i \in 1 .. Len(s) : s[i] \in Seq(T)
  BY LenProperties, ElementOfSeq
<1>2. Joins(g, s, Len(s))
  <2>1. \E f : Joins(f, s, Len(s))
    BY <1>1, JoinExists
  <2>. QED  BY <2>1, Zenon
<1>3. FlattenSeq(s) = g[Len(s)]
  BY DEF FlattenSeq, Joins
<1>. HIDE DEF g
<1>4. Len(s) \in 1 .. Len(s)
  BY <1>1
<1>5. g[Len(s)] \in Seq(T)
  <2>1. Alike(T, Len(s), s, s) /\ Len(s) <= Len(s)
    BY <1>1 DEF Alike
  <2>2. \A i \in 1 .. Len(s) : g[i] \in Seq(T)
    BY <1>1, <1>2, <2>1, JoinsAgree
  <2>. QED  BY <1>4, <2>2
<1>. QED  BY <1>2, <1>3, <1>5

\* What comes last comes behind all the others.
LEMMA FlattenAppend ==
  ASSUME NEW T, NEW s \in Seq(Seq(T)), NEW e \in Seq(T)
  PROVE  /\ FlattenSeq(s) \in Seq(T)
         /\ FlattenSeq(Append(s, e)) = FlattenSeq(s) \o e
<1>. DEFINE t == Append(s, e)
            n == Len(s)
<1>1. n \in Nat /\ \A i \in 1 .. n : s[i] \in Seq(T)
  BY LenProperties, ElementOfSeq
<1>2. /\ t \in Seq(Seq(T)) /\ Len(t) = n + 1 /\ t[n + 1] = e
      /\ \A i \in 1 .. n : t[i] = s[i]
  BY <1>1
<1>. HIDE DEF t
<1>3. PICK h : Joins(h, t, n + 1) /\ FlattenSeq(t) = h[n + 1]
  <2>1. Len(t) # 0
    BY <1>1, <1>2
  <2>. HIDE DEF n
  <2>. QED  BY <1>2, <2>1, FlattenIs
<1>4. h[n + 1] = IF n + 1 = 1 THEN t[n + 1] ELSE h[n + 1 - 1] \o t[n + 1]
  <2>. DEFINE k == n + 1
  <2>1. k \in 1 .. k
    BY <1>1
  <2>2. Joins(h, t, k)
    BY <1>3
  <2>. HIDE DEF k
  <2>3. h[k] = IF k = 1 THEN t[k] ELSE h[k - 1] \o t[k]
    BY <2>1, <2>2, Zenon DEF Joins
  <2>. QED  BY <2>3 DEF k
<1>5. CASE n = 0
  <2>1. s = <<>> /\ FlattenSeq(s) = s
    BY <1>5 DEF FlattenSeq
  <2>2. FlattenSeq(s) \in Seq(T) /\ FlattenSeq(s) = <<>>
    BY <2>1, EmptySeq
  <2>3. FlattenSeq(s) \o e = e
    BY <2>2, ConcatEmptySeq
  <2>. QED  BY <1>2, <1>3, <1>4, <1>5, <2>2, <2>3 DEF t
<1>6. CASE n # 0
  <2>1. PICK g : /\ Joins(g, s, n) /\ FlattenSeq(s) = g[n]
                 /\ FlattenSeq(s) \in Seq(T)
    BY <1>6, FlattenIs
  <2>2. n \in 1 .. n /\ n <= n + 1 /\ n + 1 \in Nat /\ n + 1 # 1
        /\ n + 1 - 1 = n
    BY <1>1, <1>6
  <2>3. g[n] = h[n]
    <3>. HIDE DEF n
    <3>1. Alike(T, n, s, t)
      BY <1>1, <1>2 DEF Alike
    <3>2. \A i \in 1 .. n : g[i] = h[i]
      BY <1>1, <1>3, <2>1, <2>2, <3>1, JoinsAgree
    <3>. QED  BY <2>2, <3>2
  <2>4. FlattenSeq(t) = h[n] \o t[n + 1]
    BY <1>3, <1>4, <2>2
  <2>. QED  BY <1>2, <2>1, <2>3, <2>4 DEF t
<1>. QED  BY <1>5, <1>6

-----------------------------------------------------------------------------
(* Options. *)

Entries == [opt : Range(Opts), args : Seq(Tokens), name : Seq(Tokens)]

\* An option has arguments of its kind.
OfItsKind(e) ==
  /\ \A k \in DOMAIN e.args : Fits(e.opt, e.args[k])
  /\ e.opt.arg = "flag" => e.args = <<>>
  /\ e.opt.arg # "flag" => e.args # <<>>
  /\ e.opt.argc = "single" => Len(e.args) <= 1

Spelled(s) == [n \in DOMAIN s |-> TokensOf(s[n])]

\* What next has returned is spelled by the tokens used.
OptionsInv ==
  /\ toks \in Seq(Tokens) /\ id0 \in 0 .. Len(toks) /\ told \in Seq(Entries)
  /\ \A n \in 1 .. Len(told) : OfItsKind(told[n])
  /\ stage = "idle" => told = <<>> /\ id0 = 0
  /\ stage = "options" => FlattenSeq(Spelled(told)) = SubSeq(toks, 1, id0)
  /\ stage = "done" => id0 = Len(toks)

\* One of n numbers is the greatest.
LEMMA GreatestIs ==
  ASSUME NEW n \in Nat, NEW S \in SUBSET (0 .. n), 0 \in S
  PROVE  Max(S) \in S /\ \A j \in S : j <= Max(S)
<1>. DEFINE Left == {n - i : i \in S}
<1>1. Left \subseteq Nat /\ Left # {}
  OBVIOUS
<1>2. PICK l \in Left : \A j \in Left : l <= j
  <2>. HIDE DEF Left
  <2>. QED  BY <1>1, LeastNatural
<1>3. PICK k \in S : l = n - k
  OBVIOUS
<1>4. ASSUME NEW j \in S PROVE k >= j
  <2>1. n - k <= n - j
    BY <1>2, <1>3
  <2>2. k \in Int /\ j \in Int
    OBVIOUS
  <2>. QED  BY <2>1, <2>2
<1>5. Max(S) \in S /\ \A j \in S : Max(S) >= j
  BY <1>4, Zenon DEF Max
<1>6. ASSUME NEW j \in S PROVE j <= Max(S)
  <2>. HIDE DEF Left
  <2>1. Max(S) \in S /\ Max(S) >= j
    BY <1>5
  <2>2. S \subseteq Int
    OBVIOUS
  <2>3. Max(S) \in Int /\ j \in Int
    BY <2>1, <2>2
  <2>. QED  BY <2>1, <2>3
<1>. QED  BY <1>5, <1>6

\* An option takes tokens from the next on that convert; a flag none, and one
\* without a list at most one.
LEMMA TakenIs ==
  ASSUME toks \in Seq(Tokens), NEW from \in 0 .. Len(toks), NEW opt
  PROVE  \E k \in 0 .. Len(toks) - from :
           /\ Taken(opt, from) = SubSeq(toks, from + 1, from + k)
           /\ \A i \in 1 .. k : Fits(opt, toks[from + i])
           /\ opt.arg = "flag" => k = 0
           /\ opt.arg # "flag" /\ opt.argc = "single" => k <= 1
<1>. DEFINE n == Len(toks) - from
            run == {k \in 0 .. n : \A i \in 1 .. k : Fits(opt, toks[from + i])}
            most == Max(run)
            one == Min({1, most})
<1>1. n \in Nat /\ from \in Nat /\ from + 0 = from
  BY LenProperties
<1>2. Taken(opt, from)
        = CASE opt.arg = "flag" -> <<>>
            [] opt.arg # "flag" /\ opt.argc = "multi" ->
                 SubSeq(toks, from + 1, from + most)
            [] OTHER -> SubSeq(toks, from + 1, from + one)
  BY DEF Taken
<1>3. run \in SUBSET (0 .. n) /\ 0 \in run
  BY <1>1
<1>4. most \in run
  <2>. HIDE DEF run
  <2>. QED  BY <1>1, <1>3, GreatestIs
<1>. HIDE DEF n, most
<1>5. most \in 0 .. n /\ \A i \in 1 .. most : Fits(opt, toks[from + i])
  BY <1>4
<1>6. one \in {1, most} /\ one <= 1 /\ one <= most
  <2>1. most \in Int
    BY <1>1, <1>5
  <2>2. \E x \in {1, most} : \A y \in {1, most} : x =< y
    BY <2>1
  <2>3. one \in {1, most} /\ \A y \in {1, most} : one =< y
    BY <2>2, Zenon DEF Min
  <2>. QED  BY <2>3
<1>. HIDE DEF one, run
<1>7. one \in 0 .. n /\ \A i \in 1 .. one : Fits(opt, toks[from + i])
  <2>1. one \in 0 .. most
    BY <1>1, <1>5, <1>6
  <2>. QED  BY <1>1, <1>5, <2>1
<1>8. CASE opt.arg = "flag"
  <2>1. Taken(opt, from) = <<>>
    BY <1>2, <1>8
  <2>2. SubSeq(toks, from + 1, from + 0) = <<>>
    BY <1>1, SubSeqEmpty
  <2>3. 0 \in 0 .. n /\ \A i \in 1 .. 0 : FALSE
    BY <1>1
  <2>. QED  BY <1>8, <2>1, <2>2, <2>3 DEF n
<1>9. CASE opt.arg # "flag" /\ opt.argc = "multi"
  <2>1. Taken(opt, from) = SubSeq(toks, from + 1, from + most)
    BY <1>2, <1>9
  <2>. QED  BY <1>5, <1>9, <2>1 DEF n
<1>10. CASE opt.arg # "flag" /\ opt.argc # "multi"
  <2>1. Taken(opt, from) = SubSeq(toks, from + 1, from + one)
    BY <1>2, <1>10
  <2>. QED  BY <1>6, <1>7, <1>10, <2>1 DEF n
<1>. QED  BY <1>8, <1>9, <1>10

\* An option found is one of the command's.
LEMMA FoundIs ==
  ASSUME NEW tok \in Tokens, Found(tok) # {}
  PROVE  Opts[Min(Found(tok))] \in Range(Opts)
<1>1. tok.dashes \in 0 .. 2
  BY FastCliAssumption
<1>2. Found(tok) \subseteq DOMAIN Opts
  <2>1. CASE tok.dashes = 2
    BY <2>1 DEF Found
  <2>2. CASE tok.dashes = 1
    BY <2>2 DEF Found
  <2>3. CASE tok.dashes = 0
    BY <2>3 DEF Found
  <2>. QED  BY <1>1, <2>1, <2>2, <2>3
<1>3. DOMAIN Opts \subseteq Nat
  <2>1. Opts \in Seq(Range(Opts))
    BY FastCliAssumption
  <2>2. DOMAIN Opts = 1 .. Len(Opts) /\ Len(Opts) \in Nat
    BY <2>1, LenProperties
  <2>. QED  BY <2>2
<1>4. \E i \in Found(tok) : \A j \in Found(tok) : i =< j
  BY <1>2, <1>3, LeastNatural
<1>5. Min(Found(tok)) \in Found(tok)
  BY <1>4, Zenon DEF Min
<1>. QED  BY <1>2, <1>5 DEF Range

\* No line has been read.
LEMMA OptionsInit == CInit => OptionsInv
<1>1. /\ <<>> \in Seq(Tokens) /\ <<>> \in Seq(Entries) /\ Len(<<>>) = 0
  BY EmptySeq
<1>. QED  BY <1>1 DEF CInit, OptionsInv

\* One more option, with its name and arguments, is one more of each.
LEMMA SpelledAppend ==
  ASSUME NEW s \in Seq(Entries), NEW e \in Entries
  PROVE  /\ Spelled(s) \in Seq(Seq(Tokens)) /\ TokensOf(e) \in Seq(Tokens)
         /\ Spelled(Append(s, e)) = Append(Spelled(s), TokensOf(e))
<1>1. ASSUME NEW x \in Entries PROVE TokensOf(x) \in Seq(Tokens)
  BY ConcatProperties DEF Entries, TokensOf
<1>. DEFINE n == Len(s)
            t == Append(s, e)
<1>2. /\ n \in Nat /\ DOMAIN s = 1 .. n
      /\ \A i \in 1 .. n : s[i] \in Entries
  BY LenProperties, ElementOfSeq
<1>3. /\ t \in Seq(Entries) /\ DOMAIN t = 1 .. n + 1 /\ t[n + 1] = e
      /\ \A i \in 1 .. n : t[i] = s[i]
  BY <1>2
<1>. HIDE DEF n, t
<1>4. /\ Spelled(s) = [i \in 1 .. n |-> TokensOf(s[i])]
      /\ Spelled(t) = [i \in 1 .. n + 1 |-> TokensOf(t[i])]
  BY <1>2, <1>3 DEF Spelled
<1>5. Spelled(s) \in Seq(Seq(Tokens)) /\ Len(Spelled(s)) = n
  <2>1. \A i \in 1 .. n : TokensOf(s[i]) \in Seq(Tokens)
    BY <1>1, <1>2
  <2>2. [i \in 1 .. n |-> TokensOf(s[i])] \in Seq(Seq(Tokens))
    BY <1>2, <2>1, IsASeq
  <2>3. Len([i \in 1 .. n |-> TokensOf(s[i])]) = n
    BY <1>2
  <2>. QED  BY <1>4, <2>2, <2>3
<1>6. Spelled(t) \in Seq(Seq(Tokens)) /\ Len(Spelled(t)) = n + 1
  <2>1. \A i \in 1 .. n + 1 : TokensOf(t[i]) \in Seq(Tokens)
    BY <1>1, <1>3, ElementOfSeq, LenProperties
  <2>2. n + 1 \in Nat
    BY <1>2
  <2>3. [i \in 1 .. n + 1 |-> TokensOf(t[i])] \in Seq(Seq(Tokens))
    BY <2>1, <2>2, IsASeq
  <2>4. Len([i \in 1 .. n + 1 |-> TokensOf(t[i])]) = n + 1
    BY <2>2
  <2>. QED  BY <1>4, <2>3, <2>4
<1>. DEFINE a == Append(Spelled(s), TokensOf(e))
<1>7. /\ a \in Seq(Seq(Tokens)) /\ Len(a) = n + 1 /\ a[n + 1] = TokensOf(e)
      /\ \A i \in 1 .. n : a[i] = Spelled(s)[i]
  BY <1>1, <1>2, <1>5
<1>8. \A i \in 1 .. n + 1 : Spelled(t)[i] = a[i]
  <2>. SUFFICES ASSUME NEW i \in 1 .. n + 1 PROVE Spelled(t)[i] = a[i]
    OBVIOUS
  <2>. HIDE DEF a
  <2>1. Spelled(t)[i] = TokensOf(t[i])
    BY <1>4
  <2>2. CASE i = n + 1
    BY <1>3, <1>7, <2>1, <2>2
  <2>3. CASE i \in 1 .. n
    <3>1. Spelled(s)[i] = TokensOf(s[i])
      BY <1>4, <2>3
    <3>. QED  BY <1>3, <1>7, <2>1, <2>3, <3>1
  <2>. QED  BY <1>2, <2>2, <2>3
<1>. HIDE DEF a
<1>9. Spelled(t) = a
  BY <1>6, <1>7, <1>8, SeqEqual
<1>. QED  BY <1>1, <1>5, <1>9 DEF a, t

\* The option of the next token, with the arguments it takes, is spelled by the
\* tokens from there on.
LEMMA NextKeepsTokens == OptionsInv /\ NextOption => OptionsInv'
<1>. SUFFICES ASSUME OptionsInv, NextOption PROVE OptionsInv'
  OBVIOUS
<1>. DEFINE tok   == toks[id0 + 1]
            named == tok.dashes > 0
            from  == IF named THEN id0 + 1 ELSE id0
            opt   == Opts[Min(Found(tok))]
            args  == Taken(opt, from)
            name  == IF named THEN <<tok>> ELSE <<>>
            entry == [opt |-> opt, args |-> args, name |-> name]
            len   == Len(toks)
<1>1. /\ toks \in Seq(Tokens) /\ id0 \in 0 .. len /\ told \in Seq(Entries)
      /\ \A n \in 1 .. Len(told) : OfItsKind(told[n])
      /\ FlattenSeq(Spelled(told)) = SubSeq(toks, 1, id0)
      /\ stage = "options" /\ id0 < len /\ toks' = toks
  BY DEF OptionsInv, NextOption
<1>2. len \in Nat /\ \A i \in 1 .. len : toks[i] \in Tokens
  BY <1>1, LenProperties, ElementOfSeq
<1>3. tok \in Tokens /\ from \in 0 .. len
  BY <1>1, <1>2
<1>4. CASE Found(tok) = {}
  <2>1. stage' = "badarg" /\ id0' = len /\ told' = told
    BY <1>4 DEF NextOption, NextError
  <2>. QED  BY <1>1, <1>2, <2>1 DEF OptionsInv
<1>5. CASE Found(tok) # {} /\ opt.arg # "flag" /\ args = <<>>
  <2>1. stage' = "badarg" /\ id0' = len /\ told' = told
    BY <1>5 DEF NextOption, NextError
  <2>. QED  BY <1>1, <1>2, <2>1 DEF OptionsInv
<1>6. CASE Found(tok) # {} /\ ~ (opt.arg # "flag" /\ args = <<>>)
  <2>1. /\ told' = Append(told, entry) /\ id0' = from + Len(args)
        /\ stage' = stage
    BY <1>6 DEF NextOption, Used
  <2>2. opt \in Range(Opts)
    BY <1>3, <1>6, FoundIs
  <2>3. PICK k \in 0 .. len - from :
          /\ args = SubSeq(toks, from + 1, from + k)
          /\ \A i \in 1 .. k : Fits(opt, toks[from + i])
          /\ opt.arg = "flag" => k = 0
          /\ opt.arg # "flag" /\ opt.argc = "single" => k <= 1
    <3>. HIDE DEF tok, from, opt
    <3>. QED  BY <1>1, <1>3, TakenIs
  <2>. HIDE DEF opt, args
  <2>4. k \in Nat /\ from \in Nat /\ from + k <= len
    BY <1>2, <1>3, <2>3
  <2>5. /\ args \in Seq(Tokens) /\ Len(args) = k
        /\ \A i \in 1 .. k : args[i] = toks[from + i]
    <3>. HIDE DEF from
    <3>1. \A i \in from + 1 .. from + k : toks[i] \in Tokens
      BY <1>2, <2>4
    <3>2. /\ SubSeq(toks, from + 1, from + k) \in Seq(Tokens)
          /\ Len(SubSeq(toks, from + 1, from + k))
               = IF from + 1 <= from + k THEN from + k - (from + 1) + 1 ELSE 0
          /\ \A i \in 1 .. from + k - (from + 1) + 1 :
               SubSeq(toks, from + 1, from + k)[i] = toks[from + 1 + i - 1]
      BY <2>4, <3>1, SubSeqProperties
    <3>3. ASSUME NEW i \in 1 .. k PROVE args[i] = toks[from + i]
      <4>1. i \in 1 .. from + k - (from + 1) + 1 /\ from + 1 + i - 1 = from + i
        BY <2>4
      <4>. QED  BY <2>3, <3>2, <4>1
    <3>. QED  BY <2>3, <2>4, <3>2, <3>3
  <2>6. name \in Seq(Tokens) /\ entry \in Entries
    BY <1>3, <2>2, <2>5 DEF Entries
  <2>7. OfItsKind(entry)
    <3>. HIDE DEF from, name, tok
    <3>1. entry.opt = opt /\ entry.args = args
      OBVIOUS
    <3>. HIDE DEF entry
    <3>2. DOMAIN args = 1 .. k
      BY <2>5, LenProperties
    <3>3. \A i \in DOMAIN args : Fits(opt, args[i])
      BY <2>3, <2>5, <3>2
    <3>4. opt.arg = "flag" => args = <<>>
      BY <2>3, <2>5, EmptySeq
    <3>5. opt.arg # "flag" => args # <<>>
      BY <1>6
    <3>6. opt.argc = "single" => Len(args) <= 1
      BY <2>3, <2>4, <2>5
    <3>. QED  BY <3>1, <3>3, <3>4, <3>5, <3>6 DEF OfItsKind
  <2>8. TokensOf(entry) = SubSeq(toks, id0 + 1, from + k)
    <3>1. TokensOf(entry) = name \o args
      BY DEF TokensOf
    <3>2. CASE named
      <4>1. name = <<tok>> /\ from = id0 + 1 /\ tok = toks[id0 + 1]
        BY <3>2
      <4>2. /\ id0 + 1 \in 1 .. len /\ from + k \in id0 + 1 .. len
        BY <1>1, <1>2, <2>4, <4>1
      <4>. HIDE DEF name, from, tok, entry, named
      <4>3. SubSeq(toks, id0 + 1, from + k)
              = <<toks[id0 + 1]>> \o SubSeq(toks, id0 + 1 + 1, from + k)
        BY <1>1, <4>2, SubSeqRecursiveFirst
      <4>. QED  BY <2>3, <3>1, <4>1, <4>3
    <3>3. CASE ~ named
      <4>1. name = <<>> /\ from = id0
        BY <3>3
      <4>. HIDE DEF name, from, tok, entry, named
      <4>2. name \o args = args
        BY <2>5, <4>1, ConcatEmptySeq
      <4>. QED  BY <2>3, <3>1, <4>1, <4>2
    <3>. QED  BY <3>2, <3>3
  <2>. HIDE DEF entry, name
  <2>9. id0' = from + k /\ from + k \in 0 .. len /\ id0 <= from + k
    BY <1>1, <1>2, <2>1, <2>4, <2>5
  <2>. HIDE DEF from, tok, named
  <2>10. FlattenSeq(Spelled(told')) = SubSeq(toks, 1, from + k)
    <3>1. /\ Spelled(told) \in Seq(Seq(Tokens)) /\ TokensOf(entry) \in Seq(Tokens)
          /\ Spelled(told') = Append(Spelled(told), TokensOf(entry))
      BY <1>1, <2>1, <2>6, SpelledAppend
    <3>2. FlattenSeq(Spelled(told'))
            = FlattenSeq(Spelled(told)) \o TokensOf(entry)
      BY <3>1, FlattenAppend
    <3>3. 1 \in 1 .. len + 1 /\ id0 \in 1 - 1 .. len /\ from + k \in id0 .. len
      BY <1>1, <1>2, <2>9
    <3>4. SubSeq(toks, 1, id0) \o SubSeq(toks, id0 + 1, from + k)
            = SubSeq(toks, 1, from + k)
      BY <1>1, <3>3, ConcatAdjacentSubSeq
    <3>. QED  BY <1>1, <2>8, <3>2, <3>4
  <2>11. /\ told' \in Seq(Entries)
         /\ \A n \in 1 .. Len(told') : OfItsKind(told'[n])
    <3>1. /\ Len(told) \in Nat /\ told' \in Seq(Entries)
          /\ Len(told') = Len(told) + 1 /\ told'[Len(told) + 1] = entry
          /\ \A n \in 1 .. Len(told) : told'[n] = told[n]
      BY <1>1, <2>1, <2>6, LenProperties
    <3>2. ASSUME NEW n \in 1 .. Len(told) + 1 PROVE OfItsKind(told'[n])
      <4>1. CASE n = Len(told) + 1
        BY <2>7, <3>1, <4>1
      <4>2. CASE n \in 1 .. Len(told)
        BY <1>1, <3>1, <4>2
      <4>. QED  BY <3>1, <4>1, <4>2
    <3>. QED  BY <3>1, <3>2
  <2>12. (\A n \in 1 .. Len(told) : OfItsKind(told[n]))'
    BY <2>11 DEF OfItsKind, Fits
  <2>. QED  BY <1>1, <2>1, <2>9, <2>10, <2>11, <2>12 DEF OptionsInv, Spelled, TokensOf
<1>. QED  BY <1>4, <1>5, <1>6

LEMMA OptionsStep == OptionsInv /\ [CNext]_cvars => OptionsInv'
<1>. SUFFICES ASSUME OptionsInv, [CNext]_cvars PROVE OptionsInv'
  OBVIOUS
<1>1. ASSUME UNCHANGED options, stage' \notin {"idle", "options", "done"}
      PROVE  OptionsInv'
  BY <1>1 DEF OptionsInv, options
<1>2. CASE \/ Execute \/ Delimiter \/ Quote \/ BadChar \/ SplitEnd
           \/ (\E c \in {"a", "n"} : TextChar(c)) \/ (\E c \in Chars : Escape(c))
  BY <1>1, <1>2 DEF Execute, Delimiter, Quote, BadChar, SplitEnd, TextChar,
     Escape, Reads, options
<1>3. CASE Command
  <2>1. toks' \in Seq(Tokens)
    <3>1. toks' \in UNION {[1 .. m -> Tokens] : m \in 0 .. MaxToks}
      BY <1>3, Zenon DEF Command, BoundedSeq, SeqOf
    <3>2. PICK m \in 0 .. MaxToks : toks' \in [1 .. m -> Tokens]
      BY <3>1
    <3>3. m \in Nat
      <4>1. MaxToks \in Nat
        BY FastCliAssumption, Zenon
      <4>. QED  BY <4>1
    <3>. QED  BY <3>2, <3>3, SeqDef
  <2>2. /\ told' = <<>> /\ id0' = 0 /\ stage' = "options"
    BY <1>3 DEF Command, OptionsInv
  <2>3. Spelled(<<>>) = <<>> /\ FlattenSeq(<<>>) = <<>>
    BY DEF Spelled, FlattenSeq
  <2>4. SubSeq(toks', 1, 0) = <<>>
    BY SubSeqEmpty
  <2>5. Len(toks') \in Nat /\ <<>> \in Seq(Entries) /\ Len(<<>>) = 0
    BY <2>1, LenProperties, EmptySeq
  <2>6. FlattenSeq(Spelled(told')) = SubSeq(toks', 1, id0')
    BY <2>2, <2>3, <2>4
  <2>7. (FlattenSeq(Spelled(told)) = SubSeq(toks, 1, id0))'
    BY <2>6 DEF Spelled, TokensOf
  <2>8. (\A n \in 1 .. Len(told) : OfItsKind(told[n]))'
    BY <2>2, <2>5
  <2>. QED  BY <2>1, <2>2, <2>5, <2>7, <2>8 DEF OptionsInv
<1>4. CASE NextDone
  BY <1>4 DEF NextDone, OptionsInv, options
<1>5. CASE Again
  <2>1. /\ <<>> \in Seq(Tokens) /\ <<>> \in Seq(Entries) /\ Len(<<>>) = 0
    BY EmptySeq
  <2>. QED  BY <1>5, <2>1 DEF Again, OptionsInv
<1>6. CASE UNCHANGED cvars
  BY <1>6 DEF cvars, options, OptionsInv
<1>. QED  BY <1>2, <1>3, <1>4, <1>5, <1>6, NextKeepsTokens DEF CNext

\* The options a command hears of are the tokens of its line, each once and in
\* order, with arguments of their kind, for any options and any lines
\* (fastcli.hpp:435-496).
THEOREM EveryTokenAlwaysOnce == CInit /\ [][CNext]_cvars => []EveryTokenOnce
<1>1. OptionsInv => EveryTokenOnce
  <2>1. OptionsInv => DOMAIN told = 1 .. Len(told)
    BY LenProperties DEF OptionsInv
  <2>. QED  BY <2>1, Zenon DEF OptionsInv, EveryTokenOnce, OfItsKind, Spelled
<1>. QED  BY <1>1, OptionsInit, OptionsStep, PTL

-----------------------------------------------------------------------------
(* What a line says. *)

\* A set of places before i and the place i.
LEMMA OneMoreOdd ==
  ASSUME NEW i \in Nat, NEW S \in SUBSET (1 .. i - 1)
  PROVE  /\ IsFiniteSet(S)
         /\ Cardinality(S \union {i}) % 2 = 1 <=> ~ (Cardinality(S) % 2 = 1)
<1>1. IsFiniteSet(1 .. i - 1)
  BY FS_Interval
<1>2. IsFiniteSet(S) /\ Cardinality(S) \in Nat
  BY <1>1, FS_Subset, FS_CardinalityType
<1>3. i \notin S
  OBVIOUS
<1>4. Cardinality(S \union {i}) = Cardinality(S) + 1
  BY <1>2, <1>3, FS_AddElement
<1>5. ASSUME NEW n \in Nat PROVE (n + 1) % 2 = 1 <=> ~ (n % 2 = 1)
  OBVIOUS
<1>. QED  BY <1>2, <1>4, <1>5

\* A character is escaped by an escape before it that is not escaped itself.
LEMMA EscapedNext ==
  ASSUME NEW s, NEW i \in Nat, i >= 1
  PROVE  Escaped(s, i + 1) <=> s[i] = "\\" /\ ~ Escaped(s, i)
<1>. DEFINE Run(e) == {j \in 1 .. e - 1 : \A k \in j .. e - 1 : s[k] = "\\"}
<1>1. \A e : Escaped(s, e) <=> Cardinality(Run(e)) % 2 = 1
  BY DEF Escaped
<1>2. i + 1 - 1 = i
  OBVIOUS
<1>3. CASE s[i] # "\\"
  <2>1. Run(i + 1) = {}
    BY <1>2, <1>3
  <2>2. Cardinality(Run(i + 1)) = 0
    BY <2>1, FS_EmptySet
  <2>. HIDE DEF Run
  <2>. QED  BY <1>1, <1>3, <2>2
<1>4. CASE s[i] = "\\"
  <2>1. Run(i + 1) = Run(i) \union {i}
    <3>1. ASSUME NEW j \in 1 .. i
          PROVE  j \in Run(i + 1) <=> j \in Run(i) \union {i}
      <4>1. CASE j = i
        BY <1>2, <1>4, <4>1
      <4>2. CASE j # i
        <5>1. j .. i = (j .. i - 1) \union {i} /\ j \in 1 .. i - 1
          BY <4>2
        <5>. QED  BY <1>2, <1>4, <4>2, <5>1
      <4>. QED  BY <4>1, <4>2
    <3>2. Run(i + 1) \subseteq 1 .. i /\ Run(i) \union {i} \subseteq 1 .. i
      BY <1>2
    <3>. HIDE DEF Run
    <3>. QED  BY <3>1, <3>2
  <2>2. Run(i) \in SUBSET (1 .. i - 1)
    OBVIOUS
  <2>. HIDE DEF Run
  <2>. QED  BY <1>1, <1>4, <2>1, <2>2, OneMoreOdd
<1>. QED  BY <1>3, <1>4

\* The first character is not escaped or quoted.
LEMMA NothingBefore ==
  ASSUME NEW s
  PROVE  ~ Escaped(s, 1) /\ ~ Quoted(s, 1)
<1>1. Cardinality({}) = 0 /\ 0 % 2 = 0
  BY FS_EmptySet
<1>2. {j \in 1 .. 1 - 1 : \A k \in j .. 1 - 1 : s[k] = "\\"} = {}
  OBVIOUS
<1>3. {j \in 1 .. 1 - 1 : Is(s, "q", j)} = {}
  OBVIOUS
<1>. QED  BY <1>1, <1>2, <1>3 DEF Escaped, Quoted

\* A quote ends what the one before began.
LEMMA QuotedNext ==
  ASSUME NEW s, NEW i \in Nat, i >= 1
  PROVE  /\ Is(s, "q", i) => (Quoted(s, i + 1) <=> ~ Quoted(s, i))
         /\ ~ Is(s, "q", i) => (Quoted(s, i + 1) <=> Quoted(s, i))
<1>. DEFINE Quotes(e) == {j \in 1 .. e - 1 : Is(s, "q", j)}
<1>1. \A e : Quoted(s, e) <=> Cardinality(Quotes(e)) % 2 = 1
  BY DEF Quoted
<1>2. 1 .. i + 1 - 1 = (1 .. i - 1) \union {i}
  OBVIOUS
<1>3. Quotes(i) \in SUBSET (1 .. i - 1)
  OBVIOUS
<1>4. CASE Is(s, "q", i)
  <2>1. Quotes(i + 1) = Quotes(i) \union {i}
    BY <1>2, <1>4
  <2>. HIDE DEF Quotes
  <2>. QED  BY <1>1, <1>3, <1>4, <2>1, OneMoreOdd
<1>5. CASE ~ Is(s, "q", i)
  <2>1. Quotes(i + 1) = Quotes(i)
    BY <1>2, <1>5
  <2>. HIDE DEF Quotes
  <2>. QED  BY <1>1, <1>5, <2>1
<1>. QED  BY <1>4, <1>5

\* t begins with the n characters s has.
Continues(s, t, n) == \A k \in 1 .. n : t[k] = s[k]

\* What comes behind a character does not change what it says.
AllSame(s, t, n) ==
  /\ \A i \in 1 .. n + 1 : /\ Escaped(t, i) <=> Escaped(s, i)
                           /\ Quoted(t, i) <=> Quoted(s, i)
  /\ \A i \in 1 .. n : /\ \A c : Is(t, c, i) <=> Is(s, c, i)
                       /\ Delimits(t, i) <=> Delimits(s, i)
                       /\ Says(t, i) = Says(s, i)

LEMMA ContinuesSame ==
  ASSUME NEW n \in Nat, NEW s, NEW t, Continues(s, t, n)
  PROVE  AllSame(s, t, n)
<1>1. ASSUME NEW i \in 1 .. n + 1 PROVE Escaped(t, i) <=> Escaped(s, i)
  <2>1. {j \in 1 .. i - 1 : \A k \in j .. i - 1 : t[k] = "\\"}
          = {j \in 1 .. i - 1 : \A k \in j .. i - 1 : s[k] = "\\"}
    <3>1. \A j \in 1 .. i - 1 : \A k \in j .. i - 1 : t[k] = s[k]
      <4>1. \A j \in 1 .. i - 1 : \A k \in j .. i - 1 : k \in 1 .. n
        OBVIOUS
      <4>. QED  BY <4>1 DEF Continues
    <3>. QED  BY <3>1
  <2>. QED  BY <2>1 DEF Escaped
<1>2. \A i \in 1 .. n : \A c : Is(t, c, i) <=> Is(s, c, i)
  <2>1. \A i \in 1 .. n : i \in 1 .. n + 1
    OBVIOUS
  <2>. QED  BY <1>1, <2>1 DEF Is, Continues
<1>3. ASSUME NEW i \in 1 .. n + 1 PROVE Quoted(t, i) <=> Quoted(s, i)
  <2>1. \A j \in 1 .. i - 1 : j \in 1 .. n
    OBVIOUS
  <2>2. {j \in 1 .. i - 1 : Is(t, "q", j)} = {j \in 1 .. i - 1 : Is(s, "q", j)}
    BY <1>2, <2>1
  <2>. QED  BY <2>2 DEF Quoted
<1>4. \A i \in 1 .. n : i \in 1 .. n + 1
  OBVIOUS
<1>5. \A i \in 1 .. n : Delimits(t, i) <=> Delimits(s, i)
  BY <1>2, <1>3, <1>4 DEF Delimits
<1>6. \A i \in 1 .. n : Says(t, i) = Says(s, i)
  BY <1>1, <1>2, <1>4 DEF Says, Continues
<1>. QED  BY <1>1, <1>2, <1>3, <1>5, <1>6 DEF AllSame

-----------------------------------------------------------------------------
(* Pieces. *)

Marks == Chars \union {"newline"}

LEMMA SaysIs ==
  ASSUME NEW s \in Seq(Chars), NEW i \in 1 .. Len(s)
  PROVE  Says(s, i) \in Seq(Marks)
<1>1. s[i] \in Chars
  BY ElementOfSeq
<1>2. s[i] \in Marks /\ Morph(s[i]) \in Marks
  BY <1>1 DEF Marks, Morph
<1>3. <<>> \in Seq(Marks)
  BY EmptySeq
<1>. QED  BY <1>2, <1>3 DEF Says

\* What the m characters behind a place say.
Said(s, a, m) == FlattenSeq([k \in 1 .. m |-> Says(s, a + k)])

LEMMA SaidIs ==
  ASSUME NEW s \in Seq(Chars), NEW a \in Nat, NEW m \in Nat, a + m <= Len(s)
  PROVE  /\ Said(s, a, m) \in Seq(Marks)
         /\ Said(s, a, 0) = <<>>
         /\ a + m + 1 <= Len(s)
              => Said(s, a, m + 1) = Said(s, a, m) \o Says(s, a + m + 1)
<1>. DEFINE Sayings(n) == [k \in 1 .. n |-> Says(s, a + k)]
<1>1. Len(s) \in Nat
  BY LenProperties
<1>2. ASSUME NEW n \in Nat, a + n <= Len(s)
      PROVE  Sayings(n) \in Seq(Seq(Marks)) /\ Len(Sayings(n)) = n
  <2>1. \A k \in 1 .. n : a + k \in 1 .. Len(s)
    BY <1>1, <1>2
  <2>2. \A k \in 1 .. n : Says(s, a + k) \in Seq(Marks)
    BY <2>1, SaysIs
  <2>3. Sayings(n) \in Seq(Seq(Marks))
    BY <1>2, <2>2, IsASeq
  <2>. QED  BY <2>3
<1>3. Sayings(m) \in Seq(Seq(Marks)) /\ Len(Sayings(m)) = m
  BY <1>2
<1>4. Said(s, a, m) = FlattenSeq(Sayings(m))
  BY DEF Said
<1>5. Said(s, a, m) \in Seq(Marks)
  <2>1. <<>> \in Seq(Marks)
    BY EmptySeq
  <2>. HIDE DEF Sayings
  <2>. QED  BY <1>3, <1>4, <2>1, FlattenAppend
<1>6. Said(s, a, 0) = <<>>
  <2>1. Sayings(0) = <<>>
    <3>1. Len(Sayings(0)) = 0 /\ Sayings(0) \in Seq(Seq(Marks))
      BY <1>1, <1>2
    <3>. HIDE DEF Sayings
    <3>. QED  BY <3>1, EmptySeq
  <2>2. Said(s, a, 0) = FlattenSeq(Sayings(0))
    BY DEF Said
  <2>. HIDE DEF Sayings
  <2>. QED  BY <2>1, <2>2 DEF FlattenSeq
<1>7. ASSUME a + m + 1 <= Len(s)
      PROVE  Said(s, a, m + 1) = Said(s, a, m) \o Says(s, a + m + 1)
  <2>. DEFINE e == Says(s, a + m + 1)
  <2>1. e \in Seq(Marks)
    <3>1. a + m + 1 \in 1 .. Len(s)
      BY <1>1, <1>7
    <3>. QED  BY <3>1, SaysIs
  <2>2. Sayings(m + 1) \in Seq(Seq(Marks)) /\ Len(Sayings(m + 1)) = m + 1
    <3>1. m + 1 \in Nat /\ a + (m + 1) <= Len(s)
      BY <1>7
    <3>. HIDE DEF Sayings
    <3>. QED  BY <1>2, <3>1
  <2>3. \A i \in 1 .. m + 1 : Sayings(m + 1)[i] = Append(Sayings(m), e)[i]
    <3>1. \A i \in 1 .. m + 1 : Sayings(m + 1)[i] = Says(s, a + i)
      OBVIOUS
    <3>2. \A i \in 1 .. m : Sayings(m)[i] = Says(s, a + i)
      OBVIOUS
    <3>. HIDE DEF Sayings, e
    <3>3. /\ Append(Sayings(m), e)[m + 1] = e
          /\ \A i \in 1 .. m : Append(Sayings(m), e)[i] = Sayings(m)[i]
      BY <1>3, <2>1
    <3>4. a + (m + 1) = a + m + 1 /\ m + 1 \in 1 .. m + 1
      OBVIOUS
    <3>5. e = Sayings(m + 1)[m + 1]
      BY <3>1, <3>4 DEF e
    <3>6. ASSUME NEW i \in 1 .. m + 1 PROVE Sayings(m + 1)[i] = Append(Sayings(m), e)[i]
      <4>1. CASE i = m + 1
        BY <3>3, <3>5, <4>1
      <4>2. CASE i \in 1 .. m
        BY <3>1, <3>2, <3>3, <4>2
      <4>3. i = m + 1 \/ i \in 1 .. m
        OBVIOUS
      <4>. QED  BY <4>1, <4>2, <4>3, Zenon
    <3>. QED  BY <3>6, Zenon
  <2>. HIDE DEF Sayings, e
  <2>4. Append(Sayings(m), e) \in Seq(Seq(Marks)) /\ Len(Append(Sayings(m), e)) = m + 1
    BY <1>3, <2>1
  <2>5. Sayings(m + 1) = Append(Sayings(m), e)
    BY <2>2, <2>3, <2>4, SeqEqual
  <2>6. FlattenSeq(Sayings(m + 1)) = FlattenSeq(Sayings(m)) \o e
    BY <1>3, <2>1, <2>5, FlattenAppend
  <2>7. Said(s, a, m + 1) = FlattenSeq(Sayings(m + 1))
    BY DEF Said, Sayings
  <2>. QED  BY <1>4, <2>6, <2>7 DEF e
<1>. QED  BY <1>5, <1>6, <1>7

\* A piece ends at the first delimiter behind its place.
LEMMA EndIs ==
  ASSUME NEW s, Len(s) \in Nat, NEW a \in Nat, NEW e \in a + 1 .. Len(s) + 1,
         e = Len(s) + 1 \/ Delimits(s, e),
         \A i \in a + 1 .. e - 1 : ~ Delimits(s, i)
  PROVE  End(s, a) = e
<1>. DEFINE S == {i \in a + 1 .. Len(s) + 1 : i = Len(s) + 1 \/ Delimits(s, i)}
<1>1. e \in S
  OBVIOUS
<1>2. \A i \in S : e <= i
  <2>1. SUFFICES ASSUME NEW i \in S, i < e PROVE FALSE
    OBVIOUS
  <2>2. i \in a + 1 .. e - 1 /\ i # Len(s) + 1
    <3>1. i \in a + 1 .. Len(s) + 1
      OBVIOUS
    <3>. HIDE DEF S
    <3>. QED  BY <2>1, <3>1
  <2>3. Delimits(s, i)
    BY <2>2
  <2>. QED  BY <2>2, <2>3
<1>3. End(s, a) = Min(S)
  BY DEF End
<1>4. S \subseteq Int
  OBVIOUS
<1>. HIDE DEF S
<1>5. Min(S) \in S /\ \A i \in S : Min(S) <= i
  <2>1. \E x \in S : \A y \in S : x <= y
    BY <1>1, <1>2
  <2>. QED  BY <2>1, Zenon DEF Min
<1>6. Min(S) <= e /\ e <= Min(S) /\ Min(S) \in Int /\ e \in Int
  BY <1>1, <1>2, <1>4, <1>5
<1>. QED  BY <1>3, <1>6

\* A piece that a delimiter has ended does not change with what comes behind.
LEMMA EndedPiece ==
  ASSUME NEW n \in Nat, NEW s, NEW t, Continues(s, t, n),
         Len(s) \in Nat, Len(t) \in Nat, n <= Len(s), n <= Len(t),
         NEW a \in Nat, NEW d \in a + 1 .. n, Delimits(s, d)
  PROVE  Piece(t, a) = Piece(s, a)
<1>. DEFINE S == {i \in a + 1 .. n : Delimits(s, i)}
<1>1. S \subseteq Nat /\ S # {}
  OBVIOUS
<1>2. PICK e \in S : \A i \in S : e <= i
  <2>. HIDE DEF S
  <2>. QED  BY <1>1, LeastNatural
<1>3. e \in a + 1 .. n /\ e \in Nat /\ Delimits(s, e)
  BY <1>1
<1>4. \A i \in a + 1 .. e - 1 : ~ Delimits(s, i) /\ i \in 1 .. n
  <2>1. SUFFICES ASSUME NEW i \in a + 1 .. e - 1
                 PROVE  ~ Delimits(s, i) /\ i \in 1 .. n
    OBVIOUS
  <2>2. i \in a + 1 .. n /\ ~ (e <= i) /\ i \in 1 .. n
    BY <1>3
  <2>3. i \notin S
    <3>. HIDE DEF S
    <3>. QED  BY <1>2, <2>2
  <2>. QED  BY <2>2, <2>3
<1>. HIDE DEF S
<1>5. AllSame(s, t, n)
  BY ContinuesSame
<1>6. Delimits(t, e) /\ \A i \in a + 1 .. e - 1 : ~ Delimits(t, i)
  <2>1. e \in 1 .. n
    BY <1>3
  <2>. QED  BY <1>3, <1>4, <1>5, <2>1 DEF AllSame
<1>7. e \in a + 1 .. Len(s) + 1 /\ e \in a + 1 .. Len(t) + 1
  BY <1>3
<1>8. End(s, a) = e /\ End(t, a) = e
  BY <1>3, <1>4, <1>6, <1>7, EndIs
<1>9. \A k \in 1 .. e - a - 1 : Says(t, a + k) = Says(s, a + k)
  <2>1. \A k \in 1 .. e - a - 1 : a + k \in 1 .. n
    BY <1>3
  <2>. QED  BY <1>5, <2>1 DEF AllSame
<1>10. [k \in 1 .. e - a - 1 |-> Says(t, a + k)]
         = [k \in 1 .. e - a - 1 |-> Says(s, a + k)]
  BY <1>9
<1>. QED  BY <1>8, <1>10 DEF Piece

-----------------------------------------------------------------------------
(* The pieces in order. *)

Rank(D, c) == Cardinality({d \in D : d <= c})

\* ps has what f gives for the members of D, in their order.
Lists(D, f, ps) ==
  /\ ps \in Seq(Seq(Marks)) /\ Len(ps) = Cardinality(D)
  /\ \A n \in 1 .. Len(ps) : \E c \in D : Rank(D, c) = n /\ ps[n] = f[c]

\* Two members have two ranks.
LEMMA RanksDiffer ==
  ASSUME NEW D \in SUBSET Nat, IsFiniteSet(D), NEW b \in D, NEW c \in D,
         Rank(D, b) = Rank(D, c)
  PROVE  b = c
<1>1. ASSUME NEW x \in D, NEW y \in D, x < y PROVE Rank(D, x) < Rank(D, y)
  <2>. DEFINE X == {d \in D : d <= x}
              Y == {d \in D : d <= y}
  <2>1. IsFiniteSet(X) /\ IsFiniteSet(Y) /\ y \notin X
    <3>1. X \in SUBSET D /\ Y \in SUBSET D
      OBVIOUS
    <3>2. y \notin X
      BY <1>1
    <3>. HIDE DEF X, Y
    <3>. QED  BY <3>1, <3>2, FS_Subset
  <2>2. X \union {y} \in SUBSET Y
    <3>1. ASSUME NEW d \in D, d <= x PROVE d <= y
      BY <1>1, <3>1
    <3>2. y <= y
      OBVIOUS
    <3>. QED  BY <3>1, <3>2
  <2>. HIDE DEF X, Y
  <2>3. Cardinality(X \union {y}) = Cardinality(X) + 1
    BY <2>1, FS_AddElement
  <2>4. Cardinality(X \union {y}) <= Cardinality(Y)
    BY <2>1, <2>2, FS_Subset
  <2>5. Cardinality(X) \in Nat /\ Cardinality(Y) \in Nat
    BY <2>1, FS_CardinalityType
  <2>6. Rank(D, x) = Cardinality(X) /\ Rank(D, y) = Cardinality(Y)
    BY DEF Rank, X, Y
  <2>. QED  BY <2>3, <2>4, <2>5, <2>6
<1>2. Rank(D, b) \in Nat
  <2>1. {d \in D : d <= b} \in SUBSET D
    OBVIOUS
  <2>. QED  BY <2>1, FS_Subset, FS_CardinalityType DEF Rank
<1>3. ~ (b < c) /\ ~ (c < b)
  BY <1>1, <1>2
<1>. QED  BY <1>3

OfRank(D, k) == CHOOSE c \in D : Cardinality({d \in D : d <= c}) = k

\* A list is the one that takes each rank's member.
LEMMA ListIs ==
  ASSUME NEW D \in SUBSET Nat, IsFiniteSet(D), NEW f, NEW ps, Lists(D, f, ps)
  PROVE  ps = [n \in 1 .. Cardinality(D) |-> f[OfRank(D, n)]]
<1>1. ps \in Seq(Seq(Marks)) /\ Len(ps) = Cardinality(D)
  BY DEF Lists
<1>2. ASSUME NEW n \in 1 .. Cardinality(D) PROVE ps[n] = f[OfRank(D, n)]
  <2>1. PICK c \in D : Rank(D, c) = n /\ ps[n] = f[c]
    BY <1>1 DEF Lists
  <2>2. OfRank(D, n) \in D /\ Rank(D, OfRank(D, n)) = n
    BY <2>1, Zenon DEF OfRank, Rank
  <2>3. OfRank(D, n) = c
    BY <2>1, <2>2, RanksDiffer
  <2>. QED  BY <2>1, <2>3
<1>3. ps = [n \in 1 .. Cardinality(D) |-> ps[n]]
  BY <1>1
<1>4. ps = [n \in 1 .. Cardinality(D) |-> f[OfRank(D, n)]]
  BY <1>2, <1>3, Zenon
<1>. QED  BY <1>4

\* A member behind the others comes last.
LEMMA ListsMore ==
  ASSUME NEW D \in SUBSET Nat, IsFiniteSet(D), NEW l \in Nat,
         \A d \in D : d < l, NEW f, NEW ps, Lists(D, f, ps),
         f[l] \in Seq(Marks)
  PROVE  Lists(D \union {l}, f, Append(ps, f[l]))
<1>. DEFINE more == D \union {l}
            qs == Append(ps, f[l])
            n == Len(ps)
<1>1. l \notin D
  OBVIOUS
<1>2. Cardinality(more) = Cardinality(D) + 1 /\ Cardinality(D) \in Nat
  BY <1>1, FS_AddElement, FS_CardinalityType
<1>3. ps \in Seq(Seq(Marks)) /\ n = Cardinality(D)
  BY DEF Lists
<1>4. /\ qs \in Seq(Seq(Marks)) /\ Len(qs) = n + 1 /\ qs[n + 1] = f[l]
      /\ \A i \in 1 .. n : qs[i] = ps[i]
  BY <1>3
<1>5. ASSUME NEW c \in D PROVE Rank(more, c) = Rank(D, c)
  <2>1. {d \in more : d <= c} = {d \in D : d <= c}
    OBVIOUS
  <2>. QED  BY <2>1 DEF Rank
<1>6. Rank(more, l) = n + 1
  <2>1. \A d \in more : d <= l
    OBVIOUS
  <2>2. {d \in more : d <= l} = more
    <3>. HIDE DEF more
    <3>. QED  BY <2>1, Zenon
  <2>. QED  BY <1>2, <1>3, <2>2 DEF Rank
<1>7. l \in more /\ \A c \in D : c \in more
  OBVIOUS
<1>. HIDE DEF more, qs, n
<1>8. ASSUME NEW i \in 1 .. n + 1
      PROVE  \E c \in more : Rank(more, c) = i /\ qs[i] = f[c]
  <2>1. CASE i = n + 1
    BY <1>4, <1>6, <1>7, <2>1
  <2>2. CASE i \in 1 .. n
    <3>1. PICK c \in D : Rank(D, c) = i /\ ps[i] = f[c]
      BY <2>2 DEF Lists, n
    <3>. QED  BY <1>4, <1>5, <1>7, <2>2, <3>1
  <2>3. n \in Nat
    BY <1>2, <1>3
  <2>. QED  BY <2>1, <2>2, <2>3
<1>9. Lists(more, f, qs)
  BY <1>2, <1>3, <1>4, <1>8 DEF Lists
<1>. QED  BY <1>9 DEF more, qs

\* The lists of two functions alike on D are the same.
LEMMA ListsAlike ==
  ASSUME NEW D, NEW f, NEW g, NEW ps, Lists(D, f, ps), \A c \in D : g[c] = f[c]
  PROVE  Lists(D, g, ps)
BY DEF Lists

-----------------------------------------------------------------------------
(* Splitting. *)

PiecesOf(s) == [c \in Nat |-> Piece(s, c)]
Pushed(ps, tok) == IF tok = <<>> THEN ps ELSE Append(ps, tok)

\* What the splitting has made of s: tok is what is said since the last
\* delimiter, ps the pieces before that.
SplitAt(s, last, tok, q, ps) ==
  /\ last \in 0 .. Len(s)
  /\ last # 0 => Delimits(s, last)
  /\ \A i \in last + 1 .. Len(s) : ~ Delimits(s, i)
  /\ tok = Said(s, last, Len(s) - last)
  /\ q \in BOOLEAN /\ (q <=> Quoted(s, Len(s) + 1))
  /\ Lists(FilledCuts(s) \ {last}, PiecesOf(s), ps)

LEMMA CutsAre ==
  ASSUME NEW s, Len(s) \in Nat
  PROVE  /\ Cuts(s) \in SUBSET (0 .. Len(s)) /\ Cuts(s) \in SUBSET Nat
         /\ \A D \in SUBSET Cuts(s) : D \in SUBSET Nat /\ IsFiniteSet(D)
<1>1. Cuts(s) \in SUBSET (0 .. Len(s))
  BY DEF Cuts
<1>2. IsFiniteSet(0 .. Len(s))
  BY FS_Interval
<1>3. 0 .. Len(s) \in SUBSET Nat
  OBVIOUS
<1>4. \A D \in SUBSET Cuts(s) : D \in SUBSET (0 .. Len(s))
  BY <1>1
<1>. QED  BY <1>1, <1>2, <1>3, <1>4, FS_Subset

\* The other cuts are before the last, a delimiter.
LEMMA EarlierCuts ==
  ASSUME NEW s, Len(s) \in Nat, NEW last, NEW tok, NEW q, NEW ps,
         SplitAt(s, last, tok, q, ps), NEW c \in Cuts(s) \ {last}
  PROVE  /\ c \in Nat /\ last \in c + 1 .. Len(s) /\ Delimits(s, last)
<1>1. /\ last \in 0 .. Len(s) /\ (last # 0 => Delimits(s, last))
      /\ \A i \in last + 1 .. Len(s) : ~ Delimits(s, i)
  BY DEF SplitAt
<1>2. c \in 0 .. Len(s) /\ c # last /\ (c # 0 => Delimits(s, c))
  BY DEF Cuts
<1>3. c < last
  <2>1. SUFFICES ASSUME ~ (c < last) PROVE FALSE
    OBVIOUS
  <2>2. c \in last + 1 .. Len(s) /\ c # 0
    BY <1>1, <1>2, <2>1
  <2>. QED  BY <1>1, <1>2, <2>2
<1>. QED  BY <1>1, <1>2, <1>3

\* One character more.
LEMMA OneMore ==
  ASSUME NEW s \in Seq(Chars), NEW x \in Chars
  PROVE  /\ Append(s, x) \in Seq(Chars) /\ Len(Append(s, x)) = Len(s) + 1
         /\ Append(s, x)[Len(s) + 1] = x /\ Len(s) \in Nat
         /\ AllSame(s, Append(s, x), Len(s)) /\ Continues(s, Append(s, x), Len(s))
<1>1. /\ Append(s, x) \in Seq(Chars) /\ Len(Append(s, x)) = Len(s) + 1
      /\ Append(s, x)[Len(s) + 1] = x /\ Len(s) \in Nat
      /\ Continues(s, Append(s, x), Len(s))
  BY DEF Continues
<1>. QED  BY <1>1, ContinuesSame

\* What is said up to a place stays.
LEMMA SaidStays ==
  ASSUME NEW n \in Nat, NEW s, NEW t, AllSame(s, t, n),
         NEW a \in 0 .. n
  PROVE  Said(t, a, n - a) = Said(s, a, n - a)
<1>1. \A k \in 1 .. n - a : a + k \in 1 .. n
  OBVIOUS
<1>2. \A k \in 1 .. n - a : Says(t, a + k) = Says(s, a + k)
  BY <1>1 DEF AllSame
<1>. QED  BY <1>2 DEF Said

\* The pieces before the last do not change, and the last is pushed if there is
\* something in it.
LEMMA LastIsPushed ==
  ASSUME NEW s, Len(s) \in Nat, NEW last, NEW tok \in Seq(Marks), NEW q, NEW ps,
         SplitAt(s, last, tok, q, ps), NEW t,
         \A c \in Cuts(s) \ {last} : Piece(t, c) = Piece(s, c),
         Piece(t, last) = tok
  PROVE  Lists({c \in Cuts(s) : Piece(t, c) # <<>>}, PiecesOf(t), Pushed(ps, tok))
<1>. DEFINE before == FilledCuts(s) \ {last}
            all == {c \in Cuts(s) : Piece(t, c) # <<>>}
<1>1. before = {c \in Cuts(s) \ {last} : Piece(t, c) # <<>>}
  BY DEF FilledCuts
<1>2. before \in SUBSET Cuts(s)
  BY <1>1
<1>3. before \in SUBSET Nat /\ IsFiniteSet(before) /\ Cuts(s) \in SUBSET Nat
  BY <1>2, CutsAre
<1>4. last \in Cuts(s) /\ last \in Nat
  BY DEF SplitAt, Cuts
<1>5. Lists(before, PiecesOf(t), ps)
  <2>1. Lists(before, PiecesOf(s), ps)
    BY DEF SplitAt
  <2>2. \A c \in before : PiecesOf(t)[c] = PiecesOf(s)[c]
    <3>1. \A c \in before : c \in Nat /\ c \in Cuts(s) \ {last}
      BY <1>1, <1>3
    <3>. HIDE DEF before
    <3>. QED  BY <3>1 DEF PiecesOf
  <2>. HIDE DEF before
  <2>. QED  BY <2>1, <2>2, ListsAlike
<1>6. PiecesOf(t)[last] = tok
  BY <1>4 DEF PiecesOf
<1>7. CASE tok = <<>>
  <2>1. all = before
    BY <1>1, <1>7
  <2>. HIDE DEF all, before
  <2>2. Pushed(ps, tok) = ps
    BY <1>7 DEF Pushed
  <2>. QED  BY <1>5, <2>1, <2>2 DEF all
<1>8. CASE tok # <<>>
  <2>1. all = before \union {last}
    BY <1>1, <1>4, <1>8
  <2>2. \A c \in before : c < last
    <3>1. \A c \in before : c \in Cuts(s) \ {last}
      BY <1>1
    <3>2. \A c \in before : c \in Nat /\ last \in c + 1 .. Len(s)
      <4>. HIDE DEF before
      <4>. QED  BY <3>1, EarlierCuts
    <3>. HIDE DEF before
    <3>. QED  BY <1>4, <3>2
  <2>3. Pushed(ps, tok) = Append(ps, PiecesOf(t)[last])
    BY <1>6, <1>8 DEF Pushed
  <2>4. PiecesOf(t)[last] \in Seq(Marks)
    BY <1>6
  <2>. DEFINE f == PiecesOf(t)
  <2>. HIDE DEF all, before, f
  <2>5. Lists(before \union {last}, f, Append(ps, f[last]))
    BY <1>3, <1>4, <1>5, <2>2, <2>4, ListsMore DEF f
  <2>. QED  BY <2>1, <2>3, <2>5 DEF all, f
<1>. QED  BY <1>7, <1>8

\* A character that does not delimit is said, or it begins or ends quotes.
LEMMA CharStays ==
  ASSUME NEW s \in Seq(Chars), NEW x \in Chars, NEW last, NEW tok, NEW q, NEW ps,
         SplitAt(s, last, tok, q, ps), ~ Delimits(Append(s, x), Len(s) + 1)
  PROVE  SplitAt(Append(s, x), last, tok \o Says(Append(s, x), Len(s) + 1),
            IF Is(Append(s, x), "q", Len(s) + 1) THEN ~ q ELSE q, ps)
<1>. DEFINE t == Append(s, x)
            n == Len(s)
            r == IF Is(t, "q", n + 1) THEN ~ q ELSE q
<1>1. /\ t \in Seq(Chars) /\ Len(t) = n + 1 /\ t[n + 1] = x /\ n \in Nat
      /\ AllSame(s, t, n) /\ Continues(s, t, n)
  BY OneMore
<1>2. /\ last \in 0 .. n /\ (last # 0 => Delimits(s, last))
      /\ \A i \in last + 1 .. n : ~ Delimits(s, i)
      /\ tok = Said(s, last, n - last)
      /\ q \in BOOLEAN /\ (q <=> Quoted(s, n + 1))
      /\ Lists(FilledCuts(s) \ {last}, PiecesOf(s), ps)
  BY DEF SplitAt
<1>. HIDE DEF t, n
<1>3. last \in 0 .. n + 1 /\ (last # 0 => Delimits(t, last))
  <2>1. last \in 0 .. n + 1 /\ (last # 0 => last \in 1 .. n)
    BY <1>1, <1>2
  <2>. QED  BY <1>1, <1>2, <2>1 DEF AllSame
<1>4. ASSUME NEW i \in last + 1 .. n + 1 PROVE ~ Delimits(t, i)
  <2>1. CASE i = n + 1
    BY <2>1 DEF t, n
  <2>2. CASE i # n + 1
    <3>1. i \in last + 1 .. n /\ i \in 1 .. n
      BY <1>1, <1>2, <2>2
    <3>. QED  BY <1>1, <1>2, <3>1 DEF AllSame
  <2>. QED  BY <2>1, <2>2
<1>5. tok \o Says(t, n + 1) = Said(t, last, n + 1 - last)
  <2>1. Said(t, last, n - last) = tok
    BY <1>1, <1>2, SaidStays
  <2>. DEFINE m == n - last
  <2>2. m \in Nat /\ last \in Nat /\ last + m + 1 <= Len(t) /\ last + m <= Len(t)
        /\ last + m + 1 = n + 1 /\ m + 1 = n + 1 - last
    BY <1>1, <1>2
  <2>. HIDE DEF m
  <2>3. Said(t, last, m + 1) = Said(t, last, m) \o Says(t, last + m + 1)
    BY <1>1, <2>2, SaidIs
  <2>. QED  BY <2>1, <2>2, <2>3 DEF m
<1>6. r \in BOOLEAN /\ (r <=> Quoted(t, n + 1 + 1))
  <2>1. n + 1 \in 1 .. n + 1 /\ n + 1 \in Nat /\ n + 1 >= 1
    BY <1>1
  <2>2. Quoted(t, n + 1) <=> q
    BY <1>1, <1>2, <2>1 DEF AllSame
  <2>3. /\ Is(t, "q", n + 1) => (Quoted(t, n + 1 + 1) <=> ~ Quoted(t, n + 1))
        /\ ~ Is(t, "q", n + 1) => (Quoted(t, n + 1 + 1) <=> Quoted(t, n + 1))
    BY <2>1, QuotedNext
  <2>. QED  BY <1>2, <2>2, <2>3
<1>. HIDE DEF r
<1>7. ASSUME NEW c \in Cuts(s) \ {last} PROVE Piece(t, c) = Piece(s, c)
  <2>1. c \in Nat /\ last \in c + 1 .. n /\ Delimits(s, last)
    BY <1>1, EarlierCuts DEF n
  <2>. QED  BY <1>1, <2>1, EndedPiece DEF n
<1>8. Cuts(t) = Cuts(s)
  <2>1. {i \in 1 .. n + 1 : Delimits(t, i)} = {i \in 1 .. n : Delimits(s, i)}
    <3>1. ~ Delimits(t, n + 1)
      BY DEF t, n
    <3>2. 1 .. n + 1 = (1 .. n) \union {n + 1}
      BY <1>1
    <3>. QED  BY <1>1, <3>1, <3>2 DEF AllSame
  <2>. QED  BY <1>1, <2>1 DEF Cuts, n
<1>9. FilledCuts(t) \ {last} = FilledCuts(s) \ {last}
  BY <1>7, <1>8 DEF FilledCuts
<1>10. Lists(FilledCuts(t) \ {last}, PiecesOf(t), ps)
  <2>1. Cuts(s) \in SUBSET Nat
    BY <1>1, CutsAre DEF n
  <2>2. \A c \in FilledCuts(s) \ {last} : PiecesOf(t)[c] = PiecesOf(s)[c]
    BY <1>7, <2>1 DEF PiecesOf, FilledCuts
  <2>. DEFINE D == FilledCuts(s) \ {last}
  <2>3. Lists(D, PiecesOf(s), ps)
    BY <1>2
  <2>. HIDE DEF D
  <2>4. Lists(D, PiecesOf(t), ps)
    BY <2>2, <2>3, ListsAlike DEF D
  <2>. QED  BY <1>9, <2>4 DEF D
<1>. DEFINE said == tok \o Says(t, n + 1)
<1>11. said = Said(t, last, Len(t) - last)
  <2>1. said = Said(t, last, n + 1 - last)
    BY <1>5, Zenon
  <2>2. n + 1 - last = Len(t) - last
    BY <1>1, <1>2
  <2>. HIDE DEF said
  <2>. QED  BY <2>1, <2>2, Zenon
<1>. HIDE DEF said
<1>12. SplitAt(t, last, said, r, ps)
  BY <1>1, <1>3, <1>4, <1>6, <1>10, <1>11 DEF SplitAt
<1>. QED  BY <1>12 DEF said, r, t, n

\* crtTok is made of what is said.
LEMMA TokIs ==
  ASSUME NEW s \in Seq(Chars), NEW last, NEW tok, NEW q, NEW ps,
         SplitAt(s, last, tok, q, ps)
  PROVE  tok \in Seq(Marks)
<1>1. last \in 0 .. Len(s) /\ tok = Said(s, last, Len(s) - last)
  BY DEF SplitAt
<1>. DEFINE m == Len(s) - last
<1>2. m \in Nat /\ last \in Nat /\ last + m <= Len(s)
  BY <1>1, LenProperties
<1>. HIDE DEF m
<1>3. Said(s, last, m) \in Seq(Marks)
  BY <1>2, SaidIs
<1>. QED  BY <1>1, <1>3 DEF m

\* A delimiter ends a piece, and begins the next behind it.
LEMMA CharCuts ==
  ASSUME NEW s \in Seq(Chars), NEW x \in Chars, NEW last, NEW tok, NEW q, NEW ps,
         SplitAt(s, last, tok, q, ps), Delimits(Append(s, x), Len(s) + 1)
  PROVE  SplitAt(Append(s, x), Len(s) + 1, <<>>, q, Pushed(ps, tok))
<1>. DEFINE t == Append(s, x)
            n == Len(s)
<1>1. /\ t \in Seq(Chars) /\ Len(t) = n + 1 /\ t[n + 1] = x /\ n \in Nat
      /\ AllSame(s, t, n) /\ Continues(s, t, n)
  BY OneMore
<1>2. /\ last \in 0 .. n
      /\ \A i \in last + 1 .. n : ~ Delimits(s, i)
      /\ tok = Said(s, last, n - last)
      /\ q \in BOOLEAN /\ (q <=> Quoted(s, n + 1))
  BY DEF SplitAt
<1>3. Delimits(t, n + 1)
  OBVIOUS
<1>4. s \in Seq(Chars) /\ Len(s) = n
  OBVIOUS
<1>. HIDE DEF t, n
<1>5. tok \in Seq(Marks)
  BY TokIs
<1>6. Piece(t, last) = tok
  <2>1. /\ last \in Nat /\ n + 1 \in last + 1 .. Len(t) + 1
        /\ Len(t) \in Nat /\ n + 1 - last - 1 = n - last
    BY <1>1, <1>2
  <2>2. \A i \in last + 1 .. n + 1 - 1 : ~ Delimits(t, i)
    <3>1. SUFFICES ASSUME NEW i \in last + 1 .. n + 1 - 1
                   PROVE  ~ Delimits(t, i)
      OBVIOUS
    <3>2. i \in last + 1 .. n /\ i \in 1 .. n
      BY <1>1, <1>2
    <3>. QED  BY <1>1, <1>2, <3>2 DEF AllSame
  <2>3. End(t, last) = n + 1
    <3>. DEFINE e == n + 1
    <3>1. /\ e \in last + 1 .. Len(t) + 1 /\ Delimits(t, e)
          /\ \A i \in last + 1 .. e - 1 : ~ Delimits(t, i)
      BY <1>1, <1>3, <2>1, <2>2
    <3>. HIDE DEF e
    <3>2. End(t, last) = e
      BY <2>1, <3>1, EndIs
    <3>. QED  BY <3>2 DEF e
  <2>4. Piece(t, last) = Said(t, last, n - last)
    <3>1. Piece(t, last) = Said(t, last, End(t, last) - last - 1)
      BY Zenon DEF Piece, Said
    <3>2. End(t, last) - last - 1 = n - last
      BY <1>1, <2>1, <2>3
    <3>. QED  BY <3>1, <3>2, Zenon
  <2>. QED  BY <1>1, <1>2, <2>4, SaidStays
<1>7. ASSUME NEW c \in Cuts(s) \ {last} PROVE Piece(t, c) = Piece(s, c)
  <2>1. c \in Nat /\ last \in c + 1 .. n /\ Delimits(s, last)
    BY <1>1, <1>4, EarlierCuts
  <2>. QED  BY <1>1, <1>4, <2>1, EndedPiece
<1>8. FilledCuts(t) \ {n + 1} = {c \in Cuts(s) : Piece(t, c) # <<>>}
  <2>1. {i \in 1 .. n + 1 : Delimits(t, i)}
          = {i \in 1 .. n : Delimits(s, i)} \union {n + 1}
    <3>1. 1 .. n + 1 = (1 .. n) \union {n + 1}
      BY <1>1
    <3>. QED  BY <1>1, <1>3, <3>1 DEF AllSame
  <2>2. Cuts(t) = Cuts(s) \union {n + 1}
    BY <1>1, <1>4, <2>1 DEF Cuts
  <2>3. n + 1 \notin Cuts(s)
    BY <1>1, <1>4 DEF Cuts
  <2>. QED  BY <2>2, <2>3 DEF FilledCuts
<1>9. Lists(FilledCuts(t) \ {n + 1}, PiecesOf(t), Pushed(ps, tok))
  BY <1>1, <1>4, <1>5, <1>6, <1>7, <1>8, LastIsPushed
<1>10. q <=> Quoted(t, n + 1 + 1)
  <2>1. n + 1 \in 1 .. n + 1 /\ n + 1 \in Nat /\ n + 1 >= 1
    BY <1>1
  <2>2. Quoted(t, n + 1) <=> q
    BY <1>1, <1>2, <2>1 DEF AllSame
  <2>3. ~ Is(t, "q", n + 1)
    BY <1>3 DEF Delimits, Is
  <2>. QED  BY <2>1, <2>2, <2>3, QuotedNext
<1>11. Said(t, n + 1, Len(t) - (n + 1)) = <<>>
  <2>1. Len(t) - (n + 1) = 0 /\ n + 1 \in Nat /\ n + 1 + 0 <= Len(t)
    BY <1>1
  <2>2. Said(t, n + 1, 0) = <<>>
    BY <1>1, <2>1, SaidIs
  <2>. QED  BY <2>1, <2>2
<1>12. /\ n + 1 \in 0 .. Len(t) /\ Len(t) + 1 = n + 1 + 1
       /\ \A i \in n + 1 + 1 .. Len(t) : FALSE
  BY <1>1
<1>13. SplitAt(t, n + 1, <<>>, q, Pushed(ps, tok))
  BY <1>2, <1>3, <1>9, <1>10, <1>11, <1>12 DEF SplitAt
<1>. QED  BY <1>13 DEF t, n

\* At the end of a line the last piece is pushed, and there are all of them.
LEMMA LineEnds ==
  ASSUME NEW s \in Seq(Chars), NEW last, NEW tok, NEW q, NEW ps,
         SplitAt(s, last, tok, q, ps)
  PROVE  Pushed(ps, tok) = Written(s)
<1>. DEFINE n == Len(s)
<1>1. /\ last \in 0 .. n /\ n \in Nat
      /\ \A i \in last + 1 .. n : ~ Delimits(s, i)
      /\ tok = Said(s, last, n - last)
  BY DEF SplitAt
<1>2. tok \in Seq(Marks)
  BY TokIs
<1>3. Piece(s, last) = tok
  <2>1. /\ last \in Nat /\ n + 1 \in last + 1 .. n + 1
        /\ n + 1 - last - 1 = n - last /\ n + 1 - 1 = n
    BY <1>1
  <2>2. End(s, last) = n + 1
    BY <1>1, <2>1, EndIs
  <2>. QED  BY <1>1, <2>1, <2>2 DEF Piece, Said
<1>4. {c \in Cuts(s) : Piece(s, c) # <<>>} = FilledCuts(s)
  BY DEF FilledCuts
<1>5. Lists(FilledCuts(s), PiecesOf(s), Pushed(ps, tok))
  <2>1. Lists({c \in Cuts(s) : Piece(s, c) # <<>>}, PiecesOf(s), Pushed(ps, tok))
    BY <1>1, <1>2, <1>3, LastIsPushed
  <2>. QED  BY <1>4, <2>1
<1>. DEFINE D == FilledCuts(s)
            f == PiecesOf(s)
<1>6. D \in SUBSET Nat /\ IsFiniteSet(D)
  <2>1. D \in SUBSET Cuts(s)
    BY DEF FilledCuts
  <2>. HIDE DEF D
  <2>. QED  BY <1>1, <2>1, CutsAre
<1>7. Lists(D, f, Pushed(ps, tok))
  BY <1>5
<1>8. Pushed(ps, tok) = [k \in 1 .. Cardinality(D) |-> f[OfRank(D, k)]]
  <2>. HIDE DEF D, f
  <2>. QED  BY <1>6, <1>7, ListIs
<1>9. ASSUME NEW k \in 1 .. Cardinality(D) PROVE OfRank(D, k) \in Nat
  <2>. HIDE DEF D
  <2>1. \E c \in D : Rank(D, c) = k
    BY <1>7, <1>9 DEF Lists
  <2>2. OfRank(D, k) \in D
    BY <2>1, Zenon DEF Rank, OfRank
  <2>. QED  BY <1>6, <2>2
<1>10. \A k \in 1 .. Cardinality(D) : f[OfRank(D, k)] = Piece(s, OfRank(D, k))
  <2>. HIDE DEF D
  <2>. QED  BY <1>9 DEF PiecesOf
<1>11. Written(s) = [k \in 1 .. Cardinality(D) |-> Piece(s, OfRank(D, k))]
  BY Zenon DEF Written, OfRank
<1>. HIDE DEF D, f
<1>. QED  BY <1>8, <1>10, <1>11, Zenon

\* A character that is not escaped.
LEMMA PlainChar ==
  ASSUME NEW s \in Seq(Chars), NEW x \in Chars, ~ Escaped(s, Len(s) + 1),
         NEW t, t = Append(s, x)
  PROVE  /\ t \in Seq(Chars) /\ Len(t) = Len(s) + 1
         /\ Escaped(t, Len(t) + 1) <=> x = "\\"
         /\ \A c : Is(t, c, Len(s) + 1) <=> x = c
         /\ Says(t, Len(s) + 1) = IF x \in {"q", "\\"} THEN <<>> ELSE <<x>>
         /\ Delimits(t, Len(s) + 1) <=> x = " " /\ ~ Quoted(s, Len(s) + 1)
<1>. DEFINE n == Len(s)
<1>1. /\ t \in Seq(Chars) /\ Len(t) = n + 1 /\ t[n + 1] = x /\ n \in Nat
      /\ AllSame(s, t, n)
  BY OneMore
<1>2. n + 1 \in 1 .. n + 1 /\ n + 1 \in Nat /\ n + 1 >= 1
  BY <1>1
<1>. HIDE DEF n
<1>3. ~ Escaped(t, n + 1) /\ (Quoted(t, n + 1) <=> Quoted(s, n + 1))
  BY <1>1, <1>2 DEF AllSame, n
<1>4. Escaped(t, n + 1 + 1) <=> x = "\\"
  BY <1>1, <1>2, <1>3, EscapedNext
<1>5. \A c : Is(t, c, n + 1) <=> x = c
  BY <1>1, <1>3 DEF Is
<1>6. Says(t, n + 1) = IF x \in {"q", "\\"} THEN <<>> ELSE <<x>>
  BY <1>1, <1>3, <1>5 DEF Says
<1>7. Delimits(t, n + 1) <=> x = " " /\ ~ Quoted(s, n + 1)
  BY <1>3, <1>5 DEF Delimits
<1>. QED  BY <1>1, <1>4, <1>5, <1>6, <1>7 DEF n

\* An escaped one is said, whatever it is.
LEMMA EscapedChar ==
  ASSUME NEW s \in Seq(Chars), NEW x \in Chars, Escaped(s, Len(s) + 1),
         NEW t, t = Append(s, x)
  PROVE  /\ t \in Seq(Chars) /\ Len(t) = Len(s) + 1
         /\ ~ Escaped(t, Len(t) + 1)
         /\ \A c : ~ Is(t, c, Len(s) + 1)
         /\ Says(t, Len(s) + 1) = <<Morph(x)>>
         /\ ~ Delimits(t, Len(s) + 1)
<1>. DEFINE n == Len(s)
<1>1. /\ t \in Seq(Chars) /\ Len(t) = n + 1 /\ t[n + 1] = x /\ n \in Nat
      /\ AllSame(s, t, n)
  BY OneMore
<1>2. n + 1 \in 1 .. n + 1 /\ n + 1 \in Nat /\ n + 1 >= 1
  BY <1>1
<1>. HIDE DEF n
<1>3. Escaped(t, n + 1)
  BY <1>1, <1>2 DEF AllSame, n
<1>4. ~ Escaped(t, n + 1 + 1)
  BY <1>1, <1>2, <1>3, EscapedNext
<1>5. \A c : ~ Is(t, c, n + 1)
  BY <1>3 DEF Is
<1>6. Says(t, n + 1) = <<Morph(x)>>
  BY <1>1, <1>3, <1>5 DEF Says
<1>7. ~ Delimits(t, n + 1)
  BY <1>5 DEF Delimits
<1>. QED  BY <1>1, <1>4, <1>5, <1>6, <1>7 DEF n

\* Nothing of a line has been read.
LEMMA AtStart == ASSUME NEW s, s = <<>> PROVE SplitAt(s, 0, <<>>, FALSE, <<>>)
<1>1. /\ s \in Seq(Chars) /\ <<>> \in Seq(Seq(Marks)) /\ Len(<<>>) = 0
      /\ Len(s) = 0 /\ Len(s) - 0 = 0 /\ Len(s) + 1 = 1
  BY EmptySeq
<1>2. Said(s, 0, Len(s) - 0) = <<>>
  <2>. DEFINE z == 0
  <2>1. z \in Nat /\ z + z <= Len(s)
    BY <1>1
  <2>. HIDE DEF z
  <2>2. Said(s, z, 0) = <<>>
    BY <1>1, <2>1, SaidIs
  <2>. QED  BY <1>1, <2>2 DEF z
<1>3. ~ Quoted(s, Len(s) + 1)
  BY <1>1, NothingBefore
<1>4. FilledCuts(s) \ {0} = {}
  BY <1>1 DEF FilledCuts, Cuts
<1>5. Cardinality({}) = 0
  BY FS_EmptySet
<1>6. Lists(FilledCuts(s) \ {0}, PiecesOf(s), <<>>)
  <2>1. \A k \in 1 .. Len(<<>>) : FALSE
    BY <1>1
  <2>2. Len(<<>>) = Cardinality({})
    BY <1>1, <1>5
  <2>. QED  BY <1>1, <1>4, <2>1, <2>2, Zenon DEF Lists
<1>7. 0 \in 0 .. Len(s) /\ \A i \in 0 + 1 .. Len(s) : FALSE
  BY <1>1
<1>. QED  BY <1>2, <1>3, <1>6, <1>7, Zenon DEF SplitAt

\* What has been read is never left escaped, and crtTok and pieces are what
\* it says.
Splits(s, tok, q, ps) ==
  /\ ~ Escaped(s, Len(s) + 1)
  /\ \E last : SplitAt(s, last, tok, q, ps)

SplitInv ==
  /\ text \in Seq(Chars)
  /\ stage = "idle" => text = <<>> /\ crtTok = <<>> /\ inQte = FALSE /\ pieces = <<>>
  /\ stage = "split" => inQte \in BOOLEAN /\ Splits(text, crtTok, inQte, pieces)
  /\ SplitAsWritten

\* A character that is said, and does not delimit.
LEMMA SaidChar ==
  ASSUME NEW s \in Seq(Chars), NEW x \in Chars \ {"q", "\\"}, NEW tok, NEW q, NEW ps,
         Splits(s, tok, q, ps), x = " " => q
  PROVE  Splits(Append(s, x), Append(tok, x), q, ps)
<1>. DEFINE t == Append(s, x)
            n == Len(s)
<1>1. PICK last : SplitAt(s, last, tok, q, ps)
  BY DEF Splits
<1>2. ~ Escaped(s, n + 1)
  BY DEF Splits
<1>3. q <=> Quoted(s, n + 1)
  BY <1>1 DEF SplitAt
<1>4. /\ Len(t) = n + 1 /\ ~ Escaped(t, Len(t) + 1) /\ ~ Is(t, "q", n + 1)
      /\ Says(t, n + 1) = <<x>> /\ ~ Delimits(t, n + 1)
  <2>1. /\ Len(t) = n + 1
        /\ Escaped(t, Len(t) + 1) <=> x = "\\"
        /\ \A c : Is(t, c, n + 1) <=> x = c
        /\ Says(t, n + 1) = IF x \in {"q", "\\"} THEN <<>> ELSE <<x>>
        /\ Delimits(t, n + 1) <=> x = " " /\ ~ Quoted(s, n + 1)
    BY <1>2, PlainChar
  <2>. HIDE DEF t, n
  <2>. QED  BY <1>3, <2>1
<1>5. SplitAt(t, last, tok \o <<x>>, q, ps)
  <2>1. SplitAt(t, last, tok \o Says(t, n + 1), IF Is(t, "q", n + 1) THEN ~ q ELSE q, ps)
    BY <1>1, <1>4, CharStays
  <2>. HIDE DEF t, n
  <2>. QED  BY <1>4, <2>1
<1>6. tok \in Seq(Marks) /\ x \in Marks
  BY <1>1, TokIs DEF Marks
<1>7. tok \o <<x>> = Append(tok, x)
  BY <1>6, AppendIsConcat
<1>. HIDE DEF t, n
<1>8. Splits(t, Append(tok, x), q, ps)
  BY <1>4, <1>5, <1>7 DEF Splits
<1>. QED  BY <1>8 DEF t

\* A delimiter that nothing protects.
LEMMA CutChar ==
  ASSUME NEW s \in Seq(Chars), NEW tok, NEW q, NEW ps,
         Splits(s, tok, q, ps), ~ q
  PROVE  Splits(Append(s, " "), <<>>, q, Pushed(ps, tok))
<1>. DEFINE t == Append(s, " ")
            n == Len(s)
<1>1. PICK last : SplitAt(s, last, tok, q, ps)
  BY DEF Splits
<1>2. ~ Escaped(s, n + 1) /\ " " \in Chars
  BY DEF Splits, Chars
<1>3. ~ Quoted(s, n + 1)
  BY <1>1 DEF SplitAt
<1>4. Len(t) = n + 1 /\ ~ Escaped(t, Len(t) + 1) /\ Delimits(t, n + 1)
  <2>1. /\ Len(t) = n + 1
        /\ Escaped(t, Len(t) + 1) <=> " " = "\\"
        /\ Delimits(t, n + 1) <=> " " = " " /\ ~ Quoted(s, n + 1)
    BY <1>2, PlainChar
  <2>. HIDE DEF t, n
  <2>. QED  BY <1>3, <2>1
<1>5. SplitAt(t, n + 1, <<>>, q, Pushed(ps, tok))
  BY <1>1, <1>2, <1>4, CharCuts
<1>. HIDE DEF t, n
<1>6. Splits(t, <<>>, q, Pushed(ps, tok))
  BY <1>4, <1>5 DEF Splits
<1>. QED  BY <1>6 DEF t

\* A quote, or an escape, is not said; after an escape, the next character is.
LEMMA SilentChar ==
  ASSUME NEW s \in Seq(Chars), NEW x \in {"q", "\\"}, ~ Escaped(s, Len(s) + 1),
         NEW last, NEW tok, NEW q, NEW ps, SplitAt(s, last, tok, q, ps)
  PROVE  /\ Append(s, x) \in Seq(Chars)
         /\ Escaped(Append(s, x), Len(Append(s, x)) + 1) <=> x = "\\"
         /\ SplitAt(Append(s, x), last, tok, IF x = "q" THEN ~ q ELSE q, ps)
<1>. DEFINE t == Append(s, x)
            n == Len(s)
<1>1. x \in Chars
  BY DEF Chars
<1>2. /\ t \in Seq(Chars)
      /\ Escaped(t, Len(t) + 1) <=> x = "\\"
      /\ \A c : Is(t, c, n + 1) <=> x = c
      /\ Says(t, n + 1) = <<>> /\ ~ Delimits(t, n + 1)
  <2>1. /\ t \in Seq(Chars)
        /\ Escaped(t, Len(t) + 1) <=> x = "\\"
        /\ \A c : Is(t, c, n + 1) <=> x = c
        /\ Says(t, n + 1) = IF x \in {"q", "\\"} THEN <<>> ELSE <<x>>
        /\ Delimits(t, n + 1) <=> x = " " /\ ~ Quoted(s, n + 1)
    BY <1>1, PlainChar
  <2>. HIDE DEF t, n
  <2>. QED  BY <2>1
<1>3. SplitAt(t, last, tok \o Says(t, n + 1), IF Is(t, "q", n + 1) THEN ~ q ELSE q, ps)
  BY <1>1, <1>2, CharStays
<1>4. tok \in Seq(Marks)
  BY TokIs
<1>. HIDE DEF t, n
<1>5. tok \o Says(t, n + 1) = tok
  BY <1>2, <1>4, ConcatEmptySeq
<1>6. (IF Is(t, "q", n + 1) THEN ~ q ELSE q) = IF x = "q" THEN ~ q ELSE q
  BY <1>2
<1>7. SplitAt(t, last, tok, IF x = "q" THEN ~ q ELSE q, ps)
  BY <1>3, <1>5, <1>6
<1>. QED  BY <1>2, <1>7 DEF t

LEMMA QuoteChar ==
  ASSUME NEW s \in Seq(Chars), NEW tok, NEW q, NEW ps, Splits(s, tok, q, ps)
  PROVE  Splits(Append(s, "q"), tok, ~ q, ps)
<1>1. PICK last : SplitAt(s, last, tok, q, ps) /\ ~ Escaped(s, Len(s) + 1)
  BY DEF Splits
<1>. DEFINE t == Append(s, "q")
<1>2. "q" \in {"q", "\\"} /\ "q" # "\\"
  OBVIOUS
<1>3. /\ Escaped(t, Len(t) + 1) <=> "q" = "\\"
      /\ SplitAt(t, last, tok, IF "q" = "q" THEN ~ q ELSE q, ps)
  BY <1>1, <1>2, SilentChar
<1>. HIDE DEF t
<1>4. ~ Escaped(t, Len(t) + 1) /\ SplitAt(t, last, tok, ~ q, ps)
  BY <1>2, <1>3
<1>5. Splits(t, tok, ~ q, ps)
  BY <1>4 DEF Splits
<1>. QED  BY <1>5 DEF t

LEMMA EscapeChars ==
  ASSUME NEW s \in Seq(Chars), NEW x \in Chars, NEW tok, NEW q, NEW ps,
         Splits(s, tok, q, ps), NEW u, u = s \o <<"\\", x>>
  PROVE  u \in Seq(Chars) /\ Splits(u, Append(tok, Morph(x)), q, ps)
<1>. DEFINE t == Append(s, "\\")
            n == Len(t)
<1>1. PICK last : SplitAt(s, last, tok, q, ps) /\ ~ Escaped(s, Len(s) + 1)
  BY DEF Splits
<1>2. "\\" \in {"q", "\\"} /\ "\\" # "q" /\ "\\" \in Chars
  BY DEF Chars
<1>3. t \in Seq(Chars) /\ Escaped(t, n + 1) /\ SplitAt(t, last, tok, q, ps)
  <2>1. /\ t \in Seq(Chars)
        /\ Escaped(t, n + 1) <=> "\\" = "\\"
        /\ SplitAt(t, last, tok, IF "\\" = "q" THEN ~ q ELSE q, ps)
    BY <1>1, <1>2, SilentChar
  <2>. HIDE DEF t, n
  <2>. QED  BY <1>2, <2>1
<1>4. u = Append(t, x)
  BY <1>2
<1>. HIDE DEF t, n
<1>5. /\ u \in Seq(Chars) /\ ~ Escaped(u, Len(u) + 1) /\ ~ Is(u, "q", n + 1)
      /\ Says(u, n + 1) = <<Morph(x)>> /\ ~ Delimits(u, n + 1)
  BY <1>3, <1>4, EscapedChar DEF n
<1>6. SplitAt(u, last, tok \o Says(u, n + 1), IF Is(u, "q", n + 1) THEN ~ q ELSE q, ps)
  BY <1>3, <1>4, <1>5, CharStays DEF n
<1>7. tok \in Seq(Marks) /\ Morph(x) \in Marks
  BY <1>1, TokIs DEF Marks, Morph
<1>8. tok \o <<Morph(x)>> = Append(tok, Morph(x))
  BY <1>7, AppendIsConcat
<1>9. SplitAt(u, last, Append(tok, Morph(x)), q, ps)
  BY <1>5, <1>6, <1>8
<1>. QED  BY <1>5, <1>9 DEF Splits

\* The last character is what it is, if it is not escaped.
LEMMA LastChar ==
  ASSUME NEW s \in Seq(Chars), NEW x \in Chars, ~ Escaped(s, Len(s) + 1)
  PROVE  /\ Append(s, x) \in Seq(Chars)
         /\ Is(Append(s, x), x, Len(Append(s, x)))
<1>. DEFINE t == Append(s, x)
<1>1. /\ t \in Seq(Chars) /\ Len(t) = Len(s) + 1
      /\ \A c : Is(t, c, Len(s) + 1) <=> x = c
  BY PlainChar
<1>. HIDE DEF t
<1>2. Is(t, x, Len(t))
  BY <1>1
<1>. QED  BY <1>1, <1>2 DEF t

LEMMA SplitInit == CInit => SplitInv
<1>1. <<>> \in Seq(Chars)
  BY EmptySeq
<1>. QED  BY <1>1 DEF CInit, SplitInv, SplitAsWritten

\* The splitting goes on.
LEMMA SplitGoesOn ==
  ASSUME text' \in Seq(Chars), stage' = "split", inQte' \in BOOLEAN,
         Splits(text', crtTok', inQte', pieces')
  PROVE  SplitInv'
BY DEF SplitInv, SplitAsWritten

LEMMA SplitStep == SplitInv /\ [CNext]_cvars => SplitInv'
<1>. SUFFICES ASSUME SplitInv, [CNext]_cvars PROVE SplitInv'
  OBVIOUS
<1>1. CASE Execute
  <2>1. /\ text' = <<>> /\ crtTok' = <<>> /\ inQte' \in BOOLEAN
        /\ inQte' = FALSE /\ pieces' = <<>> /\ stage' = "split"
    BY <1>1 DEF Execute, splitting, SplitInv
  <2>2. SplitAt(text', 0, crtTok', inQte', pieces')
    BY <2>1, AtStart
  <2>3. Len(<<>>) + 1 = 1 /\ <<>> \in Seq(Chars)
    BY EmptySeq
  <2>4. ~ Escaped(text', Len(text') + 1)
    BY <2>1, <2>3, NothingBefore
  <2>. QED  BY <2>1, <2>2, <2>3, <2>4, SplitGoesOn DEF Splits
<1>2. ASSUME NEW c \in {"a", "n"}, TextChar(c) PROVE SplitInv'
  <2>1. /\ text \in Seq(Chars) /\ Splits(text, crtTok, inQte, pieces)
        /\ text' = Append(text, c) /\ crtTok' = Append(crtTok, c)
        /\ inQte' = inQte /\ pieces' = pieces /\ stage' = "split"
        /\ inQte \in BOOLEAN
    BY <1>2 DEF TextChar, Reads, SplitInv
  <2>2. c \in Chars \ {"q", "\\"} /\ c # " "
    BY DEF Chars
  <2>3. Splits(text', crtTok', inQte', pieces')
    BY <2>1, <2>2, SaidChar
  <2>4. text' \in Seq(Chars)
    BY <2>1, <2>2, AppendProperties
  <2>. QED  BY <2>1, <2>3, <2>4, SplitGoesOn
<1>3. CASE Delimiter
  <2>1. /\ text \in Seq(Chars) /\ Splits(text, crtTok, inQte, pieces)
        /\ text' = Append(text, " ") /\ inQte' = inQte /\ stage' = "split"
        /\ inQte \in BOOLEAN
    BY <1>3 DEF Delimiter, Reads, SplitInv
  <2>2. " " \in Chars \ {"q", "\\"}
    BY DEF Chars
  <2>3. text' \in Seq(Chars)
    BY <2>1, <2>2, AppendProperties
  <2>4. CASE inQte
    <3>1. crtTok' = Append(crtTok, " ") /\ pieces' = pieces
      BY <1>3, <2>4 DEF Delimiter
    <3>2. Splits(text', crtTok', inQte', pieces')
      BY <2>1, <2>2, <2>4, <3>1, SaidChar
    <3>. QED  BY <2>1, <2>3, <3>2, SplitGoesOn
  <2>5. CASE ~ inQte
    <3>1. crtTok' = <<>> /\ pieces' = Pushed(pieces, crtTok)
      BY <1>3, <2>5 DEF Delimiter, PushCrtTok, Pushed
    <3>2. Splits(text', crtTok', inQte', pieces')
      BY <2>1, <2>5, <3>1, CutChar
    <3>. QED  BY <2>1, <2>3, <3>2, SplitGoesOn
  <2>. QED  BY <2>4, <2>5
<1>4. CASE Quote
  <2>1. /\ text \in Seq(Chars) /\ Splits(text, crtTok, inQte, pieces)
        /\ text' = Append(text, "q") /\ crtTok' = crtTok
        /\ inQte' = ~ inQte /\ pieces' = pieces /\ stage' = "split"
        /\ inQte \in BOOLEAN /\ "q" \in Chars
    BY <1>4 DEF Quote, Reads, SplitInv, Chars
  <2>2. Splits(text', crtTok', inQte', pieces')
    BY <2>1, QuoteChar
  <2>3. text' \in Seq(Chars)
    BY <2>1
  <2>. QED  BY <2>1, <2>2, <2>3, SplitGoesOn
<1>5. ASSUME NEW c \in Chars, Escape(c) PROVE SplitInv'
  <2>1. /\ text \in Seq(Chars) /\ Splits(text, crtTok, inQte, pieces)
        /\ text' = text \o <<"\\", c>> /\ crtTok' = Append(crtTok, Morph(c))
        /\ inQte' = inQte /\ pieces' = pieces /\ stage' = "split"
        /\ inQte \in BOOLEAN
    BY <1>5 DEF Escape, SplitInv
  <2>2. text' \in Seq(Chars) /\ Splits(text', crtTok', inQte', pieces')
    BY <2>1, EscapeChars
  <2>. QED  BY <2>1, <2>2, SplitGoesOn
<1>6. CASE BadChar
  <2>1. PICK c \in {"?", "\\"} : Reads(c)
    BY <1>6 DEF BadChar
  <2>2. /\ text \in Seq(Chars) /\ ~ Escaped(text, Len(text) + 1)
        /\ text' = Append(text, c) /\ stage' = "badsplit" /\ c \in Chars
    BY <1>6, <2>1 DEF BadChar, Reads, SplitInv, Splits, Chars
  <2>3. text' \in Seq(Chars) /\ Is(text', c, Len(text'))
    BY <2>2, LastChar
  <2>. QED  BY <2>2, <2>3 DEF SplitInv, SplitAsWritten
<1>7. CASE SplitEnd
  <2>1. /\ text \in Seq(Chars) /\ inQte \in BOOLEAN /\ text' = text
        /\ Splits(text, crtTok, inQte, pieces)
    BY <1>7 DEF SplitEnd, SplitInv
  <2>2. PICK last : SplitAt(text, last, crtTok, inQte, pieces)
    BY <2>1 DEF Splits
  <2>3. CASE inQte
    <3>1. stage' = "badsplit"
      BY <1>7, <2>3 DEF SplitEnd
    <3>2. Quoted(text', Len(text') + 1)
      BY <2>1, <2>2, <2>3 DEF SplitAt
    <3>. QED  BY <2>1, <3>1, <3>2 DEF SplitInv, SplitAsWritten
  <2>4. CASE ~ inQte
    <3>1. stage' = "tokens" /\ pieces' = Pushed(pieces, crtTok)
      BY <1>7, <2>4 DEF SplitEnd, PushCrtTok, Pushed
    <3>2. pieces' = Written(text')
      BY <2>1, <2>2, <3>1, LineEnds
    <3>. QED  BY <2>1, <3>1, <3>2 DEF SplitInv, SplitAsWritten
  <2>. QED  BY <2>3, <2>4
<1>8. CASE Command \/ NextOption \/ NextDone
  <2>1. /\ stage \in {"idle", "options"} /\ UNCHANGED <<text, crtTok, inQte, pieces>>
        /\ stage' \in {"options", "done", "badarg"}
    BY <1>8 DEF Command, NextOption, NextError, NextDone, splitting
  <2>. QED  BY <2>1 DEF SplitInv, SplitAsWritten
<1>9. CASE Again
  <2>1. <<>> \in Seq(Chars)
    BY EmptySeq
  <2>. QED  BY <1>9, <2>1 DEF Again, SplitInv, SplitAsWritten
<1>10. CASE UNCHANGED cvars
  BY <1>10 DEF cvars, splitting, SplitInv, SplitAsWritten
<1>. QED  BY <1>1, <1>2, <1>3, <1>4, <1>5, <1>6, <1>7, <1>8, <1>9, <1>10 DEF CNext

\* A line is cut where it says and nowhere else, and refused only if it is not
\* one, for lines of any length (fastcli.hpp:336-395).
THEOREM SplitAlwaysAsWritten == CInit /\ [][CNext]_cvars => []SplitAsWritten
<1>1. SplitInv => SplitAsWritten
  BY DEF SplitInv
<1>. QED  BY <1>1, SplitInit, SplitStep, PTL

\* Whatever commands there are and whatever lines they are given, Fast_cli
\* splits a line as it was written, finds the command it names and tells that
\* command each token once (fastcli.hpp:268-316, 319-411, 437-496).
THEOREM LinesAlwaysUnderstood ==
  MInit /\ CInit /\ [][MNext]_mvars /\ [][CNext]_cvars => []LinesAreUnderstood
<1>1. SplitAsWritten /\ CommandsAreFound /\ EveryTokenOnce => LinesAreUnderstood
  BY DEF LinesAreUnderstood
<1>. QED
  BY <1>1, CommandsAlwaysFound, SplitAlwaysAsWritten, EveryTokenAlwaysOnce, PTL
=============================================================================
