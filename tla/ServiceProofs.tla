---------------------------- MODULE ServiceProofs ----------------------------
(* Theorems of the services and their boards.  DaemonCluster, for any        *)
(* daemons, dependencies, order of the register and number of other threads: *)
(* every step is a step of Daemon or leaves its variables alone, so what is  *)
(* proved of Daemon holds under a cluster; and a daemon is started only over *)
(* dependencies that are up, but for those another thread has moved since    *)
(* they were looked at.  BoardDaemons, for any number of threads and         *)
(* attempts: the two daemons implement Daemon, from which they take its      *)
(* proven invariant; with what a hook has made so far, STARTED and STOPPED   *)
(* tell what the board holds, and one thread at a time is in the device.     *)
(* Bmx280, for any sequence of calls and failures: what is handed out        *)
(* belongs together.  Plc, for any clock that goes round, any timeouts and   *)
(* any numbers: relays drop on time, and the display shows what was written. *)
EXTENDS DaemonCluster, BoardDaemons, Bmx280, Plc, DaemonProofs,
        WellFoundedInduction, TLAPS

\* What the task has seen still holds, of the daemons no other thread has
\* moved since: the dependencies it has counted are up, and so they are all
\* through the restart, which moves the state of its own daemon only.
DriveInv ==
  /\ step \in {"delay", "deleted"} => todo = {}
  /\ step = "restart" => dmn[Cluster] = Dock
  /\ step = "deps" =>
       \A e \in Deps[Dock] \ (unseen \cup moved) : state[e] = "STARTED"
  /\ step = "restart" =>
       \A e \in Deps[Dock] \ moved : state[e] = "STARTED"

ClusterIInv == IInv /\ ClusterTypeOK /\ DriveInv

-----------------------------------------------------------------------------
(* The dock a pass has come to. *)

\* Places are natural numbers, so some place is the first.
LEMMA LeastPlace ==
  ASSUME NEW S, S \subseteq Nat, S # {}
  PROVE  \E i \in S : \A j \in S : i <= j
<1>1. PICK i \in S : \A j \in S : ~ (<<j, i>> \in OpToRel(<, Nat))
  BY NatLessThanWellFounded, WFMin
<1>2. ASSUME NEW j \in S PROVE i <= j
  <2>1. ~ (<<j, i>> \in OpToRel(<, Nat))
    BY <1>1
  <2>2. i \in Nat /\ j \in Nat
    OBVIOUS
  <2>3. ~ (j < i)
    BY <2>1, <2>2 DEF OpToRel
  <2>. QED  BY <2>2, <2>3
<1>. QED  BY <1>2

\* As long as docks are left, the pass has come to one of the register.
LEMMA DockIsDocked ==
  ASSUME ClusterTypeOK, todo # {}
  PROVE  Place \in todo /\ Dock \in register /\ Dock \in Daemons
<1>1. todo \subseteq Nat
  BY ClusterAssumption DEF ClusterTypeOK
<1>2. Place \in todo
  <2>1. \E i \in todo : \A j \in todo : i <= j
    BY <1>1, LeastPlace
  <2>. QED  BY <2>1 DEF Place
<1>. QED  BY <1>2 DEF Dock, ClusterTypeOK

\* It stays as long as nothing is taken off the list.
LEMMA DockStays == UNCHANGED todo => Dock' = Dock
  BY DEF Dock, Place

-----------------------------------------------------------------------------
(* Every step is a step of Daemon or leaves its variables alone. *)

\* From the call of a restart on, the task runs the code of Daemon.
LEMMA TaskRuns ==
  ASSUME Restarting \/ RestartGood \/ RestartBad \/ GoCritical
  PROVE  Run(Cluster)
  BY DEF Restarting, RestartGood, RestartBad, GoCritical, RestartEndsBad, Run,
         Start

\* Every step of the cluster and the others is a step of Daemon, or none.
LEMMA StepsAreDaemons ==
  ClusterTypeOK /\ [ClusterNext]_cvars => [Next]_vars
<1>. SUFFICES ASSUME ClusterTypeOK, [ClusterNext]_cvars PROVE [Next]_vars
  OBVIOUS
<1>0. Cluster \in Callers /\ Users \subseteq Callers
  BY ClusterAssumption DEF Users
<1>1. CASE Restart
  <2>1. Dock \in Daemons
    BY <1>1, DockIsDocked DEF Restart, ClusterTypeOK
  <2>2. CallStop(Cluster, Dock, TRUE)
    BY <1>1 DEF Restart
  <2>. QED  BY <1>0, <2>1, <2>2 DEF Next, Call
<1>2. CASE Restarting \/ RestartGood \/ RestartBad \/ GoCritical
  BY <1>0, <1>2, TaskRuns DEF Next
<1>3. CASE \/ Iterate \/ SkipUnstable \/ Stable \/ CountDep
           \/ SkipDependent \/ LeaveAlone \/ IterateDone
  BY <1>3 DEF Iterate, SkipUnstable, Stable, CountDep, SkipDependent,
              LeaveAlone, IterateDone
<1>4. CASE UserDocks
  BY <1>4 DEF UserDocks, Push, Pop
<1>5. ASSUME NEW u \in Users, UserCall(u) PROVE [Next]_vars
  BY <1>0, <1>5 DEF UserCall, Next, Call
<1>6. ASSUME NEW u \in Users, UserRun(u) PROVE [Next]_vars
  BY <1>0, <1>6 DEF UserRun, Next
<1>7. CASE UNCHANGED cvars
  BY <1>7 DEF cvars
<1>. QED
  BY <1>1, <1>2, <1>3, <1>4, <1>5, <1>6, <1>7
     DEF ClusterNext, Task, Interfere

\* A step of a call moves the state of its own daemon only, stays with that
\* daemon until it returns, and begins or ends no other call.
LEMMA RunEffect ==
  ASSUME TypeOK, NEW c \in Callers, Run(c)
  PROVE  /\ \A d \in Daemons : d # dmn[c] => state'[d] = state[d]
         /\ pc[c] # "idle"
         /\ pc'[c] # "idle" => dmn'[c] = dmn[c]
         /\ \A e \in Callers : e # c => (pc'[e] = "idle" <=> pc[e] = "idle")
         /\ \A e \in Callers : e # c => dmn'[e] = dmn[e]
<1>. USE DEF TypeOK, Goto, Leave, Return, SetState, StopDone, locals
<1>1. CASE StartCas(c) \/ StartRefused(c) \/ StartHook(c) \/ StartHookFails(c)
  BY <1>1 DEF StartCas, StartRefused, StartHook, StartHookFails
<1>2. CASE SetStarted(c) \/ StartProc(c) \/ FailStopping(c)
  BY <1>2 DEF SetStarted, StartProc, FailStopping
<1>3. CASE FailHook(c) \/ FailStopped(c)
  BY <1>3 DEF FailHook, FailStopped
<1>4. CASE StopCas(c) \/ StopRefused(c) \/ StopHook(c)
  BY <1>4 DEF StopCas, StopRefused, StopHook
<1>5. CASE SetStopped(c) \/ StopProc(c)
  BY <1>5 DEF SetStopped, StopProc
<1>6. CASE Wait(c)
  BY <1>6 DEF Wait, WaitSleep, WaitReturn
<1>. QED  BY <1>1, <1>2, <1>3, <1>4, <1>5, <1>6 DEF Run, Start, Stop

\* A call that begins leaves the states alone and the other calls where they
\* stand.
LEMMA CallEffect ==
  ASSUME TypeOK, NEW c \in Callers, NEW d \in Daemons,
         \/ CallStart(c, d)
         \/ \E restart \in BOOLEAN : CallStop(c, d, restart)
  PROVE  /\ state' = state
         /\ pc[c] = "idle" /\ pc'[c] # "idle" /\ dmn'[c] = d
         /\ \A e \in Callers : e # c => pc'[e] = pc[e] /\ dmn'[e] = dmn[e]
  BY DEF TypeOK, CallStart, CallStop, Goto

\* With the last step of a restart the task is idle again.
LEMMA RestartEnds ==
  ASSUME TypeOK, RestartGood \/ RestartBad \/ GoCritical
  PROVE  pc'[Cluster] = "idle"
<1>0. Cluster \in Callers
  BY ClusterAssumption
<1>1. StartProc(Cluster) \/ StartRefused(Cluster) \/ FailStopped(Cluster)
  BY DEF RestartGood, RestartBad, GoCritical, RestartEndsBad
<1>. QED
  BY <1>0, <1>1 DEF TypeOK, StartProc, StartRefused, FailStopped, Return, Goto,
                    SetState

-----------------------------------------------------------------------------
(* The type invariant of the cluster. *)

\* All of ClusterTypeOK that is not TypeOK.
ClusterInv ==
  /\ register \subseteq Daemons
  /\ bad \in [Daemons -> Nat]
  /\ critical \in BOOLEAN
  /\ step \in {"delay", "visit", "deps", "restart", "deleted"}
  /\ todo \subseteq {i \in 1..Len(Order) : Order[i] \in register}
  /\ unseen \subseteq Daemons /\ moved \subseteq Daemons
  /\ step \in {"deps", "restart"} => todo # {}
  /\ pc[Cluster] # "idle" <=> step = "restart"
  /\ \A d \in Daemons :
       ~ critical /\ Limit[d] # Unlimited => bad[d] < Limit[d]

\* What the type of the cluster says, in the terms the proofs use.
LEMMA ClusterTypeIs == ClusterTypeOK <=> TypeOK /\ ClusterInv
  BY DEF ClusterTypeOK, ClusterInv

\* A limit is a positive number.
LEMMA LimitIs ==
  \A d \in Daemons : Limit[d] # Unlimited => Limit[d] \in Nat /\ 0 < Limit[d]
<1>1. Limit \in [Daemons -> (Nat \ {0}) \cup {Unlimited}]
  BY ClusterAssumption
<1>. QED  BY <1>1

\* The cluster begins before its first pass, with nothing seen.
LEMMA ClusterIInvInit == ClusterInit => ClusterIInv
<1>. SUFFICES ASSUME ClusterInit PROVE ClusterIInv
  OBVIOUS
<1>0. Cluster \in Callers /\ Users \subseteq Callers
  BY ClusterAssumption DEF Users
<1>1. IInv
  BY IInvInit DEF ClusterInit
<1>2. \A c \in Callers : pc[c] = "idle"
  BY DEF ClusterInit, Init
<1>4. ClusterInv
  BY <1>0, <1>2, LimitIs DEF ClusterInit, ClusterInv
<1>5. DriveInv
  BY <1>0, <1>2 DEF ClusterInit, DriveInv
<1>. QED  BY <1>1, <1>4, <1>5, ClusterTypeIs DEF ClusterIInv, IInv

\* Every step keeps the type and the limits of the cluster.
LEMMA ClusterInvStep ==
  ASSUME ClusterIInv, [ClusterNext]_cvars
  PROVE  ClusterInv'
<1>0. /\ Cluster \in Callers /\ Users \subseteq Callers /\ Cluster \notin Users
      /\ TypeOK /\ ClusterTypeOK /\ ClusterInv
      /\ step \in {"delay", "deleted"} => todo = {}
  BY ClusterAssumption, ClusterTypeIs DEF Users, ClusterIInv, DriveInv
<1>1. CASE Iterate \/ IterateDone
  BY <1>0, <1>1 DEF ClusterInv, Iterate, IterateDone, vars, docks
<1>2. CASE SkipUnstable \/ SkipDependent \/ LeaveAlone
  BY <1>0, <1>2
     DEF ClusterInv, SkipUnstable, SkipDependent, LeaveAlone, NextDock, vars,
         docks
<1>3. CASE Stable \/ CountDep
  <2>1. CASE Stable
    <3>1. Deps[Dock] \subseteq Daemons
      BY <1>0, <2>1, DockIsDocked, ClusterAssumption DEF Stable
    <3>. QED  BY <1>0, <2>1, <3>1 DEF ClusterInv, Stable, vars, docks
  <2>2. CASE CountDep
    BY <1>0, <2>2 DEF ClusterInv, CountDep, vars, docks
  <2>. QED  BY <1>3, <2>1, <2>2
<1>4. CASE Restart
  <2>1. Dock \in Daemons
    BY <1>0, <1>4, DockIsDocked DEF Restart, ClusterInv
  <2>2. pc'[Cluster] # "idle"
    BY <1>0, <1>4, <2>1, CallEffect DEF Restart
  <2>. QED  BY <1>0, <1>4, <2>2 DEF ClusterInv, Restart, docks
<1>5. CASE Restarting
  BY <1>0, <1>5 DEF ClusterInv, Restarting, docks, visit
<1>6. CASE RestartGood \/ RestartBad \/ GoCritical
  <2>1. pc'[Cluster] = "idle"
    BY <1>0, <1>6, RestartEnds
  <2>2. Dock \in Daemons
    BY <1>0, <1>6, DockIsDocked
       DEF ClusterInv, RestartGood, RestartBad, GoCritical, RestartEndsBad
  <2>3. OneMoreBad(Dock) \in Nat
    BY <1>0, <2>2 DEF ClusterInv, OneMoreBad
  <2>4. CASE RestartGood
    <3>1. \A d \in Daemons :
            ~ critical' /\ Limit[d] # Unlimited => bad'[d] < Limit[d]
      BY <1>0, <2>2, <2>4, LimitIs DEF ClusterInv, RestartGood
    <3>. QED  BY <1>0, <2>1, <2>4, <3>1 DEF ClusterInv, RestartGood, NextDock
  <2>5. CASE RestartBad
    <3>1. Limit[Dock] # Unlimited => OneMoreBad(Dock) < Limit[Dock]
      BY <2>2, <2>3, <2>5, LimitIs DEF RestartBad, AtLimit
    <3>2. \A d \in Daemons :
            ~ critical' /\ Limit[d] # Unlimited => bad'[d] < Limit[d]
      BY <1>0, <2>2, <2>5, <3>1 DEF ClusterInv, RestartBad
    <3>. QED
      BY <1>0, <2>1, <2>3, <2>5, <3>2 DEF ClusterInv, RestartBad, NextDock
  <2>6. CASE GoCritical
    BY <1>0, <2>1, <2>3, <2>6 DEF ClusterInv, GoCritical
  <2>. QED  BY <1>6, <2>4, <2>5, <2>6
<1>7. CASE UserDocks
  <2>. PICK d \in Daemons : Push(d) \/ Pop(d)
    BY <1>7 DEF UserDocks
  <2>1. \A e \in Daemons :
          ~ critical' /\ Limit[e] # Unlimited => bad'[e] < Limit[e]
    BY <1>0, LimitIs DEF ClusterInv, Push, Pop
  <2>2. pc' = pc /\ todo' = {} /\ step' = step /\ step \in {"delay", "deleted"}
    BY <1>0 DEF Push, Pop, vars, visit
  <2>. QED  BY <1>0, <2>1, <2>2 DEF ClusterInv, Push, Pop, visit
<1>8. ASSUME NEW u \in Users, UserCall(u) PROVE ClusterInv'
  <2>1. pc'[Cluster] = pc[Cluster]
    BY <1>0, <1>8, CallEffect DEF UserCall
  <2>. QED  BY <1>0, <1>8, <2>1 DEF ClusterInv, UserCall, docks, visit
<1>9. ASSUME NEW u \in Users, UserRun(u) PROVE ClusterInv'
  <2>1. pc'[Cluster] = "idle" <=> pc[Cluster] = "idle"
    BY <1>0, <1>9, RunEffect DEF UserRun
  <2>. QED  BY <1>0, <1>9, <2>1 DEF ClusterInv, UserRun, docks, visit
<1>10. CASE UNCHANGED cvars
  BY <1>0, <1>10 DEF ClusterInv, cvars, vars, docks, visit
<1>. QED
  BY <1>1, <1>2, <1>3, <1>4, <1>5, <1>6, <1>7, <1>8, <1>9, <1>10
     DEF ClusterNext, Task, Interfere

-----------------------------------------------------------------------------
(* What the task has seen still holds. *)

\* What the task has seen of a dock still holds after every step.
LEMMA DriveStep ==
  ASSUME ClusterIInv, [ClusterNext]_cvars
  PROVE  DriveInv'
<1>0. /\ Cluster \in Callers /\ Users \subseteq Callers /\ Cluster \notin Users
      /\ TypeOK /\ ClusterTypeOK /\ ClusterInv /\ DriveInv
  BY ClusterAssumption, ClusterTypeIs DEF Users, ClusterIInv
<1>d. /\ todo # {} => /\ Dock \in Daemons
                     /\ Deps[Dock] \subseteq Daemons
                     /\ Dock \notin Deps[Dock]
      /\ step \in {"deps", "restart"} => todo # {}
  BY <1>0, DockIsDocked, ClusterAssumption DEF ClusterInv
<1>1. CASE (Iterate \/ IterateDone)
  BY <1>0, <1>1 DEF DriveInv, Iterate, IterateDone
<1>2. CASE \/ SkipUnstable \/ SkipDependent \/ LeaveAlone
           \/ RestartGood \/ RestartBad
  <2>1. step' = "visit"
    BY <1>2 DEF SkipUnstable, SkipDependent, LeaveAlone, RestartGood,
                RestartBad, NextDock
  <2>. QED  BY <1>0, <1>2, <2>1 DEF DriveInv
<1>3. CASE Stable
  <2>1. unseen' = Deps[Dock] /\ Dock' = Dock /\ step' = "deps"
    BY <1>3, DockStays DEF Stable
  <2>. QED  BY <1>0, <1>3, <2>1 DEF DriveInv
<1>4. CASE CountDep
  <2>1. PICK e \in unseen : state[e] = "STARTED" /\ unseen' = unseen \ {e}
    BY <1>4 DEF CountDep
  <2>2. /\ Dock' = Dock /\ step' = "deps" /\ step = "deps" /\ state' = state
        /\ moved' = moved
    BY <1>4, DockStays DEF CountDep, vars
  <2>. QED  BY <1>0, <1>4, <2>1, <2>2 DEF DriveInv
<1>5. CASE Restart
  <2>1. /\ unseen = {} /\ step = "deps" /\ step' = "restart"
        /\ UNCHANGED <<todo, moved>> /\ CallStop(Cluster, Dock, TRUE)
    BY <1>5 DEF Restart
  <2>2. state' = state /\ dmn'[Cluster] = Dock
    BY <1>0, <1>d, <2>1, CallEffect
  <2>3. Dock' = Dock
    BY <2>1, DockStays
  <2>. QED  BY <1>0, <1>5, <2>1, <2>2, <2>3 DEF DriveInv
<1>6. CASE Restarting
  <2>1. /\ step = "restart" /\ step' = "restart" /\ UNCHANGED <<todo, moved>>
        /\ Run(Cluster) /\ pc'[Cluster] # "idle"
    BY <1>6 DEF Restarting, visit
  <2>2. Dock' = Dock
    BY <2>1, DockStays
  <2>3. /\ dmn'[Cluster] = dmn[Cluster] /\ dmn[Cluster] = Dock
        /\ \A d \in Daemons : d # dmn[Cluster] => state'[d] = state[d]
    BY <1>0, <2>1, RunEffect DEF DriveInv
  <2>. QED  BY <1>0, <1>d, <1>6, <2>1, <2>2, <2>3 DEF DriveInv
<1>7. CASE GoCritical
  <2>1. step' = "deleted" /\ todo' = {}
    BY <1>7 DEF GoCritical
  <2>. QED  BY <1>0, <1>7, <2>1 DEF DriveInv
<1>8. CASE Interfere
  <2>1. state' = state /\ UNCHANGED visit
    <3>1. CASE UserDocks
      BY <3>1 DEF UserDocks, Push, Pop, vars
    <3>2. ASSUME NEW u \in Users, UserCall(u)
          PROVE  state' = state /\ UNCHANGED visit
      BY <1>0, <3>2, CallEffect DEF UserCall
    <3>. QED  BY <1>8, <3>1, <3>2 DEF Interfere
  <2>2. dmn'[Cluster] = dmn[Cluster]
    <3>1. CASE UserDocks
      BY <3>1 DEF UserDocks, Push, Pop, vars
    <3>2. ASSUME NEW u \in Users, UserCall(u)
          PROVE  dmn'[Cluster] = dmn[Cluster]
      BY <1>0, <3>2, CallEffect DEF UserCall
    <3>. QED  BY <1>8, <3>1, <3>2 DEF Interfere
  <2>3. Dock' = Dock
    BY <2>1, DockStays DEF visit
  <2>. QED  BY <1>0, <2>1, <2>2, <2>3 DEF DriveInv, visit
<1>9. ASSUME NEW u \in Users, UserRun(u) PROVE DriveInv'
  <2>1. dmn'[Cluster] = dmn[Cluster]
    BY <1>0, <1>9, RunEffect DEF UserRun
  <2>2. /\ Dock' = Dock /\ UNCHANGED <<step, todo, unseen>>
        /\ step \in {"deps", "restart"} =>
             moved' = moved \cup {d \in Daemons : state'[d] # state[d]}
    BY <1>9, DockStays DEF UserRun
  <2>3. \A e \in Daemons : step \in {"deps", "restart"} /\ e \notin moved' =>
          e \notin moved /\ state'[e] = state[e]
    BY <2>2
  <2>. QED  BY <1>0, <1>d, <2>1, <2>2, <2>3 DEF DriveInv
<1>10. CASE UNCHANGED cvars
  <2>1. Dock' = Dock /\ UNCHANGED <<visit, state, dmn>>
    BY <1>10, DockStays DEF cvars, visit, vars
  <2>. QED  BY <1>0, <2>1 DEF DriveInv, visit
<1>. QED
  BY <1>1, <1>2, <1>3, <1>4, <1>5, <1>6, <1>7, <1>8, <1>9, <1>10
     DEF ClusterNext, Task

\* Every step keeps the whole invariant.
LEMMA ClusterIInvStep == ClusterIInv /\ [ClusterNext]_cvars => ClusterIInv'
<1>. SUFFICES ASSUME ClusterIInv, [ClusterNext]_cvars PROVE ClusterIInv'
  OBVIOUS
<1>1. IInv'
  BY StepsAreDaemons, IInvStep DEF ClusterIInv
<1>2. ClusterTypeOK'
  BY <1>1, ClusterInvStep, ClusterTypeIs DEF IInv, ClusterTypeOK, ClusterInv
<1>. QED  BY <1>1, <1>2, DriveStep DEF ClusterIInv

-----------------------------------------------------------------------------

\* Between two passes the task owns no transition, its places are docked, and
\* no count passes its limit (daemon.hpp:193-241).
THEOREM ClusterTypeCorrect == ClusterSpec => []ClusterTypeOK
<1>1. ClusterIInv => ClusterTypeOK
  BY DEF ClusterIInv
<1>. QED  BY <1>1, ClusterIInvInit, ClusterIInvStep, PTL DEF ClusterSpec

\* With a cluster that restarts them and any number of other threads, daemons
\* behave as Daemon says: their hooks never overlap and their states are true
\* (daemon.hpp:75-108, :228).
THEOREM ClusterKeepsDaemons ==
  ClusterSpec =>
    Init /\ [][Next]_vars /\ [](HooksExclusive /\ StateTellsResources)
<1>1. ClusterInit => Init
  BY DEF ClusterInit
<1>2. ClusterIInv /\ [ClusterNext]_cvars => [Next]_vars
  BY StepsAreDaemons DEF ClusterIInv
<1>3. ClusterIInv => HooksExclusive /\ StateTellsResources
  BY DEF ClusterIInv, IInv, OwnerInv, Owner, HooksExclusive, InHook, Starting,
         Stopping
<1>. QED
  BY <1>1, <1>2, <1>3, ClusterIInvInit, ClusterIInvStep, PTL DEF ClusterSpec

\* In whatever order the register holds them, and whatever the other threads
\* do, the cluster starts a daemon only over dependencies that are up, but for
\* those another thread has moved since the task began to look at them
\* (daemon.hpp:164-171, :217-218).
THEOREM DepsFirstAlways == ClusterSpec => []DepsFirst
<1>1. ClusterIInv => DepsFirst
  <2>. SUFFICES ASSUME ClusterIInv, pc[Cluster] = "start_hook"
                PROVE  \A e \in Deps[dmn[Cluster]] \ moved :
                         state[e] = "STARTED"
    BY DEF DepsFirst
  <2>1. step = "restart"
    BY DEF ClusterIInv, ClusterTypeOK
  <2>. QED  BY <2>1 DEF ClusterIInv, DriveInv
<1>. QED  BY <1>1, ClusterIInvInit, ClusterIInvStep, PTL DEF ClusterSpec

-----------------------------------------------------------------------------
(* The daemons of the board. *)

hook == [c \in Callers |-> HookOf(c)]

\* The theorems of Daemon, about the board as Daemon sees it.
P == INSTANCE DaemonProofs WITH pc <- hook

StartSteps == {"wifi_verify", "tbd_connect", "tbd_rpc", "tbd_attrs", "tbd_fota",
               "tbd_launch", "tbd_handle"}
StopSteps == {"tbd_join", "tbd_disconnect", "tbd_cleanup"}

\* A caller is in a hook of its own daemon, and res tells the two stops apart.
PlaceInv ==
  \A c \in Callers :
    /\ pc[c] = "wifi_verify" => dmn[c] = Wifi
    /\ pc[c] \in BoardSteps \ {"wifi_verify"} => dmn[c] = Tbd
    /\ pc[c] \in {"fail_stopping", "fail_hook"} => res[dmn[c]] = "part"
    /\ pc[c] = "stop_hook" => res[dmn[c]] = "all"
    /\ pc[c] \in StopSteps => res[dmn[c]] # "none"

NoTask  == ~ handle /\ task = "none"
Running == task \notin {"none", "ended"} /\ ~ exit /\ "fota" \in subs
Working == handle /\ Running

\* How much of the device and its task there is, wherever the hook is.
DeviceInv ==
  /\ state[Tbd] = "STOPPED" => ~ Holding
  /\ state[Tbd] = "STARTED" => Working
  /\ \A c \in Callers : dmn[c] = Tbd =>
       /\ pc[c] \in {"start_hook", "tbd_connect", "set_stopped",
                     "fail_stopped"} => ~ Holding
       /\ pc[c] \in {"tbd_rpc", "tbd_attrs", "tbd_fota", "tbd_launch",
                     "fail_stopping", "fail_hook", "tbd_disconnect",
                     "tbd_cleanup"} => NoTask
       /\ pc[c] = "tbd_launch" => "fota" \in subs
       /\ pc[c] = "tbd_handle" => ~ handle /\ Running
       /\ pc[c] \in {"set_started", "stop_hook"} => Working
       /\ pc[c] = "tbd_join" => (handle <=> task # "none")
       /\ pc[c] = "tbd_cleanup" => ~ link

\* How much of the station there is.
StationInv ==
  /\ state[Wifi] = "STOPPED" => net = "off"
  /\ state[Wifi] = "STARTED" => net # "off"
  /\ \A c \in Callers : dmn[c] = Wifi =>
       /\ pc[c] \in {"start_hook", "set_stopped", "fail_stopped"} => net = "off"
       /\ pc[c] \in {"wifi_verify", "set_started"} => net # "off"

BoardInv == BoardTypeOK /\ PlaceInv /\ DeviceInv /\ StationInv

BoardIInv == P!IInv /\ BoardInv

-----------------------------------------------------------------------------
(* What Daemon sees of a caller. *)

\* The hook a caller is in, from where it stands and what the board holds.
LEMMA HookValues ==
  ASSUME NEW c \in Callers
  PROVE  /\ pc[c] \in StartSteps => hook[c] = "start_hook"
         /\ pc[c] \in StopSteps /\ res[dmn[c]] = "part" => hook[c] = "fail_hook"
         /\ pc[c] \in StopSteps /\ res[dmn[c]] # "part" => hook[c] = "stop_hook"
         /\ pc[c] \notin BoardSteps => hook[c] = pc[c]
BY DEF hook, HookOf, StartSteps, StopSteps, BoardSteps

\* The invariant of Daemon in the terms of the board: the owner of a
\* transition is alone with its daemon, whose state and res it knows.
OwnerFacts ==
  /\ \A c, e \in Callers :
       c # e /\ pc[c] \in Starting \cup Stopping \cup BoardSteps
             /\ pc[e] \in Starting \cup Stopping \cup BoardSteps
         => dmn[c] # dmn[e]
  /\ \A c \in Callers :
       /\ pc[c] # "idle" => dmn[c] \in Daemons
       /\ pc[c] \in Starting \cup StartSteps => state[dmn[c]] = "STARTING"
       /\ pc[c] \in Stopping \cup StopSteps => state[dmn[c]] = "STOPPING"

\* What the invariant of Daemon says in terms of the board.
LEMMA Facts ==
  ASSUME BoardIInv
  PROVE  /\ OwnerFacts
         /\ state \in [Daemons -> States]
         /\ res \in [Daemons -> {"none", "part", "all"}]
         /\ dmn \in [Callers -> Daemons \cup {NoDaemon}]
<1>1. P!TypeOK /\ P!OwnerInv
  BY DEF BoardIInv, P!IInv
<1>2. /\ state \in [Daemons -> States]
      /\ res \in [Daemons -> {"none", "part", "all"}]
      /\ dmn \in [Callers -> Daemons \cup {NoDaemon}]
      /\ \A c \in Callers : hook[c] # "idle" => dmn[c] \in Daemons
  BY <1>1 DEF P!TypeOK, States, P!States
<1>3. ASSUME NEW c \in Callers
      PROVE  /\ pc[c] # "idle" => hook[c] # "idle"
             /\ pc[c] \in Starting \cup StartSteps => hook[c] \in Starting
             /\ pc[c] \in Stopping \cup StopSteps => hook[c] \in Stopping
  BY HookValues DEF Starting, Stopping, StartSteps, StopSteps, BoardSteps
<1>4. BoardSteps = StartSteps \cup StopSteps
  BY DEF BoardSteps, StartSteps, StopSteps
<1>5. OwnerFacts
  BY <1>1, <1>2, <1>3, <1>4
     DEF OwnerFacts, P!OwnerInv, P!Owner, P!Starting, P!Stopping, Starting,
         Stopping
<1>. QED
  BY <1>2, <1>5

-----------------------------------------------------------------------------
(* How a step moves what Daemon sees. *)

\* A step out of the hook, or outside of one: others do not notice.
LEMMA HookMoves ==
  ASSUME pc \in [Callers -> Steps \cup BoardSteps],
         NEW c \in Callers, NEW place \in Steps, Goto(c, place),
         \A e \in Callers \ {c} : pc[e] \in StopSteps =>
            /\ dmn'[e] = dmn[e]
            /\ res'[dmn[e]] = res[dmn[e]]
  PROVE  hook' = [hook EXCEPT ![c] = place]
<1>1. HookOf(c)' = place
  BY DEF HookOf, Goto, Steps, Starting, Stopping
<1>2. ASSUME NEW e \in Callers \ {c} PROVE HookOf(e)' = HookOf(e)
  BY <1>2 DEF HookOf, Goto, StopSteps
<1>. QED
  BY <1>1, <1>2 DEF hook

\* A step within the hook, which keeps its place.
LEMMA HookStays ==
  ASSUME pc \in [Callers -> Steps \cup BoardSteps],
         NEW c \in Callers, NEW place \in BoardSteps, Goto(c, place),
         UNCHANGED <<res, dmn>>,
         \/ pc[c] \in StartSteps \cup {"start_hook"} /\ place \in StartSteps
         \/ pc[c] = "fail_hook" /\ res[dmn[c]] = "part" /\ place \in StopSteps
         \/ pc[c] = "stop_hook" /\ res[dmn[c]] # "part" /\ place \in StopSteps
         \/ pc[c] \in StopSteps /\ place \in StopSteps
  PROVE  hook' = hook
<1>1. HookOf(c)' = HookOf(c)
  BY DEF HookOf, Goto, StartSteps, StopSteps
<1>2. ASSUME NEW e \in Callers \ {c} PROVE HookOf(e)' = HookOf(e)
  BY <1>2 DEF HookOf, Goto
<1>. QED
  BY <1>1, <1>2 DEF hook

\* The store of a state, which wakes those who sleep.
LEMMA HookStores ==
  ASSUME pc \in [Callers -> Steps \cup BoardSteps],
         NEW c \in Callers, NEW next, NEW place \in Steps, UNCHANGED res,
         SetState(c, next, place),
         \A e \in Callers \ {c} : dmn'[e] = dmn[e]
  PROVE  hook' = [e \in Callers |->
                    IF e = c THEN place
                    ELSE IF hook[e] = "asleep" /\ dmn[e] = dmn[c] THEN "wait"
                    ELSE hook[e]]
<1>1. HookOf(c)' = place
  BY DEF HookOf, SetState, Steps, Starting, Stopping
<1>2. ASSUME NEW e \in Callers \ {c}
      PROVE  HookOf(e)' = IF hook[e] = "asleep" /\ dmn[e] = dmn[c] THEN "wait"
                          ELSE hook[e]
  <2>1. hook[e] = HookOf(e)
    BY DEF hook
  <2>2. CASE pc[e] = "asleep"
    BY <1>2, <2>1, <2>2 DEF HookOf, SetState
  <2>3. CASE pc[e] # "asleep"
    <3>1. HookOf(e)' = HookOf(e)
      BY <1>2, <2>3 DEF HookOf, SetState
    <3>2. HookOf(e) # "asleep"
      BY <2>3 DEF HookOf
    <3>. QED
      BY <2>1, <3>1, <3>2
  <2>. QED
    BY <2>2, <2>3
<1>. QED
  BY <1>1, <1>2 DEF hook
-----------------------------------------------------------------------------
(* Every step of the board is one of Daemon, or none.                        *)

\* A call that begins.
LEMMA CallRefines ==
  ASSUME BoardIInv, NEW c \in Callers, BoardCall(c)
  PROVE  P!Next
<1>. USE DEF BoardIInv, BoardInv, BoardTypeOK
<1>1. PICK d \in Daemons : \/ CallStart(c, d)
                          \/ \E restart \in BOOLEAN : CallStop(c, d, restart)
  BY DEF BoardCall
<1>2. pc[c] = "idle" /\ hook[c] = "idle"
  BY <1>1, HookValues DEF CallStart, CallStop, BoardSteps
<1>3. \A e \in Callers \ {c} : dmn'[e] = dmn[e] /\ UNCHANGED res
  BY <1>1, Facts DEF CallStart, CallStop
<1>4. CASE CallStart(c, d)
  <2>1. hook' = [hook EXCEPT ![c] = "start_cas"]
    BY <1>3, <1>4, HookMoves DEF CallStart, Steps
  <2>2. P!CallStart(c, d)
    BY <1>2, <1>4, <2>1 DEF CallStart, P!CallStart, P!Goto
  <2>. QED
    BY <2>2 DEF P!Next, P!Call
<1>5. ASSUME NEW restart \in BOOLEAN, CallStop(c, d, restart) PROVE P!Next
  <2>1. hook' = [hook EXCEPT ![c] = "stop_cas"]
    BY <1>3, <1>5, HookMoves DEF CallStop, Steps
  <2>2. P!CallStop(c, d, restart)
    BY <1>2, <1>5, <2>1 DEF CallStop, P!CallStop, P!Goto
  <2>. QED
    BY <2>2 DEF P!Next, P!Call
<1>. QED
  BY <1>1, <1>4, <1>5

\* What Daemon has in common with the board: its calls, but the hooks.
LEMMA ControlRefines ==
  ASSUME BoardIInv, NEW c \in Callers, Control(c)
  PROVE  P!Next
<1>. USE DEF BoardIInv, BoardInv, BoardTypeOK
<1>1. hook[c] = pc[c] \/ pc[c] \in BoardSteps
  BY HookValues
<1>2. CASE StartCas(c)
  <2>1. hook' = [hook EXCEPT ![c] = "start_hook"]
    BY <1>2, HookMoves DEF StartCas, locals, Steps, Starting, Stopping
  <2>2. P!StartCas(c)
    BY <1>1, <1>2, <2>1
       DEF StartCas, locals, BoardSteps, P!StartCas, P!Goto, P!locals
  <2>. QED
    BY <2>2 DEF P!Next, P!Run, P!Start
<1>3. CASE StartRefused(c)
  <2>1. \A e \in Callers \ {c} : dmn'[e] = dmn[e] /\ UNCHANGED res
    BY <1>3, Facts DEF StartRefused, Return, Leave
  <2>2. hook' = [hook EXCEPT ![c] = "idle"]
    BY <1>3, <2>1, HookMoves DEF StartRefused, Return, Steps
  <2>3. P!StartRefused(c)
    BY <1>1, <1>3, <2>2
       DEF StartRefused, Return, Leave, BoardSteps, P!StartRefused, P!Return,
           P!Leave, P!Goto
  <2>. QED
    BY <2>3 DEF P!Next, P!Run, P!Start
<1>4. CASE SetStarted(c)
  <2>1. \A e \in Callers \ {c} : dmn'[e] = dmn[e]
    BY <1>4, Facts DEF SetStarted, locals
  <2>2. hook' = [e \in Callers |->
                   IF e = c THEN "start_proc"
                   ELSE IF hook[e] = "asleep" /\ dmn[e] = dmn[c] THEN "wait"
                   ELSE hook[e]]
    BY <1>4, <2>1, HookStores DEF SetStarted, Steps, Starting, Stopping
  <2>3. P!SetStarted(c)
    BY <1>1, <1>4, <2>2
       DEF SetStarted, SetState, locals, BoardSteps, P!SetStarted, P!SetState,
           P!locals
  <2>. QED
    BY <2>3 DEF P!Next, P!Run, P!Start
<1>5. CASE StartProc(c)
  <2>1. \A e \in Callers \ {c} : dmn'[e] = dmn[e] /\ UNCHANGED res
    BY <1>5, Facts DEF StartProc, Return, Leave
  <2>2. hook' = [hook EXCEPT ![c] = "idle"]
    BY <1>5, <2>1, HookMoves DEF StartProc, Return, Steps
  <2>3. P!StartProc(c)
    BY <1>1, <1>5, <2>2
       DEF StartProc, Return, Leave, BoardSteps, P!StartProc, P!Return,
           P!Leave, P!Goto
  <2>. QED
    BY <2>3 DEF P!Next, P!Run, P!Start
<1>6. CASE FailStopping(c)
  <2>1. \A e \in Callers \ {c} : dmn'[e] = dmn[e]
    BY <1>6, Facts DEF FailStopping, locals
  <2>2. hook' = [e \in Callers |->
                   IF e = c THEN "fail_hook"
                   ELSE IF hook[e] = "asleep" /\ dmn[e] = dmn[c] THEN "wait"
                   ELSE hook[e]]
    BY <1>6, <2>1, HookStores DEF FailStopping, Steps, Starting, Stopping
  <2>3. P!FailStopping(c)
    BY <1>1, <1>6, <2>2
       DEF FailStopping, SetState, locals, BoardSteps, P!FailStopping,
           P!SetState, P!locals
  <2>. QED
    BY <2>3 DEF P!Next, P!Run, P!Start
<1>7. CASE FailStopped(c)
  <2>1. \A e \in Callers \ {c} : dmn'[e] = dmn[e]
    BY <1>7, Facts DEF FailStopped, locals, Leave
  <2>2. hook' = [e \in Callers |->
                   IF e = c THEN "idle"
                   ELSE IF hook[e] = "asleep" /\ dmn[e] = dmn[c] THEN "wait"
                   ELSE hook[e]]
    BY <1>7, <2>1, HookStores DEF FailStopped, Steps, Starting, Stopping
  <2>3. P!FailStopped(c)
    BY <1>1, <1>7, <2>2
       DEF FailStopped, SetState, locals, BoardSteps, Leave, P!FailStopped,
           P!SetState, P!locals, P!Leave
  <2>. QED
    BY <2>3 DEF P!Next, P!Run, P!Start
<1>8. CASE StopCas(c)
  <2>1. hook' = [hook EXCEPT ![c] = "stop_hook"]
    BY <1>8, HookMoves DEF StopCas, locals, Steps, Starting, Stopping
  <2>2. P!StopCas(c)
    BY <1>1, <1>8, <2>1
       DEF StopCas, locals, BoardSteps, P!StopCas, P!Goto, P!locals
  <2>. QED
    BY <2>2 DEF P!Next, P!Run, P!Stop
<1>9. CASE StopRefused(c)
  <2>1. \A e \in Callers \ {c} : dmn'[e] = dmn[e] /\ UNCHANGED res
    BY <1>9, Facts DEF StopRefused, StopDone, Return, Leave, locals
  <2>2. ASSUME again[c] PROVE P!StopRefused(c)
    <3>1. hook' = [hook EXCEPT ![c] = "start_cas"]
      BY <1>9, <2>1, <2>2, HookMoves DEF StopRefused, StopDone, Steps
    <3>. QED
      BY <1>1, <1>9, <2>2, <3>1
         DEF StopRefused, StopDone, locals, BoardSteps, P!StopRefused,
             P!StopDone, P!Goto,
             P!locals
  <2>3. ASSUME ~ again[c] PROVE P!StopRefused(c)
    <3>1. hook' = [hook EXCEPT ![c] = "idle"]
      BY <1>9, <2>1, <2>3, HookMoves DEF StopRefused, StopDone, Return, Steps
    <3>. QED
      BY <1>1, <1>9, <2>3, <3>1
         DEF StopRefused, StopDone, Return, Leave, BoardSteps, P!StopRefused,
             P!StopDone,
             P!Return, P!Leave, P!Goto
  <2>. QED
    BY <2>2, <2>3 DEF P!Next, P!Run, P!Stop
<1>10. CASE SetStopped(c)
  <2>1. \A e \in Callers \ {c} : dmn'[e] = dmn[e]
    BY <1>10, Facts DEF SetStopped, locals
  <2>2. hook' = [e \in Callers |->
                   IF e = c THEN "stop_proc"
                   ELSE IF hook[e] = "asleep" /\ dmn[e] = dmn[c] THEN "wait"
                   ELSE hook[e]]
    BY <1>10, <2>1, HookStores DEF SetStopped, Steps, Starting, Stopping
  <2>3. P!SetStopped(c)
    BY <1>1, <1>10, <2>2
       DEF SetStopped, SetState, locals, BoardSteps, P!SetStopped, P!SetState,
           P!locals
  <2>. QED
    BY <2>3 DEF P!Next, P!Run, P!Stop
<1>11. CASE StopProc(c)
  <2>1. \A e \in Callers \ {c} : dmn'[e] = dmn[e] /\ UNCHANGED res
    BY <1>11, Facts DEF StopProc, StopDone, Return, Leave, locals
  <2>2. ASSUME again[c] PROVE P!StopProc(c)
    <3>1. hook' = [hook EXCEPT ![c] = "start_cas"]
      BY <1>11, <2>1, <2>2, HookMoves DEF StopProc, StopDone, Steps
    <3>. QED
      BY <1>1, <1>11, <2>2, <3>1
         DEF StopProc, StopDone, locals, BoardSteps, P!StopProc, P!StopDone,
             P!Goto,
             P!locals
  <2>3. ASSUME ~ again[c] PROVE P!StopProc(c)
    <3>1. hook' = [hook EXCEPT ![c] = "idle"]
      BY <1>11, <2>1, <2>3, HookMoves DEF StopProc, StopDone, Return, Steps
    <3>. QED
      BY <1>1, <1>11, <2>3, <3>1
         DEF StopProc, StopDone, Return, Leave, BoardSteps, P!StopProc,
             P!StopDone,
             P!Return, P!Leave, P!Goto
  <2>. QED
    BY <2>2, <2>3 DEF P!Next, P!Run, P!Stop
<1>. QED
  BY <1>2, <1>3, <1>4, <1>5, <1>6, <1>7, <1>8, <1>9, <1>10, <1>11 DEF Control

\* The end of a start hook, whichever way, and of a stop hook.
LEMMA StartEnds ==
  ASSUME BoardIInv, NEW c \in Callers, pc[c] \in StartSteps \cup {"start_hook"},
         UNCHANGED <<state, locals>>, Acquired(c) \/ Failed(c)
  PROVE  P!Next
<1>. USE DEF BoardIInv, BoardInv, BoardTypeOK
<1>1. hook[c] = "start_hook"
  BY HookValues DEF BoardSteps
<1>2. \A e \in Callers \ {c} : pc[e] \in StopSteps =>
        dmn'[e] = dmn[e] /\ res'[dmn[e]] = res[dmn[e]]
  <2>1. dmn[c] \in Daemons
    BY Facts DEF OwnerFacts, StartSteps
  <2>2. ASSUME NEW e \in Callers \ {c}, pc[e] \in StopSteps
        PROVE  dmn[e] \in Daemons /\ dmn[e] # dmn[c]
    BY <2>2, Facts DEF OwnerFacts, Starting, StartSteps, StopSteps, BoardSteps
  <2>. QED
    BY <2>1, <2>2, Facts DEF Acquired, Failed, locals
<1>3. CASE Acquired(c)
  <2>1. hook' = [hook EXCEPT ![c] = "set_started"]
    BY <1>2, <1>3, HookMoves DEF Acquired, Steps, Starting
  <2>2. P!StartHook(c)
    BY <1>1, <1>3, <2>1
       DEF Acquired, locals, P!StartHook, P!Goto, P!locals
  <2>. QED
    BY <2>2 DEF P!Next, P!Run, P!Start
<1>4. CASE Failed(c)
  <2>1. hook' = [hook EXCEPT ![c] = "fail_stopping"]
    BY <1>2, <1>4, HookMoves DEF Failed, Steps, Starting
  <2>2. P!StartHookFails(c)
    BY <1>1, <1>4, <2>1
       DEF Failed, locals, P!StartHookFails, P!Goto, P!locals
  <2>. QED
    BY <2>2 DEF P!Next, P!Run, P!Start
<1>. QED
  BY <1>3, <1>4

\* The last step of a stop hook, or of the one that cleans up.
LEMMA StopEnds ==
  ASSUME BoardIInv, NEW c \in Callers,
         pc[c] \in StopSteps \cup {"stop_hook", "fail_hook"},
         UNCHANGED <<state, locals>>, Released(c)
  PROVE  P!Next
<1>. USE DEF BoardIInv, BoardInv, BoardTypeOK
<1>1. hook[c] = IF res[dmn[c]] = "part" THEN "fail_hook" ELSE "stop_hook"
  BY HookValues DEF PlaceInv, BoardSteps, StopSteps
<1>2. \A e \in Callers \ {c} : pc[e] \in StopSteps =>
        dmn'[e] = dmn[e] /\ res'[dmn[e]] = res[dmn[e]]
  <2>1. dmn[c] \in Daemons
    BY Facts DEF OwnerFacts, StopSteps
  <2>2. ASSUME NEW e \in Callers \ {c}, pc[e] \in StopSteps
        PROVE  dmn[e] \in Daemons /\ dmn[e] # dmn[c]
    BY <2>2, Facts DEF OwnerFacts, Stopping, StopSteps, BoardSteps
  <2>. QED
    BY <2>1, <2>2, Facts DEF Released, locals
<1>3. CASE res[dmn[c]] = "part"
  <2>1. hook' = [hook EXCEPT ![c] = "fail_stopped"]
    BY <1>2, <1>3, HookMoves DEF Released, Steps, Stopping
  <2>2. P!FailHook(c)
    BY <1>1, <1>3, <2>1
       DEF Released, locals, P!FailHook, P!Goto, P!locals
  <2>. QED
    BY <2>2 DEF P!Next, P!Run, P!Start
<1>4. CASE res[dmn[c]] # "part"
  <2>1. hook' = [hook EXCEPT ![c] = "set_stopped"]
    BY <1>2, <1>4, HookMoves DEF Released, Steps, Stopping
  <2>2. P!StopHook(c)
    BY <1>1, <1>4, <2>1
       DEF Released, locals, P!StopHook, P!Goto, P!locals
  <2>. QED
    BY <2>2 DEF P!Next, P!Run, P!Stop
<1>. QED
  BY <1>3, <1>4

\* The rest of a hook is hidden from Daemon.
LEMMA HookGoesOn ==
  ASSUME BoardIInv, NEW c \in Callers,
         NEW place \in BoardSteps, Proceed(c, place),
         UNCHANGED <<state, locals>>,
         \/ pc[c] \in StartSteps \cup {"start_hook"} /\ place \in StartSteps
         \/ pc[c] \in StopSteps \cup {"stop_hook", "fail_hook"}
               /\ place \in StopSteps
  PROVE  UNCHANGED P!vars
<1>1. pc[c] = "fail_hook" => res[dmn[c]] = "part"
  BY DEF BoardIInv, BoardInv, PlaceInv
<1>2. pc[c] = "stop_hook" => res[dmn[c]] # "part"
  BY DEF BoardIInv, BoardInv, PlaceInv
<1>3. hook' = hook
  BY <1>1, <1>2, HookStays DEF Proceed, locals, BoardIInv, BoardInv, BoardTypeOK
<1>. QED
  BY <1>3 DEF P!vars, Proceed, locals

\* A step inside a hook is that hook of Daemon, or nothing it sees.
LEMMA HookRefines ==
  ASSUME BoardIInv, NEW c \in Callers, Hooks(c)
  PROVE  [P!Next]_(P!vars)
<1>. USE DEF At, BoardSteps, StartSteps, StopSteps
<1>1. CASE WifiBegin(c)
  BY <1>1, StartEnds, HookGoesOn DEF WifiBegin
<1>2. CASE WifiVerify(c)
  BY <1>2, StartEnds, HookGoesOn DEF WifiVerify
<1>3. CASE WifiStop(c)
  BY <1>3, StopEnds DEF WifiStop, StopBegins
<1>4. CASE TbdArgs(c)
  BY <1>4, StartEnds, HookGoesOn DEF TbdArgs
<1>5. CASE TbdConnect(c)
  BY <1>5, StartEnds, HookGoesOn DEF TbdConnect
<1>6. CASE TbdRpc(c)
  BY <1>6, StartEnds, HookGoesOn DEF TbdRpc
<1>7. CASE TbdAttrs(c)
  BY <1>7, StartEnds, HookGoesOn DEF TbdAttrs
<1>8. CASE TbdFota(c)
  BY <1>8, StartEnds, HookGoesOn DEF TbdFota
<1>9. CASE TbdLaunch(c)
  BY <1>9, StartEnds, HookGoesOn DEF TbdLaunch
<1>10. CASE TbdHandle(c)
  BY <1>10, StartEnds, HookGoesOn DEF TbdHandle
<1>11. CASE TbdWaitExit(c)
  BY <1>11, HookGoesOn DEF TbdWaitExit, StopBegins
<1>12. CASE TbdJoin(c)
  BY <1>12, HookGoesOn DEF TbdJoin, StopBegins
<1>13. CASE TbdDisconnect(c)
  BY <1>13, HookGoesOn DEF TbdDisconnect, StopBegins
<1>14. CASE TbdCleanup(c)
  BY <1>14, StopEnds DEF TbdCleanup
<1>. QED
  BY <1>1, <1>2, <1>3, <1>4, <1>5, <1>6, <1>7, <1>8, <1>9, <1>10, <1>11,
     <1>12, <1>13, <1>14 DEF Hooks

\* The task, the network and the air touch nothing that Daemon knows.
LEMMA OthersRefine ==
  ASSUME TaskSteps \/ Air \/ Drop
  PROVE  UNCHANGED P!vars
<1>1. UNCHANGED vars
  BY DEF TaskSteps, Main, Code, Connected, Update, Loop, Callback, Ended, Step,
         Air, Drop
<1>. QED
  BY <1>1 DEF P!vars, vars, hook, HookOf

\* Together: every step of the board is a step of Daemon, or none.
LEMMA StepRefines == BoardIInv /\ [BoardNext]_bvars => [P!Next]_(P!vars)
<1>. SUFFICES ASSUME BoardIInv, [BoardNext]_bvars PROVE [P!Next]_(P!vars)
  OBVIOUS
<1>1. CASE UNCHANGED bvars
  BY <1>1 DEF bvars, vars, P!vars, hook, HookOf
<1>. QED
  BY <1>1, CallRefines, ControlRefines, HookRefines, OthersRefine DEF BoardNext

-----------------------------------------------------------------------------
(* What the board holds keeps up with its steps.                             *)

\* The values the steps of a Thingsboard hook give, in Zenon's terms for flags.
LEMMA TbdTypes ==
  ASSUME BoardTypeOK, NEW c \in Callers,
         \/ TbdArgs(c) \/ TbdConnect(c) \/ TbdRpc(c) \/ TbdAttrs(c)
         \/ TbdFota(c) \/ TbdLaunch(c) \/ TbdWaitExit(c) \/ TbdDisconnect(c)
  PROVE  BoardTypeOK'
<1>. USE DEF BoardTypeOK, TbdArgs, TbdConnect, TbdRpc, TbdAttrs, TbdFota,
             TbdLaunch, TbdWaitExit, TbdDisconnect, At, Failed, Proceed, Goto,
             station, device, tasks
<1>1. pc' \in [Callers -> Steps \cup BoardSteps]
  BY DEF BoardSteps, Steps, Starting
<1>2. UNCHANGED <<state, net, attempt, mark>>
  OBVIOUS
<1>3. /\ subs' \in {subs, subs \cup {"rpc"}, subs \cup {"sattr"},
                    subs \cup {"fota"}}
      /\ task' \in {task, "main"}
  OBVIOUS
<1>4. link' \in BOOLEAN /\ handle' \in BOOLEAN /\ exit' \in BOOLEAN
  BY Zenon
<1>. HIDE DEF TbdArgs, TbdConnect, TbdRpc, TbdAttrs, TbdFota, TbdLaunch,
              TbdWaitExit, TbdDisconnect
<1>. QED
  BY <1>1, <1>2, <1>3, <1>4

\* Who is in a hook of the Thingsboard daemon is its only owner.
LEMMA TbdAlone ==
  ASSUME OwnerFacts, NEW c \in Callers, dmn[c] = Tbd,
         pc[c] \in {"start_hook", "stop_hook", "fail_hook"} \cup BoardSteps,
         NEW place, Goto(c, place), pc \in [Callers -> Steps \cup BoardSteps]
  PROVE  /\ state[Tbd] \notin {"STARTED", "STOPPED"}
         /\ \A e \in Callers \ {c} : dmn[e] = Tbd =>
              pc'[e] \notin Starting \cup Stopping \cup BoardSteps
BY DEF OwnerFacts, Goto, Starting, Stopping, StartSteps, StopSteps, BoardSteps

\* Each step keeps what BoardInv says; the owner of a daemon is alone with it.
LEMMA BoardStep ==
  ASSUME BoardInv, OwnerFacts, state \in [Daemons -> States],
         res \in [Daemons -> {"none", "part", "all"}],
         dmn \in [Callers -> Daemons \cup {NoDaemon}],
         \A d \in Daemons : state[d] = "STARTED" => res[d] = "all",
         [BoardNext]_bvars
  PROVE  BoardInv'
<1>. USE BoardAssumption, DaemonAssumption
     DEF BoardInv, BoardTypeOK, PlaceInv, DeviceInv, StationInv, OwnerFacts,
         Holding, NoTask, Running, Working, BoardSteps, StartSteps, StopSteps,
         Steps, Starting, Stopping, States, station, device, tasks, locals, Goto
<1>1. ASSUME NEW c \in Callers, BoardCall(c) PROVE BoardInv'
  BY <1>1 DEF BoardCall, CallStart, CallStop
<1>2. ASSUME NEW c \in Callers, StartCas(c),
             UNCHANGED <<station, device, tasks, mark>>
      PROVE  BoardInv'
  BY <1>2 DEF StartCas
<1>3. ASSUME NEW c \in Callers, StartRefused(c),
             UNCHANGED <<station, device, tasks, mark>>
      PROVE  BoardInv'
  BY <1>3 DEF StartRefused, Return, Leave
<1>4. ASSUME NEW c \in Callers, SetStarted(c),
             UNCHANGED <<station, device, tasks, mark>>
      PROVE  BoardInv'
  BY <1>4 DEF SetStarted, SetState
<1>5. ASSUME NEW c \in Callers, StartProc(c),
             UNCHANGED <<station, device, tasks, mark>>
      PROVE  BoardInv'
  BY <1>5 DEF StartProc, Return, Leave
<1>6. ASSUME NEW c \in Callers, FailStopping(c),
             UNCHANGED <<station, device, tasks, mark>>
      PROVE  BoardInv'
  BY <1>6 DEF FailStopping, SetState
<1>7. ASSUME NEW c \in Callers, FailStopped(c),
             UNCHANGED <<station, device, tasks, mark>>
      PROVE  BoardInv'
  BY <1>7 DEF FailStopped, SetState, Leave
<1>8. ASSUME NEW c \in Callers, StopCas(c),
             UNCHANGED <<station, device, tasks, mark>>
      PROVE  BoardInv'
  BY <1>8 DEF StopCas
<1>9. ASSUME NEW c \in Callers, StopRefused(c),
             UNCHANGED <<station, device, tasks, mark>>
      PROVE  BoardInv'
  BY <1>9 DEF StopRefused, StopDone, Return, Leave
<1>10. ASSUME NEW c \in Callers, SetStopped(c),
             UNCHANGED <<station, device, tasks, mark>>
      PROVE  BoardInv'
  BY <1>10 DEF SetStopped, SetState
<1>11. ASSUME NEW c \in Callers, StopProc(c),
             UNCHANGED <<station, device, tasks, mark>>
      PROVE  BoardInv'
  BY <1>11 DEF StopProc, StopDone, Return, Leave
<1>12. ASSUME NEW c \in Callers, WifiBegin(c) PROVE BoardInv'
  BY <1>12 DEF WifiBegin, At, Failed, Proceed
<1>13. ASSUME NEW c \in Callers, WifiVerify(c) PROVE BoardInv'
  BY <1>13 DEF WifiVerify, At, Failed, Acquired, Proceed
<1>14. ASSUME NEW c \in Callers, WifiStop(c) PROVE BoardInv'
  BY <1>14 DEF WifiStop, At, StopBegins, Released
<1>15. ASSUME NEW c \in Callers, TbdArgs(c) PROVE BoardInv'
  <2>1. BoardTypeOK'
    BY <1>15, TbdTypes
  <2>2. PlaceInv'
    BY <1>15 DEF TbdArgs, At, Failed, Proceed
  <2>3. StationInv'
    BY <1>15 DEF TbdArgs, At, Failed, Proceed
  <2>4. DeviceInv'
    BY <1>15, TbdAlone DEF TbdArgs, At, Failed, Proceed
  <2>. QED
    BY <2>1, <2>2, <2>3, <2>4
<1>16. ASSUME NEW c \in Callers, TbdConnect(c) PROVE BoardInv'
  <2>1. BoardTypeOK'
    BY <1>16, TbdTypes
  <2>2. PlaceInv'
    BY <1>16 DEF TbdConnect, At, Failed, Proceed
  <2>3. StationInv'
    BY <1>16 DEF TbdConnect, At, Failed, Proceed
  <2>4. DeviceInv'
    BY <1>16, TbdAlone DEF TbdConnect, At, Failed, Proceed
  <2>. QED
    BY <2>1, <2>2, <2>3, <2>4
<1>17. ASSUME NEW c \in Callers, TbdRpc(c) PROVE BoardInv'
  <2>1. BoardTypeOK'
    BY <1>17, TbdTypes
  <2>2. PlaceInv'
    BY <1>17 DEF TbdRpc, At, Failed, Proceed
  <2>3. StationInv'
    BY <1>17 DEF TbdRpc, At, Failed, Proceed
  <2>4. DeviceInv'
    BY <1>17, TbdAlone DEF TbdRpc, At, Failed, Proceed
  <2>. QED
    BY <2>1, <2>2, <2>3, <2>4
<1>18. ASSUME NEW c \in Callers, TbdAttrs(c) PROVE BoardInv'
  <2>1. BoardTypeOK'
    BY <1>18, TbdTypes
  <2>2. PlaceInv'
    BY <1>18 DEF TbdAttrs, At, Failed, Proceed
  <2>3. StationInv'
    BY <1>18 DEF TbdAttrs, At, Failed, Proceed
  <2>4. DeviceInv'
    BY <1>18, TbdAlone DEF TbdAttrs, At, Failed, Proceed
  <2>. QED
    BY <2>1, <2>2, <2>3, <2>4
<1>19. ASSUME NEW c \in Callers, TbdFota(c) PROVE BoardInv'
  <2>1. BoardTypeOK'
    BY <1>19, TbdTypes
  <2>2. PlaceInv'
    BY <1>19 DEF TbdFota, At, Failed, Proceed
  <2>3. StationInv'
    BY <1>19 DEF TbdFota, At, Failed, Proceed
  <2>4. DeviceInv'
    BY <1>19, TbdAlone DEF TbdFota, At, Failed, Proceed
  <2>. QED
    BY <2>1, <2>2, <2>3, <2>4
<1>20. ASSUME NEW c \in Callers, TbdLaunch(c) PROVE BoardInv'
  <2>1. BoardTypeOK'
    BY <1>20, TbdTypes
  <2>2. PlaceInv'
    BY <1>20 DEF TbdLaunch, At, Failed, Proceed
  <2>3. StationInv'
    BY <1>20 DEF TbdLaunch, At, Failed, Proceed
  <2>4. DeviceInv'
    BY <1>20, TbdAlone DEF TbdLaunch, At, Failed, Proceed
  <2>. QED
    BY <2>1, <2>2, <2>3, <2>4
<1>21. ASSUME NEW c \in Callers, TbdHandle(c) PROVE BoardInv'
  BY <1>21 DEF TbdHandle, At, Acquired
<1>22. ASSUME NEW c \in Callers, TbdWaitExit(c) PROVE BoardInv'
  <2>1. BoardTypeOK'
    BY <1>22, TbdTypes
  <2>2. PlaceInv'
    BY <1>22 DEF TbdWaitExit, At, StopBegins, Proceed
  <2>3. StationInv'
    BY <1>22 DEF TbdWaitExit, At, StopBegins, Proceed
  <2>4. DeviceInv'
    BY <1>22, TbdAlone DEF TbdWaitExit, At, StopBegins, Proceed
  <2>. QED
    BY <2>1, <2>2, <2>3, <2>4
<1>23. ASSUME NEW c \in Callers, TbdJoin(c) PROVE BoardInv'
  BY <1>23 DEF TbdJoin, At, Proceed
<1>24. ASSUME NEW c \in Callers, TbdDisconnect(c) PROVE BoardInv'
  <2>1. BoardTypeOK'
    BY <1>24, TbdTypes
  <2>2. PlaceInv'
    BY <1>24 DEF TbdDisconnect, At, Proceed
  <2>3. StationInv'
    BY <1>24 DEF TbdDisconnect, At, Proceed
  <2>4. DeviceInv'
    BY <1>24, TbdAlone DEF TbdDisconnect, At, Proceed
  <2>. QED
    BY <2>1, <2>2, <2>3, <2>4
<1>25. ASSUME NEW c \in Callers, TbdCleanup(c) PROVE BoardInv'
  BY <1>25 DEF TbdCleanup, At, Released
<1>26. CASE Main
  BY <1>26 DEF Main, vars, Step
<1>27. CASE Code
  BY <1>27 DEF Code, vars, Step
<1>28. CASE Connected
  BY <1>28 DEF Connected, vars, Step
<1>29. CASE Update
  BY <1>29 DEF Update, vars, Step
<1>30. CASE Loop
  BY <1>30 DEF Loop, vars, Step, Announced
<1>31. CASE Callback
  BY <1>31 DEF Callback, vars, Step, Announced
<1>32. CASE Ended
  BY <1>32 DEF Ended, vars, Step
<1>33. CASE Air
  BY <1>33 DEF Air, vars
<1>34. CASE Drop
  <2>1. link' = FALSE /\ UNCHANGED <<vars, station, subs, tasks, mark>>
    BY <1>34 DEF Drop
  <2>2. BoardTypeOK' /\ PlaceInv' /\ StationInv'
    BY <2>1 DEF vars
  <2>3. Holding' => Holding
    BY <2>1
  <2>4. DeviceInv'
    BY <2>1, <2>3 DEF vars
  <2>. QED
    BY <2>2, <2>4
<1>35. CASE UNCHANGED bvars
  BY <1>35 DEF bvars, vars
<1>. HIDE DEF BoardInv
<1>36. ASSUME NEW c \in Callers, Control(c) PROVE BoardInv'
  BY <1>36, <1>2, <1>3, <1>4, <1>5, <1>6, <1>7, <1>8, <1>9, <1>10, <1>11 DEF
     Control
<1>37. ASSUME NEW c \in Callers, Hooks(c) PROVE BoardInv'
  BY <1>37, <1>12, <1>13, <1>14, <1>15, <1>16, <1>17, <1>18, <1>19, <1>20,
     <1>21, <1>22, <1>23, <1>24, <1>25 DEF Hooks
<1>. QED
  BY <1>1, <1>26, <1>27, <1>28, <1>29, <1>30, <1>31, <1>32, <1>33, <1>34,
     <1>35, <1>36, <1>37 DEF BoardNext, TaskSteps

-----------------------------------------------------------------------------
(* What holds of every behaviour of the board.                               *)

\* The board begins where Daemon begins, holding nothing.
LEMMA InitInv == BoardInit => P!Init /\ BoardIInv
<1>. SUFFICES ASSUME BoardInit PROVE P!Init /\ BoardIInv
  OBVIOUS
<1>1. hook = [c \in Callers |-> "idle"]
  BY DEF BoardInit, Init, hook, HookOf
<1>2. P!Init
  BY <1>1 DEF BoardInit, Init, P!Init
<1>3. P!IInv
  BY <1>2, P!IInvInit, DaemonAssumption
<1>4. BoardTypeOK
  BY DEF BoardInit, Init, BoardTypeOK, Steps, States
<1>5. PlaceInv /\ DeviceInv /\ StationInv
  BY BoardAssumption
     DEF BoardInit, Init, PlaceInv, DeviceInv, StationInv, Holding, BoardSteps,
         StopSteps
<1>. QED
  BY <1>2, <1>3, <1>4, <1>5 DEF BoardIInv, BoardInv

\* Every step of the board keeps the invariant.
LEMMA StepInv == BoardIInv /\ [BoardNext]_bvars => BoardIInv'
<1>. SUFFICES ASSUME BoardIInv, [BoardNext]_bvars PROVE BoardIInv'
  OBVIOUS
<1>1. P!IInv'
  <2>1. P!IInv /\ [P!Next]_(P!vars)
    BY StepRefines DEF BoardIInv
  <2>. QED
    BY <2>1, P!IInvStep, DaemonAssumption
<1>2. \A d \in Daemons : state[d] = "STARTED" => res[d] = "all"
  BY DEF BoardIInv, P!IInv, P!StateTellsResources
<1>3. BoardInv'
  BY <1>2, Facts, BoardStep DEF BoardIInv
<1>. QED
  BY <1>1, <1>3 DEF BoardIInv

\* The invariant holds in every behaviour of the board.
LEMMA SpecInv == BoardSpec => []BoardIInv
<1>1. BoardInit => BoardIInv
  BY InitInv
<1>. QED
  BY <1>1, StepInv, PTL DEF BoardSpec

\* Every variable keeps to the values the code gives it.
THEOREM BoardTypeCorrect == BoardSpec => []BoardTypeOK
<1>1. BoardIInv => BoardTypeOK
  BY DEF BoardIInv, BoardInv
<1>. QED
  BY <1>1, SpecInv, PTL

\* STARTED and STOPPED tell what the board really holds, whichever call of a
\* start had failed (thingsboard_daemon.hpp:138-253, wifi_daemon.hpp:50-83).
THEOREM StateTellsBoardAlways == BoardSpec => []StateTellsBoard
<1>1. BoardIInv => StateTellsBoard
  BY DEF BoardIInv, BoardInv, DeviceInv, StationInv, StateTellsBoard, Working,
         Running
<1>. QED
  BY <1>1, SpecInv, PTL

\* One thread at a time is in the device, which has no lock, however many
\* threads start and stop its daemon (thingsboard_daemon.hpp:208, :247-250).
THEOREM OneUsesDeviceAlways == BoardSpec => []OneUsesDevice
<1>1. BoardIInv => OneUsesDevice
  <2>. SUFFICES ASSUME BoardIInv, NEW c \in Callers, CallerUses(c)
                PROVE  ~ TaskUses /\ \A e \in Callers \ {c} : ~ CallerUses(e)
    BY DEF OneUsesDevice
  <2>1. \A e \in Callers : CallerUses(e) => dmn[e] = Tbd /\ pc[e] \in BoardSteps
    BY DEF CallerUses, BoardIInv, BoardInv, PlaceInv, BoardSteps
  <2>2. task = "none"
    BY <2>1 DEF CallerUses, BoardIInv, BoardInv, DeviceInv, Holding, NoTask
  <2>3. \A e \in Callers \ {c} : ~ CallerUses(e)
    BY <2>1, Facts DEF OwnerFacts
  <2>. QED
    BY <2>2, <2>3 DEF TaskUses
<1>. QED
  BY <1>1, SpecInv, PTL

\* Service, through which the run states the refinement, and P are one.
LEMMA SameService ==
  /\ P!Init => Service!Init
  /\ [P!Next]_(P!vars) => [Service!Next]_(Service!vars)
BY DEF hook, Service!Init, P!Init, Service!Next, P!Next, Service!Call,
       P!Call, Service!Run, P!Run, Service!Start, P!Start, Service!Stop,
       P!Stop, Service!Wait, P!Wait, Service!CallStart, P!CallStart,
       Service!CallStop, P!CallStop, Service!CallWait, P!CallWait,
       Service!StartCas, P!StartCas, Service!StartRefused, P!StartRefused,
       Service!StartHook, P!StartHook, Service!StartHookFails,
       P!StartHookFails, Service!SetStarted, P!SetStarted,
       Service!StartProc, P!StartProc, Service!FailStopping, P!FailStopping,
       Service!FailHook, P!FailHook, Service!FailStopped, P!FailStopped,
       Service!StopCas, P!StopCas, Service!StopRefused, P!StopRefused,
       Service!StopHook, P!StopHook, Service!SetStopped, P!SetStopped,
       Service!StopProc, P!StopProc, Service!WaitSleep, P!WaitSleep,
       Service!WaitReturn, P!WaitReturn, Service!Goto, P!Goto,
       Service!Leave, P!Leave, Service!Return, P!Return, Service!StopDone,
       P!StopDone, Service!SetState, P!SetState, Service!locals, P!locals,
       Service!States, P!States, Service!vars, P!vars

\* The board implements the daemons of module Daemon, step by step, for any
\* number of threads: a hook of many calls looks like the one step it is there
\* (daemon.hpp:76-108).
THEOREM BoardImplementsDaemon == BoardSpec => ImplementsDaemon
<1>1. BoardInit => Service!Init
  BY InitInv, SameService
<1>2. BoardIInv /\ [BoardNext]_bvars => [Service!Next]_(Service!vars)
  BY StepRefines, SameService
<1>. QED
  BY <1>1, <1>2, SpecInv, PTL DEF BoardSpec, ImplementsDaemon

-----------------------------------------------------------------------------
(* The sensors *)

\* The one shot that sleeps waits for the conversion that runs or has ended.
ShotInv ==
  /\ chip \in {"bmp", "bme"} /\ data \in Nat /\ shot \in Nat
  /\ shot # 0 => \/ mode = "forced" /\ shot = data + 1
                 \/ mode = "sleep" /\ shot = data

\* The calibration words come in their order, and all of them before
\* load_calibs returns RGH_OK.
CalInv ==
  /\ "H" \in cal => "TP" \in cal /\ "H1" \in cal
  /\ ready => "TP" \in cal /\ (chip = "bme" => "H" \in cal)

\* A sensor that was never read has nothing to hand out.
LEMMA ShotInit == BInit => ShotInv /\ CalInv
BY DEF BInit, ShotInv, CalInv

\* A load_calibs that fails anywhere leaves the words in order.
LEMMA CalibsInOrder == ShotInv /\ CalInv /\ LoadCalibs => CalInv'
<1>. SUFFICES ASSUME ShotInv, CalInv, LoadCalibs PROVE CalInv'
  OBVIOUS
<1>. DEFINE reads == IF chip = "bme" THEN CalibBme ELSE CalibBmp
<1>1. chip' = chip
  BY DEF LoadCalibs
<1>2. PICK n \in 0 .. Len(reads) :
        /\ cal' = cal \cup {reads[k] : k \in 1 .. n}
        /\ ready' = (ready \/ n = Len(reads))
  BY DEF LoadCalibs
<1>3. CASE chip = "bme"
  <2>1. /\ reads = <<"TP", "H1", "H">> /\ Len(reads) = 3
        /\ reads[1] = "TP" /\ reads[2] = "H1" /\ reads[3] = "H"
    BY <1>3 DEF CalibBme, CalibBmp
  <2>. HIDE DEF reads
  <2>2. n \in {0, 1, 2, 3}
    BY <1>2, <2>1
  <2>3. n >= 1 => "TP" \in cal'
    BY <1>2, <2>1, <2>2
  <2>4. n >= 2 => "H1" \in cal'
    BY <1>2, <2>1, <2>2
  <2>5. "H" \in {reads[k] : k \in 1 .. n} => n = 3
    BY <2>1, <2>2
  <2>6. n = 3 => "H" \in cal'
    BY <1>2, <2>1, <2>2
  <2>7. "H" \in cal' => "TP" \in cal' /\ "H1" \in cal'
    BY <1>2, <2>3, <2>4, <2>5 DEF CalInv
  <2>8. ready' => "TP" \in cal' /\ "H" \in cal'
    <3>1. CASE ready
      BY <1>2, <1>3, <3>1 DEF CalInv
    <3>2. CASE n = Len(reads)
      BY <2>1, <2>3, <2>6, <3>2
    <3>. QED  BY <1>2, <3>1, <3>2
  <2>. QED  BY <2>7, <2>8 DEF CalInv
<1>4. CASE chip = "bmp"
  <2>1. reads = <<"TP">> /\ Len(reads) = 1 /\ reads[1] = "TP"
    BY <1>4 DEF CalibBmp
  <2>. HIDE DEF reads
  <2>2. n \in {0, 1}
    BY <1>2, <2>1
  <2>3. n = 1 => "TP" \in cal'
    BY <1>2, <2>1
  <2>4. "H" \notin {reads[k] : k \in 1 .. n}
    BY <2>1, <2>2
  <2>. QED  BY <1>1, <1>2, <1>4, <2>1, <2>2, <2>3, <2>4 DEF CalInv
<1>. QED  BY <1>3, <1>4 DEF ShotInv

\* Every call on the sensor keeps what it hands out together.
LEMMA ShotStep ==
  ShotInv /\ CalInv /\ [BNext]_bmxvars => (ShotInv /\ CalInv)'
<1>. SUFFICES ASSUME ShotInv, CalInv, [BNext]_bmxvars
              PROVE ShotInv' /\ CalInv'
  OBVIOUS
<1>1. CASE Convert
  BY <1>1 DEF Convert, ShotInv, CalInv
<1>2. CASE SetMode
  BY <1>2 DEF SetMode, StoreCtrlMeas, ShotInv, CalInv
<1>3. CASE LoadCalibs
  <2>1. ShotInv'
    BY <1>3 DEF LoadCalibs, ShotInv
  <2>. QED  BY <1>3, <2>1, CalibsInOrder
<1>4. CASE LoadData \/ LoadDataF \/ OneshotLoad
  BY <1>4 DEF LoadData, LoadDataF, OneshotLoad, Load, ShotInv, CalInv
<1>5. CASE Oneshot
  BY <1>5 DEF Oneshot, StoreCtrlMeas, ShotInv, CalInv
<1>6. CASE UNCHANGED bmxvars
  BY <1>6 DEF bmxvars, ShotInv, CalInv
<1>. QED  BY <1>1, <1>2, <1>3, <1>4, <1>5, <1>6 DEF BNext

\* A value of one conversion: its own, with all of the words it needs and with
\* the calibrated temperature of that conversion.
Whole(v) == v.of = data /\ v.cal /\ v.fine = [of |-> data, cal |-> TRUE]

\* A compensation with the temperature of the registers is whole, or marked.
LEMMA Compensates ==
  ASSUME CalInv
  PROVE  /\ CalibRawTemperature.of = data
         /\ ready => Whole(CalibRawTemperature)
         /\ CalibRawPressure(FineTemp) # Invalid =>
              Whole(CalibRawPressure(FineTemp))
         /\ CalibRawHumidity(FineTemp) # Dry =>
              Whole(CalibRawHumidity(FineTemp))
         /\ ready => \A f : CalibRawPressure(f).of = data
         /\ ready /\ chip = "bme" => CalibRawHumidity(FineTemp).of = data
<1>1. FineTemp = [of |-> data, cal |-> "TP" \in cal]
  BY DEF FineTemp
<1>2. "TP" \in cal => FineTemp = [of |-> data, cal |-> TRUE]
  BY <1>1
<1>3. "TP" \in cal => Whole(CalibRawTemperature)
  BY <1>1, <1>2 DEF CalibRawTemperature, Reading, Whole
<1>4. "TP" \in cal => Whole(CalibRawPressure(FineTemp))
  BY <1>2 DEF CalibRawPressure, Reading, Whole
<1>5. "H" \in cal => Whole(CalibRawHumidity(FineTemp))
  BY <1>2 DEF CalibRawHumidity, Reading, Whole, CalInv
<1>6. CalibRawTemperature.of = data
  BY DEF CalibRawTemperature, Reading
<1>7. "TP" \in cal => \A f : CalibRawPressure(f).of = data
  BY DEF CalibRawPressure, Reading
<1>8. "H" \in cal => CalibRawHumidity(FineTemp).of = data
  BY DEF CalibRawHumidity, Reading
<1>9. /\ "TP" \notin cal => CalibRawPressure(FineTemp) = Invalid
      /\ "H" \notin cal => CalibRawHumidity(FineTemp) = Dry
  BY DEF CalibRawPressure, CalibRawHumidity
<1>. QED
  BY <1>3, <1>4, <1>5, <1>6, <1>7, <1>8, <1>9 DEF CalInv

\* What a load hands out, whatever it is asked for.
LEMMA LoadGives ==
  ASSUME NEW asked \in SUBSET Quantities, NEW given \in SUBSET Quantities,
         given \subseteq asked, ShotInv, CalInv, Load(asked, given)
  PROVE  /\ out'.press \notin {Unset, Invalid} =>
              Whole(out'.press) \/ (chip = "bmp" /\ out'.temp = Unset)
         /\ out'.hum \notin {Unset, Dry} => Whole(out'.hum)
         /\ ready => /\ out'.press # Invalid /\ out'.hum # Dry
                     /\ out'.temp # Unset => Whole(out'.temp)
         /\ "temp" \in given => out'.temp.of = data
<1>. DEFINE l == IF chip = "bme" THEN LoadedBme(asked) ELSE LoadedBmp(asked)
<1>1. /\ out'.temp = IF "temp" \in given THEN l.out.temp ELSE Unset
      /\ out'.press = IF "press" \in given THEN l.out.press ELSE Unset
      /\ out'.hum = IF "hum" \in given THEN l.out.hum ELSE Unset
  BY DEF Load, NoReading
<1>2. /\ Unset.of = -1 /\ Invalid.of = -2 /\ Dry.of = -3 /\ data \in Nat
  BY DEF Unset, Invalid, Dry, Reading, ShotInv
<1>3. Unset # Invalid /\ Unset # Dry
  BY <1>2
<1>4. CASE chip = "bme"
  <2>1. /\ l.out.temp = IF "temp" \in asked THEN CalibRawTemperature ELSE Unset
        /\ l.out.press = IF "press" \in asked
                         THEN CalibRawPressure(FineTemp) ELSE Unset
        /\ l.out.hum = IF "hum" \in asked
                       THEN CalibRawHumidity(FineTemp) ELSE Unset
    BY <1>4 DEF LoadedBme, Filled
  <2>. HIDE DEF l
  <2>2. out'.press = CalibRawPressure(FineTemp) \/ out'.press = Unset
    BY <1>1, <2>1
  <2>3. out'.hum = CalibRawHumidity(FineTemp) \/ out'.hum = Unset
    BY <1>1, <2>1
  <2>4. /\ "temp" \in given => out'.temp = CalibRawTemperature
        /\ out'.temp = CalibRawTemperature \/ out'.temp = Unset
    BY <1>1, <2>1
  <2>5. ready => out'.press # Invalid /\ out'.hum # Dry
    BY <1>2, <1>3, <1>4, <2>2, <2>3, Compensates
  <2>. QED  BY <2>2, <2>3, <2>4, <2>5, Compensates
<1>5. CASE chip = "bmp"
  <2>. DEFINE f == IF "temp" \in asked THEN FineTemp ELSE fine
  <2>1. /\ l.out.temp = IF "temp" \in asked THEN CalibRawTemperature ELSE Unset
        /\ l.out.press = IF "press" \in asked
                         THEN CalibRawPressure(f) ELSE Unset
        /\ l.out.hum = Unset
    BY <1>5 DEF LoadedBmp, Filled
  <2>. HIDE DEF l
  <2>2. out'.press = CalibRawPressure(f) \/ out'.press = Unset
    BY <1>1, <2>1
  <2>3. "temp" \notin asked => out'.temp = Unset
    BY <1>1, <2>1
  <2>4. out'.press \notin {Unset, Invalid} =>
          Whole(out'.press) \/ out'.temp = Unset
    BY <2>2, <2>3, Compensates
  <2>5. out'.hum = Unset
    BY <1>1, <2>1
  <2>6. /\ "temp" \in given => out'.temp = CalibRawTemperature
        /\ out'.temp = CalibRawTemperature \/ out'.temp = Unset
    BY <1>1, <2>1
  <2>7. ready => out'.press # Invalid
    <3>1. ready => CalibRawPressure(f).of = data
      BY Compensates
    <3>. HIDE DEF f
    <3>. QED  BY <1>2, <1>3, <2>2, <3>1
  <2>. QED
    BY <1>3, <1>5, <2>4, <2>5, <2>6, <2>7, Compensates
<1>. QED  BY <1>4, <1>5 DEF ShotInv

\* A pressure or a humidity that is handed out and not marked belongs to the
\* conversion the load read, made with all of its words and with the calibrated
\* temperature of that conversion, and none is marked once load_calibs has
\* returned RGH_OK; the one shot yields its own conversion: for any number of
\* conversions, loads and failures of the bus.
THEOREM AlwaysMeasuredTogether == BInit /\ [][BNext]_bmxvars => MeasuredTogether
<1>. DEFINE Together ==
              out' # out =>
                /\ out'.press \notin {Unset, Invalid} =>
                     Whole(out'.press) \/ (chip = "bmp" /\ out'.temp = Unset)
                /\ out'.hum \notin {Unset, Dry} => Whole(out'.hum)
                /\ ready => /\ out'.press # Invalid /\ out'.hum # Dry
                            /\ out'.temp # Unset => Whole(out'.temp)
                /\ shot # 0 => out'.temp.of = shot
<1>1. ShotInv /\ CalInv /\ [BNext]_bmxvars => [Together]_bmxvars
  <2>. SUFFICES ASSUME ShotInv, CalInv, BNext, out' # out PROVE Together
    BY DEF bmxvars
  <2>1. CASE LoadData
    <3>1. PICK asked \in SUBSET Quantities : Load(asked, asked)
      BY <2>1 DEF LoadData
    <3>. QED  BY <2>1, <3>1, LoadGives DEF LoadData
  <2>2. CASE LoadDataF
    <3>1. PICK given \in SUBSET Quantities : Load(Quantities, given)
      BY <2>2 DEF LoadDataF
    <3>. QED  BY <2>2, <3>1, LoadGives DEF LoadDataF
  <2>3. CASE OneshotLoad
    <3>1. Load(Quantities, Quantities) /\ shot = data
      BY <2>3 DEF OneshotLoad, ShotInv
    <3>2. "temp" \in Quantities
      BY DEF Quantities
    <3>. QED  BY <3>1, <3>2, LoadGives
  <2>. QED  BY <2>1, <2>2, <2>3 DEF BNext, Convert, SetMode, LoadCalibs, Oneshot
<1>2. [Together]_bmxvars =>
        [LET whole(v) == /\ v.of = data /\ v.cal
                         /\ v.fine = [of |-> data, cal |-> TRUE]
         IN out' # out =>
              /\ out'.press \notin {Unset, Invalid} =>
                   whole(out'.press) \/ (chip = "bmp" /\ out'.temp = Unset)
              /\ out'.hum \notin {Unset, Dry} => whole(out'.hum)
              /\ ready => /\ out'.press # Invalid /\ out'.hum # Dry
                          /\ out'.temp # Unset => whole(out'.temp)
              /\ shot # 0 => out'.temp.of = shot]_bmxvars
  BY DEF Whole
<1>. QED  BY <1>1, <1>2, ShotInit, ShotStep, PTL DEF MeasuredTogether

-----------------------------------------------------------------------------
(* The board's relays and display *)

Clock == 0 .. Wrap - 1

\* What the assumptions say of the width of the clock.
LEMMA WrapIs == Wrap \in Nat /\ Wrap > 0
<1>1. Wrap \in Nat \ {0}
  BY PlcAssumption
<1>. QED  BY <1>1

\* What has passed on a clock that goes round.
LEMMA Passed ==
  ASSUME NEW a \in Clock, NEW b \in Clock
  PROVE  (a - b) % Wrap = IF b <= a THEN a - b ELSE a - b + Wrap
<1>1. a \in Int /\ b \in Int /\ Wrap \in Int /\ Wrap > 0
  BY WrapIs DEF Clock
<1>2. 0 <= a /\ a < Wrap /\ 0 <= b /\ b < Wrap
  BY WrapIs DEF Clock
<1>3. CASE b <= a
  BY <1>1, <1>2, <1>3
<1>4. CASE ~ b <= a
  <2>1. a - b + Wrap \in 0 .. Wrap - 1
    BY <1>1, <1>2, <1>4
  <2>. QED  BY <1>1, <1>2, <1>4, <2>1
<1>. QED  BY <1>3, <1>4

\* A millisecond on a clock that goes round.
LEMMA Turned ==
  ASSUME NEW a \in Clock
  PROVE  (a + 1) % Wrap = IF a + 1 < Wrap THEN a + 1 ELSE 0
<1>1. a \in Int /\ Wrap \in Int /\ Wrap > 0 /\ 0 <= a /\ a < Wrap
  BY WrapIs DEF Clock
<1>2. CASE a + 1 < Wrap
  BY <1>1, <1>2
<1>3. CASE a + 1 = Wrap
  <2>1. Wrap % Wrap = 0
    BY <1>1
  <2>. QED  BY <1>1, <1>3, <2>1
<1>. QED  BY <1>1, <1>2, <1>3

\* What is shown of a number that was written, digit by digit.
LEMMA DigitsAre ==
  ASSUME NEW n \in Int, n >= 0
  PROVE  /\ \A w \in {100, 10, 1} : Digit(n, w) \in 0 .. 9
         /\ 100 * Digit(n, 100) + 10 * Digit(n, 10) + Digit(n, 1) = n % 1000
<1>1. ASSUME NEW w \in {100, 10, 1}
      PROVE  Digit(n, w) = (n \div w) % 10 /\ Digit(n, w) \in 0 .. 9
  BY DEF Digit, Sign
<1>2. 100 * ((n \div 100) % 10) + 10 * ((n \div 10) % 10) + ((n \div 1) % 10)
        = n % 1000
  OBVIOUS
<1>. QED  BY <1>1, <1>2

(* The relays *)

\* The clock tells the time since a relay was set as long as it has not gone
\* round, and a relay that is on has not: it would have been dropped by now.
RelayInv ==
  /\ now \in Clock /\ gap \in 0 .. MaxGap
  /\ relay \in [Relays -> [prev : Clock, to : Timeouts, on : BOOLEAN]]
  /\ since \in [Relays -> 0 .. Wrap]
  /\ \A r \in Relays : since[r] < Wrap => Elapsed(r) = since[r]
  /\ \A r \in Relays : relay[r].on /\ relay[r].to # 0
                         => since[r] < relay[r].to + gap

\* What the assumptions say of timeouts and of the time between two ticks.
LEMMA Timing ==
  /\ MaxGap \in Nat /\ Timeouts \subseteq Nat
  /\ \A to \in Timeouts : to \in Nat /\ to + MaxGap < Wrap
<1>1. MaxGap \in Nat /\ Timeouts \subseteq Nat
  BY PlcAssumption
<1>2. \A to \in Timeouts : to + MaxGap < Wrap
  BY PlcAssumption
<1>. QED  BY <1>1, <1>2

\* The numbers of a relay, as numbers.
LEMMA RelayOf ==
  ASSUME RelayInv, NEW r \in Relays
  PROVE  /\ gap \in Nat /\ gap <= MaxGap
         /\ now \in Int /\ 0 <= now /\ now < Wrap
         /\ relay[r].prev \in Int /\ 0 <= relay[r].prev /\ relay[r].prev < Wrap
         /\ since[r] \in Nat /\ since[r] <= Wrap
         /\ relay[r].to \in Nat /\ relay[r].to + MaxGap < Wrap
<1>1. /\ now \in Clock /\ gap \in 0 .. MaxGap
      /\ relay[r].prev \in Clock /\ relay[r].to \in Timeouts
      /\ since[r] \in 0 .. Wrap
  BY DEF RelayInv
<1>2. MaxGap \in Nat /\ Wrap \in Nat
  BY Timing, WrapIs
<1>3. relay[r].to \in Nat /\ relay[r].to + MaxGap < Wrap
  BY <1>1, Timing
<1>. QED  BY <1>1, <1>2, <1>3 DEF Clock

\* The relays begin off, with the clock at zero.
LEMMA RelayInit == PInit => RelayInv
<1>. SUFFICES ASSUME PInit PROVE RelayInv
  OBVIOUS
<1>1. 0 \in Clock
  BY WrapIs DEF Clock
<1>2. /\ now = 0 /\ gap = 0 /\ since = [r \in Relays |-> 0]
      /\ relay \in [Relays -> [prev : {0}, to : Timeouts, on : {FALSE}]]
  BY DEF PInit
<1>3. \A r \in Relays : Elapsed(r) = 0
  <2>1. (0 - 0) % Wrap = 0
    BY <1>1, Passed
  <2>. QED  BY <1>2, <2>1 DEF Elapsed
<1>4. /\ now \in Clock /\ gap \in 0 .. MaxGap
      /\ since \in [Relays -> 0 .. Wrap]
  BY <1>1, <1>2, WrapIs, Timing
<1>5. relay \in [Relays -> [prev : Clock, to : Timeouts, on : BOOLEAN]]
  BY <1>1, <1>2
<1>6. \A r \in Relays : ~ relay[r].on
  BY <1>2
<1>. QED  BY <1>2, <1>3, <1>4, <1>5, <1>6 DEF RelayInv

\* A call on one relay leaves the others alone.
LEMMA RelayCall ==
  ASSUME RelayInv, UNCHANGED <<now, gap>>, NEW r \in Relays,
         NEW x \in [prev : Clock, to : Timeouts, on : BOOLEAN],
         relay' = [relay EXCEPT ![r] = x],
         \/ x.prev = now /\ since' = [since EXCEPT ![r] = 0]
         \/ x.prev = relay[r].prev /\ ~ x.on /\ UNCHANGED since
  PROVE  RelayInv'
<1>1. /\ now \in Clock /\ gap \in 0 .. MaxGap
      /\ relay \in [Relays -> [prev : Clock, to : Timeouts, on : BOOLEAN]]
      /\ since \in [Relays -> 0 .. Wrap]
      /\ \A q \in Relays : since[q] < Wrap => Elapsed(q) = since[q]
      /\ \A q \in Relays : relay[q].on /\ relay[q].to # 0
                            => since[q] < relay[q].to + gap
  BY DEF RelayInv
<1>2. /\ relay' \in [Relays -> [prev : Clock, to : Timeouts, on : BOOLEAN]]
      /\ since' \in [Relays -> 0 .. Wrap]
      /\ now' \in Clock /\ gap' \in 0 .. MaxGap
  BY <1>1, WrapIs
<1>3. ASSUME NEW q \in Relays, since'[q] < Wrap PROVE Elapsed(q)' = since'[q]
  <2>1. CASE q = r /\ x.prev = now /\ since' = [since EXCEPT ![r] = 0]
    BY <1>1, <2>1, Passed, WrapIs DEF Elapsed, Clock
  <2>2. CASE ~ (q = r /\ x.prev = now /\ since' = [since EXCEPT ![r] = 0])
    <3>1. relay'[q].prev = relay[q].prev /\ since'[q] = since[q] /\ now' = now
      BY <1>1, <2>2
    <3>. QED  BY <1>1, <1>3, <3>1 DEF Elapsed
  <2>. QED  BY <2>1, <2>2
<1>4. ASSUME NEW q \in Relays, relay'[q].on, relay'[q].to # 0
      PROVE  since'[q] < relay'[q].to + gap'
  <2>1. relay'[q].to \in Nat /\ gap \in Nat /\ gap' = gap
    <3>1. relay'[q].to \in Timeouts
      BY <1>2
    <3>2. relay'[q].to \in Nat
      BY <3>1, Timing
    <3>. QED  BY <3>2, RelayOf
  <2>2. CASE since'[q] = 0
    BY <1>4, <2>1, <2>2
  <2>3. CASE since'[q] # 0
    BY <1>1, <1>4, <2>1, <2>3
  <2>. QED  BY <2>2, <2>3
<1>. QED  BY <1>2, <1>3, <1>4 DEF RelayInv

\* A relay whose time is up by the clock is one whose time is up.
LEMMA ExpiresOnTime ==
  ASSUME RelayInv, NEW r \in Relays, relay[r].on, relay[r].to # 0
  PROVE  Expired(r) <=> since[r] >= relay[r].to
<1>1. since[r] < relay[r].to + gap /\ gap \in 0 .. MaxGap
      /\ (since[r] < Wrap => Elapsed(r) = since[r])
  BY DEF RelayInv
<1>2. since[r] < Wrap
  BY <1>1, RelayOf, Timing, WrapIs
<1>. QED  BY <1>1, <1>2 DEF Expired

\* Every call and every millisecond keeps the invariant of the relays.
LEMMA RelayStep ==
  ASSUME RelayInv, [RelayNext \/ PanelNext]_pvars
  PROVE  RelayInv'
<1>1. /\ now \in Clock /\ gap \in 0 .. MaxGap
      /\ relay \in [Relays -> [prev : Clock, to : Timeouts, on : BOOLEAN]]
      /\ since \in [Relays -> 0 .. Wrap]
      /\ \A q \in Relays : since[q] < Wrap => Elapsed(q) = since[q]
      /\ \A q \in Relays : relay[q].on /\ relay[q].to # 0
                            => since[q] < relay[q].to + gap
  BY DEF RelayInv
<1>2. CASE Tick
  <2>1. /\ relay' = [r \in Relays |-> RelayTicked(r)] /\ gap' = 0
        /\ UNCHANGED <<now, since>>
    BY <1>2 DEF Tick
  <2>2. ASSUME NEW r \in Relays
        PROVE  /\ relay'[r] \in [prev : Clock, to : Timeouts, on : BOOLEAN]
               /\ relay'[r].prev = relay[r].prev /\ relay'[r].to = relay[r].to
               /\ relay'[r].on /\ relay'[r].to # 0
                    => relay[r].on /\ ~ Expired(r)
    BY <1>1, <2>1 DEF RelayTicked
  <2>3. relay' \in [Relays -> [prev : Clock, to : Timeouts, on : BOOLEAN]]
    BY <2>1, <2>2
  <2>4. \A r \in Relays : since'[r] < Wrap => Elapsed(r)' = since'[r]
    BY <1>1, <2>1, <2>2 DEF Elapsed
  <2>5. ASSUME NEW r \in Relays, relay'[r].on, relay'[r].to # 0
        PROVE  since'[r] < relay'[r].to + gap'
    <3>1. relay[r].on /\ relay[r].to # 0 /\ ~ Expired(r)
      BY <2>2, <2>5
    <3>2. ~ (since[r] >= relay[r].to)
      BY <3>1, ExpiresOnTime
    <3>3. since[r] \in Int /\ relay[r].to \in Nat
      BY RelayOf
    <3>. QED  BY <2>1, <2>2, <3>2, <3>3
  <2>6. gap' \in 0 .. MaxGap
    BY <2>1, Timing
  <2>. QED  BY <1>1, <2>1, <2>3, <2>4, <2>5, <2>6 DEF RelayInv
<1>3. CASE Pass
  <2>1. /\ gap < MaxGap /\ now' = (now + 1) % Wrap /\ gap' = gap + 1
        /\ since' = [r \in Relays |-> IF since[r] < Wrap THEN since[r] + 1
                                      ELSE Wrap]
        /\ relay' = relay
    BY <1>3 DEF Pass
  <2>2. now' = (IF now + 1 < Wrap THEN now + 1 ELSE 0) /\ now' \in Clock
    BY <1>1, <2>1, Turned, WrapIs DEF Clock
  <2>3. since' \in [Relays -> 0 .. Wrap] /\ gap' \in 0 .. MaxGap
    BY <1>1, <2>1, WrapIs, Timing
  <2>4. ASSUME NEW r \in Relays, since'[r] < Wrap PROVE Elapsed(r)' = since'[r]
    <3>1. since[r] < Wrap /\ since'[r] = since[r] + 1 /\ since[r] \in Nat
      BY <1>1, <2>1, <2>4, WrapIs
    <3>2. (now - relay[r].prev) % Wrap = since[r]
      BY <1>1, <3>1 DEF Elapsed
    <3>3. relay[r].prev \in Clock
      BY <1>1
    <3>4. (now' - relay[r].prev) % Wrap = since[r] + 1
      <4>. DEFINE p == relay[r].prev
                  s == since[r]
      <4>1. /\ now \in Int /\ 0 <= now /\ now < Wrap /\ Wrap \in Int
            /\ p \in Int /\ 0 <= p /\ p < Wrap /\ s \in Int
        BY RelayOf, WrapIs
      <4>2. s = IF p <= now THEN now - p ELSE now - p + Wrap
        BY <1>1, <3>2, <3>3, Passed
      <4>3. (now' - p) % Wrap = IF p <= now' THEN now' - p ELSE now' - p + Wrap
        BY <2>2, <3>3, Passed
      <4>4. s + 1 < Wrap
        BY <2>4, <3>1
      <4>. HIDE DEF p, s
      <4>5. now + 1 < Wrap => (now' - p) % Wrap = s + 1
        BY <2>2, <4>1, <4>2, <4>3, <4>4
      <4>6. now + 1 >= Wrap => (now' - p) % Wrap = s + 1
        BY <2>2, <4>1, <4>2, <4>3, <4>4
      <4>7. (now' - p) % Wrap = s + 1
        BY <4>1, <4>5, <4>6
      <4>. QED  BY <4>7 DEF p, s
    <3>. QED  BY <2>1, <3>1, <3>4 DEF Elapsed
  <2>5. ASSUME NEW r \in Relays, relay'[r].on, relay'[r].to # 0
        PROVE  since'[r] < relay'[r].to + gap'
    <3>1. since[r] < relay[r].to + gap
      BY <1>1, <2>1, <2>5
    <3>2. since[r] < Wrap
      BY <3>1, RelayOf, Timing, WrapIs
    <3>. QED  BY <2>1, <3>1, <3>2, RelayOf
  <2>. QED  BY <1>1, <2>1, <2>2, <2>3, <2>4, <2>5 DEF RelayInv
<1>4. ASSUME NEW r \in Relays, ShadowSet(r) PROVE RelayInv'
  <2>. DEFINE x == [relay[r] EXCEPT !.prev = now]
  <2>1. x \in [prev : Clock, to : Timeouts, on : BOOLEAN] /\ x.prev = now
    BY <1>1
  <2>2. relay' = [relay EXCEPT ![r] = x] /\ since' = [since EXCEPT ![r] = 0]
        /\ UNCHANGED <<now, gap>>
    BY <1>1, <1>4 DEF ShadowSet
  <2>. QED  BY <2>1, <2>2, RelayCall
<1>5. ASSUME NEW r \in Relays, SetOnce(r) \/ SetTo(r) PROVE RelayInv'
  <2>1. PICK to \in Timeouts : Set(r, to)
    BY <1>1, <1>5 DEF SetOnce, SetTo
  <2>. DEFINE x == [prev |-> now, to |-> to, on |-> TRUE]
  <2>2. x \in [prev : Clock, to : Timeouts, on : BOOLEAN] /\ x.prev = now
    BY <1>1
  <2>3. relay' = [relay EXCEPT ![r] = x] /\ since' = [since EXCEPT ![r] = 0]
        /\ UNCHANGED <<now, gap>>
    BY <2>1 DEF Set
  <2>. QED  BY <2>2, <2>3, RelayCall
<1>6. ASSUME NEW r \in Relays, SetTimeout(r) PROVE RelayInv'
  <2>1. PICK to \in Timeouts : relay' = [relay EXCEPT ![r].to = to]
    BY <1>6 DEF SetTimeout
  <2>. DEFINE x == [relay[r] EXCEPT !.to = to]
  <2>2. /\ x \in [prev : Clock, to : Timeouts, on : BOOLEAN]
        /\ x.prev = relay[r].prev /\ ~ x.on
    BY <1>1, <1>6 DEF SetTimeout
  <2>3. relay' = [relay EXCEPT ![r] = x] /\ UNCHANGED <<now, gap, since>>
    BY <1>1, <1>6, <2>1 DEF SetTimeout
  <2>. QED  BY <2>2, <2>3, RelayCall
<1>7. ASSUME NEW r \in Relays, Reset(r) PROVE RelayInv'
  <2>. DEFINE x == [relay[r] EXCEPT !.on = FALSE]
  <2>1. /\ x \in [prev : Clock, to : Timeouts, on : BOOLEAN]
        /\ x.prev = relay[r].prev /\ ~ x.on
    BY <1>1
  <2>2. relay' = [relay EXCEPT ![r] = x] /\ UNCHANGED <<now, gap, since>>
    BY <1>1, <1>7 DEF Reset
  <2>. QED  BY <2>1, <2>2, RelayCall
<1>8. CASE UNCHANGED timing
  BY <1>8 DEF timing, RelayInv, Elapsed
<1>. QED
  BY <1>2, <1>3, <1>4, <1>5, <1>6, <1>7, <1>8
  DEF RelayNext, PanelNext, PinTurns, AskLatched, Seg7Write, pvars


(* The display *)

Weight(d) == <<100, 10, 1>>[d + 1]

\* The digits are those of the number written last, and the places the ticks
\* since have been at show theirs.
DisplayInv ==
  /\ pos \in 0 .. 3
  /\ buf \in [Digits -> Nat]
  /\ shown = [p \in 0 .. 3 |-> shown[p]]
  /\ written \in [number : Int, ticks : 0 .. 4]
  /\ written.number >= 0 =>
       /\ \A d \in Digits : buf[d] = Digit(written.number, Weight(d))
       /\ \A j \in 1 .. 4 : j <= written.ticks =>
            LET p == (pos + 4 - j) % 4 IN p # 3 => shown[p] = buf[p]

\* Nothing has been written on the display at first.
LEMMA DisplayInit == PInit => DisplayInv
BY DEF PInit, DisplayInv, Digits, Blank

\* A tick shows one more place of the number written last.
LEMMA DisplayTick ==
  ASSUME DisplayInv, Tick
  PROVE  DisplayInv'
<1>1. /\ pos \in 0 .. 3 /\ buf \in [Digits -> Nat]
      /\ shown = [p \in 0 .. 3 |-> shown[p]]
      /\ written \in [number : Int, ticks : 0 .. 4]
  BY DEF DisplayInv
<1>2. /\ pos' = (pos + 1) % 4 /\ buf' = buf
      /\ written' = [written EXCEPT !.ticks = IF @ < 4 THEN @ + 1 ELSE @]
  BY DEF Tick, Seg7DispTick
<1>3. PICK s : /\ shown' = [shown EXCEPT ![pos] = s]
               /\ pos # 3 => s \in Segments(buf[pos])
  BY DEF Tick, Seg7DispTick
<1>4. /\ pos' \in 0 .. 3 /\ shown' = [p \in 0 .. 3 |-> shown'[p]]
      /\ written' \in [number : Int, ticks : 0 .. 4]
      /\ written'.number = written.number
  <2>1. pos' \in 0 .. 3
    BY <1>1, <1>2
  <2>2. shown' = [p \in 0 .. 3 |-> shown'[p]]
    BY <1>1, <1>3
  <2>3. /\ written' \in [number : Int, ticks : 0 .. 4]
        /\ written'.number = written.number
    BY <1>1, <1>2
  <2>. QED  BY <2>1, <2>2, <2>3
<1>5. ASSUME written.number >= 0, NEW j \in 1 .. 4, j <= written'.ticks,
             NEW p, p = (pos' + 4 - j) % 4, p # 3
      PROVE  shown'[p] = buf[p]
  <2>1. CASE j = 1
    <3>1. p = pos
      BY <1>1, <1>2, <1>5, <2>1
    <3>2. buf[pos] \in 0 .. 9
      <4>1. pos \in Digits /\ Weight(pos) \in {100, 10, 1}
        BY <1>1, <1>5, <3>1 DEF Digits, Weight
      <4>2. buf[pos] = Digit(written.number, Weight(pos))
        BY <1>5, <4>1 DEF DisplayInv
      <4>. QED  BY <1>1, <1>5, <4>1, <4>2, DigitsAre
    <3>3. s = buf[pos]
      BY <1>3, <1>5, <3>1, <3>2 DEF Segments
    <3>. QED  BY <1>1, <1>3, <3>1, <3>3
  <2>2. CASE j \in 2 .. 4
    <3>1. p = (pos + 4 - (j - 1)) % 4 /\ p # pos
      BY <1>1, <1>2, <1>5, <2>2
    <3>2. j - 1 \in 1 .. 4 /\ j - 1 <= written.ticks
      BY <1>1, <1>2, <1>5, <2>2
    <3>3. shown[p] = buf[p]
      BY <1>5, <3>1, <3>2 DEF DisplayInv
    <3>. QED  BY <1>1, <1>3, <3>1, <3>3
  <2>. QED  BY <2>1, <2>2
<1>6. written'.number >= 0 =>
        /\ \A d \in Digits : buf'[d] = Digit(written'.number, Weight(d))
        /\ \A j \in 1 .. 4 : j <= written'.ticks =>
             LET p == (pos' + 4 - j) % 4 IN p # 3 => shown'[p] = buf'[p]
  BY <1>2, <1>4, <1>5 DEF DisplayInv
<1>. QED  BY <1>1, <1>2, <1>4, <1>6 DEF DisplayInv

\* Every call keeps the invariant of the display.
LEMMA DisplayStep ==
  ASSUME DisplayInv, [RelayNext \/ PanelNext]_pvars
  PROVE  DisplayInv'
<1>1. CASE Tick
  BY <1>1, DisplayTick
<1>2. CASE UNCHANGED <<pos, buf, shown, written>>
  BY <1>2 DEF DisplayInv
<1>3. ASSUME NEW n \in Numbers, Seg7Write(n) PROVE DisplayInv'
  <2>1. n \in Int
    BY PlcAssumption
  <2>2. \A d \in Digits : Digit(n, Weight(d)) \in Nat
    BY <2>1 DEF Digit, Sign, Digits, Weight
  <2>3. /\ buf' = [d \in Digits |-> Digit(n, Weight(d))]
        /\ written' = [number |-> n, ticks |-> 0]
        /\ UNCHANGED <<pos, shown>>
    BY <1>3 DEF Seg7Write, Weight
  <2>. QED  BY <2>1, <2>2, <2>3 DEF DisplayInv
<1>. QED
  BY <1>1, <1>2, <1>3
  DEF RelayNext, PanelNext, PinTurns, AskLatched, Pass, pvars, panel

\* After a round of ticks, all three digits are on the display.
LEMMA DisplayShows == DisplayInv => Shows
<1>. SUFFICES ASSUME DisplayInv, written.number >= 0, written.ticks = 4
              PROVE  OnDisplay = written.number % 1000
  BY DEF Shows
<1>1. pos \in 0 .. 3 /\ written.number \in Int
  BY DEF DisplayInv
<1>2. \A j \in 1 .. 4 : (pos + 4 - j) % 4 # 3 =>
        shown[(pos + 4 - j) % 4] = buf[(pos + 4 - j) % 4]
  BY DEF DisplayInv
<1>3. ASSUME NEW d \in Digits PROVE shown[d] = Digit(written.number, Weight(d))
  <2>1. PICK j \in 1 .. 4 : (pos + 4 - j) % 4 = d
    <3>1. CASE d < pos
      <4>1. pos - d \in 1 .. 4 /\ (pos + 4 - (pos - d)) % 4 = d
        BY <1>1, <3>1 DEF Digits
      <4>. QED  BY <4>1
    <3>2. CASE d >= pos
      <4>1. pos + 4 - d \in 1 .. 4 /\ (pos + 4 - (pos + 4 - d)) % 4 = d
        BY <1>1, <3>2 DEF Digits
      <4>. QED  BY <4>1
    <3>. QED  BY <1>1, <3>1, <3>2 DEF Digits
  <2>2. d # 3
    BY DEF Digits
  <2>. QED  BY <1>2, <2>1, <2>2 DEF DisplayInv
<1>4. /\ shown[0] = Digit(written.number, 100)
      /\ shown[1] = Digit(written.number, 10)
      /\ shown[2] = Digit(written.number, 1)
  BY <1>3 DEF Digits, Weight
<1>. QED  BY <1>1, <1>4, DigitsAre DEF OnDisplay

\* Relays time out when their time is up, for every width of millis() and any
\* timeouts below it, and the display shows what was written.
THEOREM RelaysAndDigitsAlwaysHold ==
  PInit /\ [][RelayNext \/ PanelNext]_pvars => RelaysAndDigitsHold
<1>. DEFINE Drops == \A r \in Relays :
              relay[r].on /\ ~relay'[r].on =>
                \/ Reset(r)
                \/ relay[r].to # 0 /\ since[r] >= relay[r].to
<1>1. RelayInv => OnTime
  BY RelayOf DEF RelayInv, OnTime
<1>2. RelayInv /\ [RelayNext \/ PanelNext]_pvars => [Drops]_pvars
  <2>. SUFFICES ASSUME RelayInv, RelayNext \/ PanelNext, NEW r \in Relays,
                       relay[r].on, ~ relay'[r].on, ~ Reset(r)
                PROVE  relay[r].to # 0 /\ since[r] >= relay[r].to
    OBVIOUS
  <2>1. relay \in [Relays -> [prev : Clock, to : Timeouts, on : BOOLEAN]]
    BY DEF RelayInv
  <2>2. CASE Tick
    <3>1. relay'[r] = RelayTicked(r)
      BY <2>2 DEF Tick
    <3>2. relay[r].to # 0 /\ Expired(r)
      BY <3>1 DEF RelayTicked
    <3>. QED  BY <3>2, ExpiresOnTime
  <2>3. ASSUME NEW q \in Relays,
               \/ ShadowSet(q) \/ SetOnce(q) \/ SetTo(q) \/ SetTimeout(q)
               \/ Reset(q)
        PROVE  FALSE
    <3>1. CASE q = r
      BY <2>1, <2>3, <3>1 DEF ShadowSet, SetOnce, SetTo, SetTimeout, Set
    <3>2. CASE q # r
      BY <2>1, <2>3, <3>2 DEF ShadowSet, SetOnce, SetTo, SetTimeout, Set, Reset
    <3>. QED  BY <3>1, <3>2
  <2>. QED
    BY <2>2, <2>3 DEF RelayNext, PanelNext, Pass, PinTurns, AskLatched,
                      Seg7Write, timing
<1>3. RelayInv /\ DisplayInv /\ [RelayNext \/ PanelNext]_pvars
        => RelayInv' /\ DisplayInv' /\ [OnTime' /\ Shows' /\ Drops]_pvars
  <2>. SUFFICES ASSUME RelayInv, DisplayInv, [RelayNext \/ PanelNext]_pvars
                PROVE  /\ RelayInv' /\ DisplayInv'
                       /\ [OnTime' /\ Shows' /\ Drops]_pvars
    OBVIOUS
  <2>1. RelayInv' /\ DisplayInv'
    BY RelayStep, DisplayStep
  <2>2. OnTime' /\ Shows'
    <3>1. RelayInv' => OnTime'
      BY <1>1, PTL
    <3>2. DisplayInv' => Shows'
      BY DisplayShows, PTL
    <3>. QED  BY <2>1, <3>1, <3>2
  <2>. QED  BY <1>2, <2>1, <2>2
<1>. QED  BY <1>3, RelayInit, DisplayInit, PTL DEF RelaysAndDigitsHold
=============================================================================
