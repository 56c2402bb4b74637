---------------------------- MODULE DaemonCluster ----------------------------
(* Daemon_cluster of gep/include/rgh/gep/daemon.hpp and the FreeRTOS task    *)
(* that runs it (ucp/include/rgh/ucp/daemon.hpp): one thread goes over a     *)
(* register of daemons again and again and restarts those that should be up, *)
(* through the methods of Daemon, while other threads start and stop the     *)
(* same daemons and change the register.                                     *)
EXTENDS Daemon, Sequences

CONSTANTS Cluster,     \* the thread of the cluster
          Order,       \* the daemons as the register sorts them: in any order, as
                       \* its comparison orders neither all sets of daemons nor
                       \* those whose dependencies change while they are docked
          Deps,        \* _daemon_deps of each daemon
          KeepAlive,   \* the daemons docked with StateCtl_KEEP_ALIVE
          RstIf,       \* those docked with a rst_if, which may answer anything
          Limit,       \* crit_n_rsts of each daemon
          Unlimited,   \* the -1 of crit_n_rsts
          Sound,       \* the daemons whose start hook never fails
          Dead,        \* those whose start hook always fails
          MaxCalls     \* bound: how often the other threads interfere

Users == Callers \ {Cluster}

\* No daemon depends on itself: daemon_dep_of would not return, and the
\* register compares with it (daemon.hpp:62-68, :164-171).
ASSUME ClusterAssumption ==
  /\ Cluster \in Callers
  /\ Order \in Seq(Daemons) /\ Deps \in [Daemons -> SUBSET Daemons]
  /\ \A d \in Daemons : d \notin Deps[d]
  /\ Limit \in [Daemons -> (Nat \ {0}) \cup {Unlimited}]
  /\ Unlimited \notin Nat
  /\ Sound \cap Dead = {}
  /\ MaxCalls \in Nat

VARIABLES register,   \* the daemons docked
          bad,        \* _bad_rst_cnt of each
          critical,   \* _crit.flag
          step,       \* where the task stands in iterate_register
          todo,       \* the places in Order of the docks it has still to visit
          unseen,     \* the dependencies of the first of them it has still to
                      \* look at
          moved,      \* history: the daemons another thread has moved to another
                      \* state since the task began to look at these
          calls       \* how often the other threads have interfered

visit == <<step, todo, unseen, moved>>
docks == <<register, bad>>
cvars == <<vars, docks, critical, visit, calls>>

ClusterInit ==
  /\ Init
  /\ register \in SUBSET Daemons
  /\ bad = [d \in Daemons |-> 0]
  /\ critical = FALSE
  /\ step = "delay" /\ todo = {} /\ unseen = {} /\ moved = {}
  /\ calls = 0

-----------------------------------------------------------------------------
(* push and pop: the register is locked while it is iterated. *)

Push(d) ==
  /\ step \in {"delay", "deleted"}
  /\ d \notin register
  /\ register' = register \cup {d}
  /\ bad' = [bad EXCEPT ![d] = 0]
  /\ UNCHANGED <<vars, critical, visit>>

Pop(d) ==
  /\ step \in {"delay", "deleted"}
  /\ d \in register
  /\ register' = register \ {d}
  /\ UNCHANGED <<vars, bad, critical, visit>>

-----------------------------------------------------------------------------
(* One pass of iterate_register.  The states are read one by one, and other  *)
(* threads may change them in between.                                       *)

\* The dock the pass has come to.
Place == CHOOSE i \in todo : \A j \in todo : i <= j
Dock == Order[Place]

Iterate ==
  /\ step = "delay" /\ ~ critical
  /\ step' = "visit"
  /\ todo' = {i \in 1..Len(Order) : Order[i] \in register}
  /\ UNCHANGED <<vars, docks, critical, unseen, moved>>

\* The visit of the dock is over.
NextDock ==
  /\ step' = "visit" /\ todo' = todo \ {Place} /\ unseen' = {} /\ moved' = {}

SkipUnstable ==
  /\ step = "visit" /\ todo # {}
  /\ state[Dock] \in {"STARTING", "STOPPING"}
  /\ NextDock
  /\ UNCHANGED <<vars, docks, critical>>

Stable ==
  /\ step = "visit" /\ todo # {}
  /\ state[Dock] \in {"STARTED", "STOPPED"}
  /\ step' = "deps"
  /\ unseen' = Deps[Dock]
  /\ UNCHANGED <<vars, docks, critical, todo, moved>>

\* Mutant: a dependency counts in whatever state it is.
CountDepAny ==
  /\ step = "deps"
  /\ \E e \in unseen : unseen' = unseen \ {e}
  /\ UNCHANGED <<vars, docks, critical, step, todo, moved>>

CountDep ==
  /\ step = "deps"
  /\ \E e \in unseen : /\ state[e] = "STARTED"
                       /\ unseen' = unseen \ {e}
  /\ UNCHANGED <<vars, docks, critical, step, todo, moved>>

\* Mutant: only a dependency in transition is not waited for.
SkipDependentUnstable ==
  /\ step = "deps"
  /\ \E e \in unseen : state[e] \in {"STARTING", "STOPPING"}
  /\ NextDock
  /\ UNCHANGED <<vars, docks, critical>>

SkipDependent ==
  /\ step = "deps"
  /\ \E e \in unseen : state[e] # "STARTED"
  /\ NextDock
  /\ UNCHANGED <<vars, docks, critical>>

\* Mutant: only a daemon on its way down is taken for down.
DownGoing(d) == d \in KeepAlive /\ state[d] = "STOPPING"

\* A daemon that is kept alive is not up.
Down(d) == d \in KeepAlive /\ state[d] \notin {"STARTED", "STARTING"}

Restart ==
  /\ step = "deps" /\ unseen = {}
  /\ Down(Dock) \/ Dock \in RstIf
  /\ CallStop(Cluster, Dock, TRUE)
  /\ step' = "restart"
  /\ UNCHANGED <<docks, critical, todo, unseen, moved>>

LeaveAlone ==
  /\ step = "deps" /\ unseen = {}
  /\ ~ Down(Dock)
  /\ NextDock
  /\ UNCHANGED <<vars, docks, critical>>

\* The hooks fail as their daemon does.
HookObeys(c) ==
  pc[c] = "start_hook" => \/ pc'[c] = "set_started" /\ dmn[c] \notin Dead
                          \/ pc'[c] = "fail_stopping" /\ dmn[c] \notin Sound

Restarting ==
  /\ step = "restart"
  /\ Run(Cluster) /\ HookObeys(Cluster)
  /\ pc'[Cluster] # "idle"
  /\ UNCHANGED <<docks, critical, visit>>

RestartGood ==
  /\ step = "restart"
  /\ StartProc(Cluster)
  /\ bad' = [bad EXCEPT ![Dock] = 0]
  /\ NextDock
  /\ UNCHANGED <<register, critical>>

RestartEndsBad ==
  /\ step = "restart"
  /\ StartRefused(Cluster) \/ FailStopped(Cluster)

\* One bad restart more.  The count of a daemon without limit is read by its
\* rst_if only, and stays at 0 here.
OneMoreBad(d) == IF Limit[d] = Unlimited THEN 0 ELSE bad[d] + 1

AtLimit(d) == Limit[d] # Unlimited /\ OneMoreBad(d) >= Limit[d]

\* Mutant: the count starts again after every restart.
RestartBadForgotten ==
  /\ RestartEndsBad
  /\ bad' = [bad EXCEPT ![Dock] = 0]
  /\ NextDock
  /\ UNCHANGED <<register, critical>>

RestartBad ==
  /\ RestartEndsBad
  /\ ~ AtLimit(Dock)
  /\ bad' = [bad EXCEPT ![Dock] = OneMoreBad(Dock)]
  /\ NextDock
  /\ UNCHANGED <<register, critical>>

\* critical_handler, and with it the task ends.
GoCritical ==
  /\ RestartEndsBad
  /\ AtLimit(Dock)
  /\ bad' = [bad EXCEPT ![Dock] = OneMoreBad(Dock)]
  /\ critical' = TRUE
  /\ step' = "deleted" /\ todo' = {} /\ unseen' = {} /\ moved' = {}
  /\ UNCHANGED register

IterateDone ==
  /\ step = "visit" /\ todo = {}
  /\ step' = "delay"
  /\ UNCHANGED <<vars, docks, critical, todo, unseen, moved>>

Task ==
  /\ \/ Iterate \/ SkipUnstable \/ Stable \/ CountDep \/ SkipDependent
     \/ Restart \/ LeaveAlone \/ Restarting
     \/ RestartGood \/ RestartBad \/ GoCritical \/ IterateDone
  /\ UNCHANGED calls

-----------------------------------------------------------------------------
(* The other threads. *)

UserCall(u) ==
  /\ \E d \in Daemons : \/ CallStart(u, d)
                        \/ \E restart \in BOOLEAN : CallStop(u, d, restart)
  /\ UNCHANGED <<docks, critical, visit>>

UserDocks == \E d \in Daemons : Push(d) \/ Pop(d)

Interfere ==
  /\ calls < MaxCalls
  /\ calls' = calls + 1
  /\ UserDocks \/ \E u \in Users : UserCall(u)

UserRun(u) ==
  /\ Run(u) /\ HookObeys(u)
  /\ moved' = IF step \in {"deps", "restart"}
              THEN moved \cup {d \in Daemons : state'[d] # state[d]} ELSE {}
  /\ UNCHANGED <<docks, critical, step, todo, unseen, calls>>

ClusterNext == Task \/ Interfere \/ \E u \in Users : UserRun(u)

(* The task is never left out of a delay, and calls that have begun go on.   *)
ClusterFairness ==
  /\ WF_cvars(Task)
  /\ \A u \in Users : WF_cvars(UserRun(u))

ClusterSpec == ClusterInit /\ [][ClusterNext]_cvars /\ ClusterFairness

-----------------------------------------------------------------------------

\* Between two passes the task owns no transition and holds no dock, and a
\* count stays below its limit as long as the cluster is not critical.
ClusterTypeOK ==
  /\ TypeOK
  /\ register \subseteq Daemons
  /\ bad \in [Daemons -> Nat]
  /\ critical \in BOOLEAN
  /\ step \in {"delay", "visit", "deps", "restart", "deleted"}
  /\ todo \subseteq {i \in 1..Len(Order) : Order[i] \in register}
  /\ unseen \subseteq Daemons /\ moved \subseteq Daemons
  /\ step \in {"deps", "restart"} => todo # {}
  /\ pc[Cluster] # "idle" <=> step = "restart"
  /\ \A d \in Daemons :
       ~ critical /\ Limit[d] # Unlimited => bad[d] < Limit[d]

\* The cluster starts a daemon only over dependencies that are up, but for
\* those another thread has moved since the task began to look at them: also
\* after some of them failed or were restarted earlier in the pass, and
\* whatever the other threads did before or do to the rest
\* (daemon.hpp:164-171, :217-218).
DepsFirst ==
  pc[Cluster] = "start_hook"
    => \A e \in Deps[dmn[Cluster]] \ moved : state[e] = "STARTED"

\* d and all it depends on are docked, kept alive and able to start.
Cared(d) ==
  \E S \in SUBSET (register \cap KeepAlive \cap Sound) :
    d \in S /\ \A e \in S : Deps[e] \subseteq S

\* A daemon that is kept alive and can start comes up, whoever stops it and
\* however the calls of others race with the restart, unless the cluster goes
\* critical or the register changes (daemon.hpp:211-241, ucp/daemon.hpp:36-39).
KeptAlive ==
  \A d \in Daemons :
    Cared(d) ~> (state[d] = "STARTED" \/ critical \/ ~ Cared(d))

\* A daemon that never starts makes the cluster critical when it has a limit
\* (daemon.hpp:229-233).
Escalates ==
  \A d \in Dead \cap KeepAlive :
    (d \in register /\ Deps[d] = {} /\ Limit[d] # Unlimited)
      ~> (critical \/ d \notin register)

\* Every pass over the register ends, so that push, pop and report get the
\* lock (daemon.hpp:212).
PassEnds == (step = "visit") ~> (step \in {"delay", "deleted"})
=============================================================================
