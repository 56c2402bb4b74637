------------------------------- MODULE Daemon -------------------------------
(* Daemon of gep/include/rgh/gep/daemon.hpp: the state machine a service is  *)
(* started, stopped, restarted and waited for through, by any number of      *)
(* threads at once.  A compare-exchange out of a stable state makes one      *)
(* thread the owner of the transition; the hooks of the service run between  *)
(* it and the store that publishes the next stable state.                    *)
EXTENDS Naturals

CONSTANTS Daemons,   \* the services
          Callers,   \* the threads that call their methods
          NoDaemon

ASSUME DaemonAssumption == NoDaemon \notin Daemons

VARIABLES state,    \* _daemon_state of each daemon
          res,      \* what its hooks have acquired: "none", "part" or "all"
          pc,       \* where each caller stands
          dmn,      \* the daemon it calls
          again,    \* it runs daemon_restart: a start follows the stop
          old,      \* the value it waits on
          want      \* the state it waits for

vars == <<state, res, pc, dmn, again, old, want>>

States == {"STOPPED", "STARTED", "STOPPING", "STARTING"}

Init == /\ state = [d \in Daemons |-> "STOPPED"]
        /\ res = [d \in Daemons |-> "none"]
        /\ pc = [c \in Callers |-> "idle"]
        /\ dmn = [c \in Callers |-> NoDaemon]
        /\ again = [c \in Callers |-> FALSE]
        /\ old = [c \in Callers |-> "STOPPED"]
        /\ want = [c \in Callers |-> "STOPPED"]

-----------------------------------------------------------------------------

Goto(c, step) == pc' = [pc EXCEPT ![c] = step]

\* The locals of a call end with it.
locals == <<dmn, again, old, want>>

Leave(c) == /\ dmn' = [dmn EXCEPT ![c] = NoDaemon]
            /\ again' = [again EXCEPT ![c] = FALSE]
            /\ old' = [old EXCEPT ![c] = "STOPPED"]
            /\ want' = [want EXCEPT ![c] = "STOPPED"]

Return(c) == Goto(c, "idle") /\ Leave(c)

\* Mutant: nobody is notified.
SetStateSilently(c, next, step) ==
  /\ state' = [state EXCEPT ![dmn[c]] = next]
  /\ pc' = [pc EXCEPT ![c] = step]

\* _daemon_set_state: the store, and the notification of those who wait.
SetState(c, next, step) ==
  /\ state' = [state EXCEPT ![dmn[c]] = next]
  /\ pc' = [e \in Callers |->
              IF e = c THEN step
              ELSE IF pc[e] = "asleep" /\ dmn[e] = dmn[c] THEN "wait"
              ELSE pc[e]]

-----------------------------------------------------------------------------
(* daemon_start, and the second half of daemon_restart. *)

CallStart(c, d) ==
  /\ pc[c] = "idle"
  /\ Goto(c, "start_cas")
  /\ dmn' = [dmn EXCEPT ![c] = d]
  /\ UNCHANGED <<state, res, again, old, want>>

\* Mutant: the state is tested, and stored without a compare-exchange.
StartCasAnyDown(c) ==
  /\ pc[c] = "start_cas"
  /\ state[dmn[c]] \in {"STOPPED", "STARTING"}
  /\ state' = [state EXCEPT ![dmn[c]] = "STARTING"]
  /\ Goto(c, "start_hook")
  /\ UNCHANGED <<res, locals>>

StartCas(c) ==
  /\ pc[c] = "start_cas"
  /\ state[dmn[c]] = "STOPPED"
  /\ state' = [state EXCEPT ![dmn[c]] = "STARTING"]
  /\ Goto(c, "start_hook")
  /\ UNCHANGED <<res, locals>>

StartRefused(c) ==
  /\ pc[c] = "start_cas"
  /\ state[dmn[c]] # "STOPPED"
  /\ Return(c)
  /\ UNCHANGED <<state, res>>

\* _daemon_start succeeds.
StartHook(c) ==
  /\ pc[c] = "start_hook"
  /\ res' = [res EXCEPT ![dmn[c]] = "all"]
  /\ Goto(c, "set_started")
  /\ UNCHANGED <<state, locals>>

\* _daemon_start fails and may leave things half acquired.
StartHookFails(c) ==
  /\ pc[c] = "start_hook"
  /\ res' = [res EXCEPT ![dmn[c]] = "part"]
  /\ Goto(c, "fail_stopping")
  /\ UNCHANGED <<state, locals>>

SetStarted(c) ==
  /\ pc[c] = "set_started"
  /\ SetState(c, "STARTED", "start_proc")
  /\ UNCHANGED <<res, locals>>

\* _daemon_start_proc runs once the daemon is published.
StartProc(c) ==
  /\ pc[c] = "start_proc"
  /\ Return(c)
  /\ UNCHANGED <<state, res>>

FailStopping(c) ==
  /\ pc[c] = "fail_stopping"
  /\ SetState(c, "STOPPING", "fail_hook")
  /\ UNCHANGED <<res, locals>>

\* Mutant: a start that fails does not clean up.
FailHookSkipped(c) ==
  /\ pc[c] = "fail_hook"
  /\ Goto(c, "fail_stopped")
  /\ UNCHANGED <<state, res, locals>>

\* _daemon_stop cleans up after a start that failed.
FailHook(c) ==
  /\ pc[c] = "fail_hook"
  /\ res' = [res EXCEPT ![dmn[c]] = "none"]
  /\ Goto(c, "fail_stopped")
  /\ UNCHANGED <<state, locals>>

FailStopped(c) ==
  /\ pc[c] = "fail_stopped"
  /\ SetState(c, "STOPPED", "idle")
  /\ Leave(c)
  /\ UNCHANGED res

Start(c) == \/ StartCas(c) \/ StartRefused(c)
            \/ StartHook(c) \/ StartHookFails(c)
            \/ SetStarted(c) \/ StartProc(c)
            \/ FailStopping(c) \/ FailHook(c) \/ FailStopped(c)

-----------------------------------------------------------------------------
(* daemon_stop, and the first half of daemon_restart, which goes on to the   *)
(* start whatever the stop returned.                                         *)

CallStop(c, d, restart) ==
  /\ pc[c] = "idle"
  /\ Goto(c, "stop_cas")
  /\ dmn' = [dmn EXCEPT ![c] = d]
  /\ again' = [again EXCEPT ![c] = restart]
  /\ UNCHANGED <<state, res, old, want>>

\* A restart goes on to its start whatever the stop returned.
StopDone(c) ==
  IF again[c] THEN Goto(c, "start_cas") /\ UNCHANGED locals
              ELSE Return(c)

StopCas(c) ==
  /\ pc[c] = "stop_cas"
  /\ state[dmn[c]] = "STARTED"
  /\ state' = [state EXCEPT ![dmn[c]] = "STOPPING"]
  /\ Goto(c, "stop_hook")
  /\ UNCHANGED <<res, locals>>

StopRefused(c) ==
  /\ pc[c] = "stop_cas"
  /\ state[dmn[c]] # "STARTED"
  /\ StopDone(c)
  /\ UNCHANGED <<state, res>>

\* _daemon_stop lets go of everything, whatever status it returns: the state
\* is published as STOPPED either way.
StopHook(c) ==
  /\ pc[c] = "stop_hook"
  /\ res' = [res EXCEPT ![dmn[c]] = "none"]
  /\ Goto(c, "set_stopped")
  /\ UNCHANGED <<state, locals>>

SetStopped(c) ==
  /\ pc[c] = "set_stopped"
  /\ SetState(c, "STOPPED", "stop_proc")
  /\ UNCHANGED <<res, locals>>

\* _daemon_stop_proc runs once the daemon is published.
StopProc(c) ==
  /\ pc[c] = "stop_proc"
  /\ StopDone(c)
  /\ UNCHANGED <<state, res>>

Stop(c) == \/ StopCas(c) \/ StopRefused(c)
           \/ StopHook(c) \/ SetStopped(c) \/ StopProc(c)

-----------------------------------------------------------------------------
(* daemon_wait_until: one load, one wait for the value loaded to change, and  *)
(* a last load that only makes the answer.  A call that finds the state it    *)
(* waits for returns at once.                                                 *)

CallWait(c, d, s) ==
  /\ pc[c] = "idle"
  /\ state[d] # s
  /\ dmn' = [dmn EXCEPT ![c] = d]
  /\ want' = [want EXCEPT ![c] = s]
  /\ old' = [old EXCEPT ![c] = state[d]]
  /\ Goto(c, "wait")
  /\ UNCHANGED <<state, res, again>>

WaitSleep(c) ==
  /\ pc[c] = "wait"
  /\ state[dmn[c]] = old[c]
  /\ Goto(c, "asleep")
  /\ UNCHANGED <<state, res, locals>>

WaitReturn(c) ==
  /\ pc[c] = "wait"
  /\ state[dmn[c]] # old[c]
  /\ Return(c)
  /\ UNCHANGED <<state, res>>

Wait(c) == WaitSleep(c) \/ WaitReturn(c)

-----------------------------------------------------------------------------

Call(c) == \E d \in Daemons :
             \/ CallStart(c, d)
             \/ \E restart \in BOOLEAN : CallStop(c, d, restart)
             \/ \E s \in States : CallWait(c, d, s)

Run(c) == Start(c) \/ Stop(c) \/ Wait(c)

Next == \E c \in Callers : Call(c) \/ Run(c)

(* A call that has begun keeps running and its hooks return; nobody has to   *)
(* call.                                                                     *)
Fairness == \A c \in Callers : WF_vars(Run(c))

Spec == Init /\ [][Next]_vars /\ Fairness

-----------------------------------------------------------------------------

\* Where a caller stands while it owns a transition of its daemon.
Starting == {"start_hook", "set_started", "fail_stopping"}
Stopping == {"stop_hook", "set_stopped", "fail_hook", "fail_stopped"}
Steps == Starting \cup Stopping
           \cup {"idle", "start_cas", "start_proc", "stop_cas", "stop_proc",
                 "wait", "asleep"}

\* Every caller stands at a step of the code, and calls a daemon unless idle.
TypeOK ==
  /\ state \in [Daemons -> States]
  /\ res \in [Daemons -> {"none", "part", "all"}]
  /\ pc \in [Callers -> Steps]
  /\ dmn \in [Callers -> Daemons \cup {NoDaemon}]
  /\ \A c \in Callers : pc[c] # "idle" => dmn[c] \in Daemons
  /\ again \in [Callers -> BOOLEAN]
  /\ old \in [Callers -> States]
  /\ want \in [Callers -> States]

InHook(c) == pc[c] \in {"start_hook", "fail_hook", "stop_hook"}

\* _daemon_start and _daemon_stop of one daemon never run at once, although
\* any thread may start, stop or restart it (daemon.hpp:78, :95).
HooksExclusive ==
  \A c, e \in Callers : c # e /\ InHook(c) /\ InHook(e) => dmn[c] # dmn[e]

\* A daemon that says STARTED holds everything its start acquired, one that
\* says STOPPED holds nothing, also after a start that failed halfway
\* (daemon.hpp:82-88, :99-100).
StateTellsResources ==
  \A d \in Daemons : /\ state[d] = "STARTED" => res[d] = "all"
                     /\ state[d] = "STOPPED" => res[d] = "none"

\* _daemon_start runs only over a daemon that holds nothing: two starts are
\* always parted by a stop (daemon.hpp:76-103).
StartsAlternate ==
  [][\A d \in Daemons : res'[d] # res[d] /\ res'[d] # "none" => res[d] = "none"]_vars

\* Nobody sleeps through the state it waits for: a waiter of a stable state
\* that is reached wakes up, or the daemon moves on (daemon.hpp:49-51,
\* :129-133).
WaiterWakes ==
  \A c \in Callers, s \in {"STOPPED", "STARTED"} :
    (pc[c] = "asleep" /\ want[c] = s /\ state[dmn[c]] = s)
      ~> (pc[c] # "asleep" \/ state[dmn[c]] # s)

\* No transition is left half done: a daemon caught between two stable states
\* reaches one.
Settles ==
  \A d \in Daemons : (state[d] \in {"STARTING", "STOPPING"})
                       ~> (state[d] \in {"STARTED", "STOPPED"})

\* Nobody is left waiting for what has come, and no daemon between two states
\* (daemon.hpp:76-103, :129-133).
ComesToRest == WaiterWakes /\ Settles
=============================================================================
