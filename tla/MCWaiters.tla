------------------------------ MODULE MCWaiters ------------------------------
(* One daemon and three callers for TLC, or a thread pool of one worker and  *)
(* three tasks: the two components whose threads sleep on an atomic and are  *)
(* woken by a notification.  One of them is at work in a behaviour; the      *)
(* threads of the other have not been started, so that its fairness asks for *)
(* nothing.                                                                  *)
EXTENDS Daemon, ThreadPool

CONSTANTS d1, c1, c2, c3, w1, t1, t2, t3

MCDaemons == {d1}
MCThreeCallers == {c1, c2, c3}

MCOneWorker == {w1}
MCThreeTasks == {t1, t2, t3}

VARIABLE unit

WaitersInit == unit \in {"daemon", "pool"} /\ Init /\ PoolInit

WaitersNext == \/ unit = "daemon" /\ Next /\ UNCHANGED <<unit, poolvars>>
               \/ unit = "pool" /\ PoolNext /\ UNCHANGED <<unit, vars>>

WaitersSpec == /\ WaitersInit /\ [][WaitersNext]_<<unit, vars, poolvars>>
               /\ Fairness /\ PoolFairness
=============================================================================
