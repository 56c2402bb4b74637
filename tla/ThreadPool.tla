----------------------------- MODULE ThreadPool -----------------------------
(* Thread_pool of osp/include/rgh/osp/thread_pool.hpp: a queue of tasks      *)
(* under a mutex, an atomic counter the workers sleep on (std::atomic wait   *)
(* and notify), and kill, which poisons the counter with -1 and joins.  The  *)
(* counter is claimed before the mutex is taken and in two steps (:54, :55), *)
(* which is what the properties are about.                                   *)
EXTENDS Integers, Sequences

CONSTANTS Workers,    \* the threads launch starts
          Tasks,      \* the tasks, each pushed by a thread of its own
          NoTask

ASSUME PoolAssumption == NoTask \notin Tasks

VARIABLES count,   \* _count
          tasks,   \* _tasks
          ppc,     \* the thread that pushes each task
          wpc,     \* each worker; "off" before launch and after the join
          task,    \* each worker's task
          done,    \* the tasks that have run
          opc,     \* the owner, who launches and kills
          killed   \* history: kill has poisoned the counter

poolvars == <<count, tasks, ppc, wpc, task, done, opc, killed>>

PoolInit == /\ count = 0
            /\ tasks = <<>>
            /\ ppc = [t \in Tasks |-> "new"]
            /\ wpc = [w \in Workers |-> "off"]
            /\ task = [w \in Workers |-> NoTask]
            /\ done = {}
            /\ opc = "idle"
            /\ killed = FALSE

-----------------------------------------------------------------------------
(* push: the whole body runs under _mtx. *)

\* _mtx is free: the workers hold it only within WorkerPop.
MtxFree == \A t \in Tasks : ppc[t] \notin {"count", "notify"}

PushEmplace(t) ==
  /\ ppc[t] = "new"
  /\ MtxFree
  /\ tasks' = Append(tasks, t)
  /\ ppc' = [ppc EXCEPT ![t] = "count"]
  /\ UNCHANGED <<count, wpc, task, done, opc, killed>>

PushCount(t) ==
  /\ ppc[t] = "count"
  /\ count' = count + 1
  /\ ppc' = [ppc EXCEPT ![t] = "notify"]
  /\ UNCHANGED <<tasks, wpc, task, done, opc, killed>>

Asleep == {w \in Workers : wpc[w] = "asleep"}

\* Mutant: nobody is notified.
PushSilent(t) ==
  /\ ppc[t] = "notify"
  /\ wpc' = wpc
  /\ ppc' = [ppc EXCEPT ![t] = "pushed"]
  /\ UNCHANGED <<count, tasks, task, done, opc, killed>>

\* notify_one, then the mutex is released on return.
PushNotify(t) ==
  /\ ppc[t] = "notify"
  /\ IF Asleep = {} THEN wpc' = wpc
     ELSE \E w \in Asleep : wpc' = [wpc EXCEPT ![w] = "wait"]
  /\ ppc' = [ppc EXCEPT ![t] = "pushed"]
  /\ UNCHANGED <<count, tasks, task, done, opc, killed>>

Push(t) == PushEmplace(t) \/ PushCount(t) \/ PushNotify(t)

-----------------------------------------------------------------------------
(* The loop of a worker. *)

WorkerAt(w, step) == wpc' = [wpc EXCEPT ![w] = step]

\* Mutant: the worker looks at the counter without having waited.
WorkerNoWait(w) ==
  /\ wpc[w] = "wait"
  /\ WorkerAt(w, "load")
  /\ UNCHANGED <<count, tasks, ppc, task, done, opc, killed>>

\* _count.wait( 0 ): sleeps while the counter is 0; a notified worker looks
\* again.
WorkerWait(w) ==
  /\ wpc[w] = "wait"
  /\ WorkerAt(w, IF count = 0 THEN "asleep" ELSE "load")
  /\ UNCHANGED <<count, tasks, ppc, task, done, opc, killed>>

WorkerLoad(w) ==
  /\ wpc[w] = "load"
  /\ WorkerAt(w, IF count > 0 THEN "sub" ELSE "exited")
  /\ UNCHANGED <<count, tasks, ppc, task, done, opc, killed>>

\* Mutant: the counter is not taken down.
WorkerKeepCount(w) ==
  /\ wpc[w] = "sub"
  /\ WorkerAt(w, "lock")
  /\ UNCHANGED <<count, tasks, ppc, task, done, opc, killed>>

WorkerSub(w) ==
  /\ wpc[w] = "sub"
  /\ count' = count - 1
  /\ WorkerAt(w, "lock")
  /\ UNCHANGED <<tasks, ppc, task, done, opc, killed>>

\* Under _mtx: take the first task, or leave the loop if there is none.
WorkerPop(w) ==
  /\ wpc[w] = "lock"
  /\ MtxFree
  /\ IF tasks = <<>>
       THEN WorkerAt(w, "exited") /\ UNCHANGED <<tasks, task>>
       ELSE /\ task' = [task EXCEPT ![w] = Head(tasks)]
            /\ tasks' = Tail(tasks)
            /\ WorkerAt(w, "run")
  /\ UNCHANGED <<count, ppc, done, opc, killed>>

WorkerRun(w) ==
  /\ wpc[w] = "run"
  /\ done' = done \cup {task[w]}
  /\ task' = [task EXCEPT ![w] = NoTask]
  /\ WorkerAt(w, "wait")
  /\ UNCHANGED <<count, tasks, ppc, opc, killed>>

Worker(w) == \/ WorkerWait(w) \/ WorkerLoad(w) \/ WorkerSub(w)
             \/ WorkerPop(w) \/ WorkerRun(w)

-----------------------------------------------------------------------------
(* launch and kill, called by the owner of the pool. *)

\* launch: refused (RGH_ERR_LOGIC, nothing changes) while there are threads.
Launch ==
  /\ opc = "idle"
  /\ \A w \in Workers : wpc[w] = "off"
  /\ wpc' = [w \in Workers |-> "wait"]
  /\ UNCHANGED <<count, tasks, ppc, task, done, opc, killed>>

\* kill: returns at once when there are no threads.
KillStore ==
  /\ opc = "idle"
  /\ \E w \in Workers : wpc[w] # "off"
  /\ count' = -1
  /\ killed' = TRUE
  /\ opc' = "notify"
  /\ UNCHANGED <<tasks, ppc, wpc, task, done>>

\* Mutant: nobody is notified.
KillSilent ==
  /\ opc = "notify"
  /\ opc' = "join"
  /\ UNCHANGED <<count, tasks, ppc, wpc, task, done, killed>>

KillNotify ==
  /\ opc = "notify"
  /\ wpc' = [w \in Workers |-> IF w \in Asleep THEN "wait" ELSE wpc[w]]
  /\ opc' = "join"
  /\ UNCHANGED <<count, tasks, ppc, task, done, killed>>

\* _threads.clear(): joins every worker.
KillJoin ==
  /\ opc = "join"
  /\ \A w \in Workers : wpc[w] = "exited"
  /\ wpc' = [w \in Workers |-> "off"]
  /\ opc' = "idle"
  /\ UNCHANGED <<count, tasks, ppc, task, done, killed>>

Kill == KillStore \/ KillNotify \/ KillJoin

-----------------------------------------------------------------------------

PoolNext == \/ \E t \in Tasks : Push(t)
            \/ \E w \in Workers : Worker(w)
            \/ Launch
            \/ Kill

(* Every thread that runs keeps running; nobody has to push, launch or kill. *)
PoolFairness ==
  /\ \A t \in Tasks : WF_poolvars(PushCount(t) \/ PushNotify(t))
  /\ \A w \in Workers : WF_poolvars(Worker(w))
  /\ WF_poolvars(KillNotify \/ KillJoin)

PoolSpec == PoolInit /\ [][PoolNext]_poolvars /\ PoolFairness

-----------------------------------------------------------------------------

\* Every thread stands at one of the steps of its code, and a worker that
\* calls a task has one.
PoolTypeOK ==
  /\ count \in Int
  /\ tasks \in Seq(Tasks)
  /\ ppc \in [Tasks -> {"new", "count", "notify", "pushed"}]
  /\ wpc \in [Workers ->
                {"off", "wait", "asleep", "load", "sub", "lock", "run", "exited"}]
  /\ task \in [Workers -> Tasks \cup {NoTask}]
  /\ done \subseteq Tasks
  /\ opc \in {"idle", "notify", "join"}
  /\ killed \in BOOLEAN
  /\ \A w \in Workers : wpc[w] = "run" => task[w] # NoTask

\* The condition under which the counter can be trusted.
SingleWorker == \A v, w \in Workers : v = w

\* A worker that has claimed a task finds one when it gets the mutex: the
\* assertion of thread_pool.hpp:58.
PopFindsTask == \A w \in Workers : wpc[w] = "lock" => tasks # <<>>

\* The workers leave the loop only because of kill (thread_pool.hpp:54, :58).
WorkersStay == (\E w \in Workers : wpc[w] = "exited") => killed

\* While the pool lives, a task whose push has returned gets run, whatever
\* the workers were doing when it was pushed: no wake-up is lost between the
\* look at the counter and the sleep (thread_pool.hpp:35, :53).
PushedRuns ==
  \A t \in Tasks :
    (ppc[t] = "pushed" /\ \E w \in Workers : wpc[w] # "off")
      ~> (t \in done \/ killed)

\* kill joins every worker and returns, whatever each was doing, a task that
\* still runs included (thread_pool.hpp:72-78) -- unless pushes bring the
\* counter it has poisoned back up (:35), and the workers sleep on 0 again.
KillReturns == (opc # "idle" /\ count < 0) ~> (opc = "idle" \/ count >= 0)
=============================================================================
