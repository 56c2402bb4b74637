-------------------------- MODULE ThreadPoolProofs --------------------------
(* With one worker the counter of the pool never promises more tasks than    *)
(* the queue holds, so the worker finds its task and leaves only when        *)
(* killed, whatever the number of tasks and of pushing threads.              *)
EXTENDS ThreadPool, TLAPS

\* A push holds _mtx from its emplace to its notify.
Holding(t) == ppc[t] \in {"count", "notify"}

\* What the counter promises: every task it counts, and every task the
\* worker has claimed, is in the queue; a task emplaced and not yet counted
\* is one more.
CountInv ==
  /\ \A t, u \in Tasks : Holding(t) /\ Holding(u) => t = u
  /\ count <= Len(tasks)
  /\ \A t \in Tasks : ppc[t] = "count" => count + 1 <= Len(tasks)
  /\ \A w \in Workers :
       /\ wpc[w] = "sub" => 1 <= Len(tasks)
       /\ wpc[w] = "lock" => 1 <= Len(tasks) /\ count + 1 <= Len(tasks)
       /\ \A t \in Tasks : wpc[w] = "lock" /\ ppc[t] = "count"
                             => count + 2 <= Len(tasks)

\* Until kill, the counter is not negative and a worker that has seen it
\* positive can take one off.
LiveInv ==
  ~ killed =>
     /\ 0 <= count
     /\ \A w \in Workers : /\ wpc[w] \in {"load", "sub"} => 1 <= count
                           /\ wpc[w] # "exited"

IInv == PoolTypeOK /\ CountInv /\ LiveInv

\* The pool begins without workers and tasks.
LEMMA TypeInit == PoolInit => PoolTypeOK
<1>. SUFFICES ASSUME PoolInit PROVE PoolTypeOK
  OBVIOUS
<1>1. tasks \in Seq(Tasks) /\ done \subseteq Tasks
  BY DEF PoolInit
<1>2. ppc \in [Tasks -> {"new", "count", "notify", "pushed"}]
  BY DEF PoolInit
<1>3. /\ wpc \in [Workers -> {"off", "wait", "asleep", "load", "sub", "lock",
                              "run", "exited"}]
      /\ task \in [Workers -> Tasks \cup {NoTask}]
      /\ \A w \in Workers : wpc[w] # "run"
  BY DEF PoolInit
<1>4. count \in Int /\ opc \in {"idle", "notify", "join"}
  BY DEF PoolInit
<1>5. killed \in BOOLEAN
  BY DEF PoolInit
<1>. QED  BY <1>1, <1>2, <1>3, <1>4, <1>5 DEF PoolTypeOK

\* The counter begins as the length of the queue.
LEMMA IInvInit == PoolInit => IInv
<1>. SUFFICES ASSUME PoolInit PROVE IInv
  OBVIOUS
<1>1. Len(tasks) = 0
  BY DEF PoolInit
<1>2. CountInv
  BY <1>1 DEF PoolInit, CountInv, Holding
<1>3. LiveInv
  BY DEF PoolInit, LiveInv
<1>. QED  BY <1>2, <1>3, TypeInit DEF IInv

\* Every step keeps the types, for any number of workers.
LEMMA TypeStep == PoolTypeOK /\ [PoolNext]_poolvars => PoolTypeOK'
<1>. SUFFICES ASSUME PoolTypeOK, [PoolNext]_poolvars PROVE PoolTypeOK'
  OBVIOUS
<1>. USE DEF PoolTypeOK, WorkerAt
<1>1. ASSUME NEW t \in Tasks, PushEmplace(t) PROVE PoolTypeOK'
  BY <1>1 DEF PushEmplace
<1>2. ASSUME NEW t \in Tasks, PushCount(t) PROVE PoolTypeOK'
  BY <1>2 DEF PushCount
<1>3. ASSUME NEW t \in Tasks, PushNotify(t) PROVE PoolTypeOK'
  BY <1>3 DEF PushNotify
<1>4. ASSUME NEW w \in Workers, WorkerWait(w) PROVE PoolTypeOK'
  BY <1>4 DEF WorkerWait
<1>5. ASSUME NEW w \in Workers, WorkerLoad(w) PROVE PoolTypeOK'
  BY <1>5 DEF WorkerLoad
<1>6. ASSUME NEW w \in Workers, WorkerSub(w) PROVE PoolTypeOK'
  BY <1>6 DEF WorkerSub
<1>7. ASSUME NEW w \in Workers, WorkerPop(w) PROVE PoolTypeOK'
  <2>1. CASE tasks = <<>>
    BY <1>7, <2>1 DEF WorkerPop
  <2>2. CASE tasks # <<>>
    <3>1. Head(tasks) \in Tasks /\ Tail(tasks) \in Seq(Tasks)
      BY <2>2
    <3>2. Head(tasks) # NoTask
      BY <3>1, PoolAssumption
    <3>. QED  BY <1>7, <2>2, <3>1, <3>2 DEF WorkerPop
  <2>. QED  BY <2>1, <2>2
<1>8. ASSUME NEW w \in Workers, WorkerRun(w) PROVE PoolTypeOK'
  BY <1>8, task[w] \in Tasks DEF WorkerRun
<1>9. CASE Launch
  BY <1>9 DEF Launch
<1>10. CASE KillStore
  BY <1>10 DEF KillStore
<1>11. CASE KillNotify
  BY <1>11 DEF KillNotify
<1>12. CASE KillJoin
  BY <1>12 DEF KillJoin
<1>13. CASE UNCHANGED poolvars
  BY <1>13 DEF poolvars
<1>. QED
  BY <1>1, <1>2, <1>3, <1>4, <1>5, <1>6, <1>7, <1>8, <1>9, <1>10, <1>11,
     <1>12, <1>13 DEF PoolNext, Push, Worker, Kill

\* The step that matters: count and Len(tasks) move together.
LEMMA CountStep ==
  ASSUME SingleWorker
  PROVE  PoolTypeOK /\ CountInv /\ [PoolNext]_poolvars => CountInv'
<1>. SUFFICES ASSUME PoolTypeOK, CountInv, [PoolNext]_poolvars PROVE CountInv'
  OBVIOUS
<1>. USE DEF PoolTypeOK, CountInv, Holding, WorkerAt
<1>a. \A v, w \in Workers : v = w
  BY SingleWorker DEF SingleWorker
<1>b. Len(tasks) \in Nat
  OBVIOUS
<1>1. ASSUME NEW t \in Tasks, PushEmplace(t) PROVE CountInv'
  <2>1. Len(tasks') = Len(tasks) + 1
    BY <1>1 DEF PushEmplace
  <2>2. \A u \in Tasks : ~ Holding(u)
    BY <1>1 DEF PushEmplace, MtxFree
  <2>. QED  BY <1>1, <1>b, <2>1, <2>2 DEF PushEmplace
<1>2. ASSUME NEW t \in Tasks, PushCount(t) PROVE CountInv'
  <2>1. \A u \in Tasks : Holding(u) => u = t
    BY <1>2 DEF PushCount
  <2>. QED  BY <1>2, <1>b, <2>1 DEF PushCount
<1>3. ASSUME NEW t \in Tasks, PushNotify(t) PROVE CountInv'
  BY <1>3, <1>b DEF PushNotify, Asleep
<1>4. ASSUME NEW w \in Workers, WorkerWait(w) PROVE CountInv'
  BY <1>4 DEF WorkerWait
<1>5. ASSUME NEW w \in Workers, WorkerLoad(w) PROVE CountInv'
  BY <1>5, <1>b DEF WorkerLoad
<1>6. ASSUME NEW w \in Workers, WorkerSub(w) PROVE CountInv'
  BY <1>6, <1>a, <1>b DEF WorkerSub
<1>7. ASSUME NEW w \in Workers, WorkerPop(w) PROVE CountInv'
  <2>1. Len(tasks') = Len(tasks) - 1 /\ wpc'[w] = "run"
    BY <1>7, <1>b DEF WorkerPop
  <2>2. \A u \in Tasks : ~ Holding(u)
    BY <1>7 DEF WorkerPop, MtxFree
  <2>. QED  BY <1>7, <1>a, <1>b, <2>1, <2>2 DEF WorkerPop
<1>8. ASSUME NEW w \in Workers, WorkerRun(w) PROVE CountInv'
  BY <1>8 DEF WorkerRun
<1>9. CASE Launch
  BY <1>9 DEF Launch
<1>10. CASE KillStore
  BY <1>10, <1>b DEF KillStore
<1>11. CASE KillNotify
  BY <1>11, <1>b DEF KillNotify, Asleep
<1>12. CASE KillJoin
  BY <1>12 DEF KillJoin
<1>13. CASE UNCHANGED poolvars
  BY <1>13 DEF poolvars
<1>. QED
  BY <1>1, <1>2, <1>3, <1>4, <1>5, <1>6, <1>7, <1>8, <1>9, <1>10, <1>11,
     <1>12, <1>13 DEF PoolNext, Push, Worker, Kill

\* Before kill, every step of one worker keeps what it has seen true.
LEMMA LiveStep ==
  ASSUME SingleWorker
  PROVE  PoolTypeOK /\ CountInv /\ LiveInv /\ [PoolNext]_poolvars => LiveInv'
<1>. SUFFICES ASSUME PoolTypeOK, CountInv, LiveInv, [PoolNext]_poolvars, ~ killed'
              PROVE  LiveInv'
  BY DEF LiveInv
<1>. USE DEF PoolTypeOK, LiveInv, WorkerAt
<1>a. \A v, w \in Workers : v = w
  BY SingleWorker DEF SingleWorker
<1>1. ASSUME NEW t \in Tasks, PushEmplace(t) PROVE LiveInv'
  BY <1>1 DEF PushEmplace
<1>2. ASSUME NEW t \in Tasks, PushCount(t) PROVE LiveInv'
  BY <1>2 DEF PushCount
<1>3. ASSUME NEW t \in Tasks, PushNotify(t) PROVE LiveInv'
  BY <1>3 DEF PushNotify, Asleep
<1>4. ASSUME NEW w \in Workers, WorkerWait(w) PROVE LiveInv'
  BY <1>4 DEF WorkerWait
<1>5. ASSUME NEW w \in Workers, WorkerLoad(w) PROVE LiveInv'
  BY <1>5 DEF WorkerLoad
<1>6. ASSUME NEW w \in Workers, WorkerSub(w) PROVE LiveInv'
  BY <1>6, <1>a DEF WorkerSub
<1>7. ASSUME NEW w \in Workers, WorkerPop(w) PROVE LiveInv'
  <2>1. tasks # <<>>
    BY <1>7 DEF WorkerPop, CountInv
  <2>. QED  BY <1>7, <2>1 DEF WorkerPop
<1>8. ASSUME NEW w \in Workers, WorkerRun(w) PROVE LiveInv'
  BY <1>8 DEF WorkerRun
<1>9. CASE Launch
  BY <1>9 DEF Launch
<1>10. CASE KillStore
  BY <1>10 DEF KillStore
<1>11. CASE KillNotify
  BY <1>11 DEF KillNotify, Asleep
<1>12. CASE KillJoin
  BY <1>12 DEF KillJoin
<1>13. CASE UNCHANGED poolvars
  BY <1>13 DEF poolvars
<1>. QED
  BY <1>1, <1>2, <1>3, <1>4, <1>5, <1>6, <1>7, <1>8, <1>9, <1>10, <1>11,
     <1>12, <1>13 DEF PoolNext, Push, Worker, Kill

\* With the invariant, who takes a task finds one and only kill ends a worker.
LEMMA IInvImplies == IInv => PopFindsTask /\ WorkersStay
  BY DEF IInv, PoolTypeOK, CountInv, LiveInv, PopFindsTask, WorkersStay

\* For any number of workers, tasks and pushing threads, every thread stands at
\* a step of its code, and a worker that calls a task has popped one
\* (thread_pool.hpp:28-78).
THEOREM TypeCorrect == PoolSpec => []PoolTypeOK
<1>. QED  BY TypeInit, TypeStep, PTL DEF PoolSpec

\* For any number of tasks and pushing threads, a single worker never leaves
\* its loop at thread_pool.hpp:58 with the queue empty.
THEOREM OneWorkerFindsTask ==
  ASSUME SingleWorker
  PROVE  PoolSpec => []PopFindsTask
<1>1. IInv /\ [PoolNext]_poolvars => IInv'
  BY TypeStep, CountStep, LiveStep, SingleWorker DEF IInv
<1>. QED  BY <1>1, IInvInit, IInvImplies, PTL DEF PoolSpec

\* ... and leaves it at all only once kill has poisoned the counter.
THEOREM OneWorkerStays ==
  ASSUME SingleWorker
  PROVE  PoolSpec => []WorkersStay
<1>1. IInv /\ [PoolNext]_poolvars => IInv'
  BY TypeStep, CountStep, LiveStep, SingleWorker DEF IInv
<1>. QED  BY <1>1, IInvInit, IInvImplies, PTL DEF PoolSpec
=============================================================================
