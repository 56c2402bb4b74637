------------------------------ MODULE Dispenser ------------------------------
(* Dispenser and its acquire handles of gep/include/rgh/gep/dispenser.hpp,   *)
(* in the three modes it declares ready for use (:12-17).  In Lock and       *)
(* Trylock a handle holds a shared_mutex over one object; in Drop a watch    *)
(* holds the block published last and a control a block of its own, which    *)
(* it publishes when released.  A block is a std::shared_ptr: the load and   *)
(* the store of the published pointer are several steps each, and nothing    *)
(* orders them between two threads.  Two of them at once, one a store, are a *)
(* data race: `raced' remembers that there was one, after which the          *)
(* properties of Drop promise nothing.                                       *)
EXTENDS Integers, FiniteSets

CONSTANTS Threads,
          Names,         \* the handle variables of a thread
          Blocks,        \* where objects can be allocated
          NoBlock,       \* the null pointer
          Modes          \* the modes dispensers are built in

ASSUME DispenserAssumption ==
  /\ NoBlock \notin Blocks
  /\ Modes \subseteq {"Lock", "Trylock", "Drop"}

VARIABLES mode,      \* _mode
          readers,   \* the threads that hold _M_.lock.mtx shared
          writer,    \* the threads that hold it unique
          block,     \* _M_.lock.block, _M_.drop.block
          refs,      \* the use count of each block; 0 once it is freed
          content,   \* what each block holds
          handle,    \* the handles of each thread
          pc,        \* what each thread is in the middle of
          temp,      \* the block the temporary of a store owns
          seen,      \* the block a store has read, to be swapped out
          forgot,    \* history: threads whose shared lock a move forgot
          raced      \* history: a store of the block overlapped an access

shared == <<readers, writer, forgot>>
heap == <<block, refs, content>>
store == <<pc, temp, seen, raced>>
vars == <<mode, readers, writer, block, refs, content, handle, pc, temp, seen,
          forgot, raced>>

LockModes == {"Lock", "Trylock"}

\* A handle: kind is "none" while _disp is null; holds is the lock it has, or
\* the use it counts; blk is its own block.
None == [kind |-> "none", holds |-> FALSE, blk |-> NoBlock]
Handle(kind, holds, blk) == [kind |-> kind, holds |-> holds, blk |-> blk]

Put(t, n, h) == handle' = [handle EXCEPT ![t][n] = h]

Running(t) == pc[t] = "run"
Fresh(t, n) == Running(t) /\ handle[t][n] = None

\* A thread that has the mutex must not lock it again.
Owns(t) == t \in readers \cup writer

Init ==
  /\ mode \in Modes
  /\ readers = {} /\ writer = {}
  /\ block \in IF mode = "Drop" THEN {NoBlock} ELSE Blocks
  /\ refs = [b \in Blocks |-> IF b = block THEN 1 ELSE 0]
  /\ content = [b \in Blocks |-> 0]
  /\ handle = [t \in Threads |-> [n \in Names |-> None]]
  /\ pc = [t \in Threads |-> "run"]
  /\ temp = [t \in Threads |-> NoBlock]
  /\ seen = [t \in Threads |-> NoBlock]
  /\ forgot = {} /\ raced = FALSE

-----------------------------------------------------------------------------
(* The constructor of a handle in Lock and Trylock. *)

WatchLock(t, n) ==
  /\ mode = "Lock"
  /\ Fresh(t, n) /\ ~ Owns(t)
  /\ writer = {}
  /\ readers' = readers \cup {t}
  /\ Put(t, n, Handle("watch", TRUE, NoBlock))
  /\ UNCHANGED <<mode, writer, forgot, heap, store>>

\* try_lock_shared may also fail when the mutex is free.
WatchTrylock(t, n) ==
  /\ mode = "Trylock"
  /\ Fresh(t, n) /\ ~ Owns(t)
  /\ \/ /\ writer = {}
        /\ readers' = readers \cup {t}
        /\ Put(t, n, Handle("watch", TRUE, NoBlock))
     \/ /\ Put(t, n, Handle("watch", FALSE, NoBlock))
        /\ UNCHANGED readers
  /\ UNCHANGED <<mode, writer, forgot, heap, store>>

\* Mutant: a control locks shared.
ControlLockShared(t, n) ==
  /\ mode \in LockModes
  /\ Fresh(t, n) /\ ~ Owns(t)
  /\ writer = {}
  /\ writer' = {t}
  /\ Put(t, n, Handle("control", TRUE, NoBlock))
  /\ UNCHANGED <<mode, readers, forgot, heap, store>>

ControlLock(t, n) ==
  /\ mode \in LockModes
  /\ Fresh(t, n) /\ ~ Owns(t)
  /\ readers = {} /\ writer = {}
  /\ writer' = {t}
  /\ Put(t, n, Handle("control", TRUE, NoBlock))
  /\ UNCHANGED <<mode, readers, forgot, heap, store>>

\* release, and with it the destructor and commit.
ReleaseWatch(t, n) ==
  /\ mode \in LockModes
  /\ Running(t) /\ handle[t][n].kind = "watch"
  /\ readers' = IF handle[t][n].holds THEN readers \ {t} ELSE readers
  /\ Put(t, n, None)
  /\ UNCHANGED <<mode, writer, forgot, heap, store>>

\* Mutant: a control is released as if it were a watch.
ReleaseControlShared(t, n) ==
  /\ mode \in LockModes
  /\ Running(t) /\ handle[t][n].kind = "control"
  /\ readers' = readers \ {t}
  /\ Put(t, n, None)
  /\ UNCHANGED <<mode, writer, forgot, heap, store>>

ReleaseControl(t, n) ==
  /\ mode \in LockModes
  /\ Running(t) /\ handle[t][n].kind = "control"
  /\ writer' = writer \ {t}
  /\ Put(t, n, None)
  /\ UNCHANGED <<mode, readers, forgot, heap, store>>

-----------------------------------------------------------------------------
(* Drop. *)

\* The block is being loaded, or stored, by a thread other than t.
Loading(t) == \E u \in Threads \ {t} : pc[u] = "count"
Storing(t) == \E u \in Threads \ {t} : pc[u] = "store"

\* A control makes a block.
ControlDrop(t, n) ==
  /\ mode = "Drop"
  /\ Fresh(t, n)
  /\ \E b \in Blocks :
       /\ refs[b] = 0
       /\ refs' = [refs EXCEPT ![b] = 1]
       /\ content' = [content EXCEPT ![b] = 0]
       /\ Put(t, n, Handle("control", TRUE, b))
  /\ UNCHANGED <<mode, shared, block, store>>

\* A watch copies the published pointer: it is loaded, and only then counted.
WatchLoad(t, n) ==
  /\ mode = "Drop"
  /\ Fresh(t, n)
  /\ Put(t, n, Handle("watch", block = NoBlock, block))
  /\ pc' = [pc EXCEPT ![t] = IF block = NoBlock THEN "run" ELSE "count"]
  /\ raced' = (raced \/ Storing(t))
  /\ UNCHANGED <<mode, shared, heap, temp, seen>>

WatchCount(t, n) ==
  /\ pc[t] = "count"
  /\ handle[t][n].kind = "watch" /\ ~ handle[t][n].holds
  /\ handle[t][n].blk # NoBlock
  /\ refs' = [refs EXCEPT ![handle[t][n].blk] = @ + 1]
  /\ handle' = [handle EXCEPT ![t][n].holds = TRUE]
  /\ pc' = [pc EXCEPT ![t] = "run"]
  /\ UNCHANGED <<mode, shared, block, content, temp, seen, raced>>

\* One use of b less; the last one frees it.
Uncount(b) == refs' = IF b = NoBlock THEN refs ELSE [refs EXCEPT ![b] = @ - 1]

\* Mutant: the handle keeps its dispenser, and is released again.
ResetKept(t, n) ==
  /\ mode = "Drop"
  /\ Running(t) /\ handle[t][n].kind # "none"
  /\ Uncount(handle[t][n].blk)
  /\ UNCHANGED <<mode, shared, block, content, handle, store>>

\* A watch released, or any handle that is told to drop().
Reset(t, n) ==
  /\ mode = "Drop"
  /\ Running(t) /\ handle[t][n].kind # "none"
  /\ Uncount(handle[t][n].blk)
  /\ Put(t, n, None)
  /\ UNCHANGED <<mode, shared, block, content, store>>

\* Mutant: the object is copied over the one published before.
PublishInPlace(t, n) ==
  /\ mode = "Drop"
  /\ Running(t) /\ handle[t][n].kind = "control"
  /\ IF block = NoBlock
       THEN block' = handle[t][n].blk /\ UNCHANGED <<content, refs>>
       ELSE /\ content' = [content EXCEPT ![block] = content[handle[t][n].blk]]
            /\ Uncount(handle[t][n].blk)
            /\ UNCHANGED block
  /\ Put(t, n, None)
  /\ UNCHANGED <<mode, shared, store>>

\* A control released: a temporary takes its block and is swapped with the
\* dispenser's.  A swap reads the block that is there,
Publish(t, n) ==
  /\ mode = "Drop"
  /\ Running(t) /\ handle[t][n].kind = "control"
  /\ temp' = [temp EXCEPT ![t] = handle[t][n].blk]
  /\ seen' = [seen EXCEPT ![t] = block]
  /\ Put(t, n, None)
  /\ pc' = [pc EXCEPT ![t] = "store"]
  /\ raced' = (raced \/ Loading(t) \/ Storing(t))
  /\ UNCHANGED <<mode, shared, heap>>

\* stores the new one in its place,
Store(t) ==
  /\ pc[t] = "store"
  /\ block' = temp[t]
  /\ temp' = [temp EXCEPT ![t] = seen[t]]
  /\ seen' = [seen EXCEPT ![t] = NoBlock]
  /\ pc' = [pc EXCEPT ![t] = "letgo"]
  /\ UNCHANGED <<mode, shared, refs, content, handle, raced>>

\* and the temporary lets go of the one it read.
LetGo(t) ==
  /\ pc[t] = "letgo"
  /\ Uncount(temp[t])
  /\ temp' = [temp EXCEPT ![t] = NoBlock]
  /\ pc' = [pc EXCEPT ![t] = "run"]
  /\ UNCHANGED <<mode, shared, block, content, handle, seen, raced>>

-----------------------------------------------------------------------------
(* In every mode. *)

\* What a moved handle keeps: in Trylock a watch made by a move has not
\* acquired, whatever the watch it was made from.
Moved(h) ==
  IF mode = "Trylock" /\ h.kind = "watch" THEN Handle("watch", FALSE, NoBlock) ELSE h

\* The move constructor.  A lock the new handle does not know of is never given
\* back.
Move(t, m, n) ==
  /\ Running(t) /\ handle[t][m].kind # "none" /\ handle[t][n] = None
  /\ handle' = [handle EXCEPT ![t][n] = Moved(handle[t][m]), ![t][m] = None]
  /\ forgot' = IF handle[t][m].holds /\ ~ Moved(handle[t][m]).holds
                 THEN forgot \cup {t} ELSE forgot
  /\ UNCHANGED <<mode, readers, writer, heap, store>>

\* The object behind a handle.
Object(h) == IF mode = "Drop" THEN h.blk ELSE block

\* A thread works on the object of its control.
Write(t, n) ==
  /\ Running(t) /\ handle[t][n].kind = "control"
  /\ content' = [content EXCEPT ![Object(handle[t][n])] = 1 - @]
  /\ UNCHANGED <<mode, shared, block, refs, handle, store>>

Step(t) ==
  \/ \E n \in Names :
       \/ WatchLock(t, n) \/ WatchTrylock(t, n) \/ ControlLock(t, n)
       \/ ReleaseWatch(t, n) \/ ReleaseControl(t, n)
       \/ ControlDrop(t, n) \/ WatchLoad(t, n) \/ WatchCount(t, n)
       \/ Reset(t, n) \/ Publish(t, n)
       \/ Write(t, n)
       \/ \E m \in Names : Move(t, m, n)
  \/ Store(t) \/ LetGo(t)

Next == \E t \in Threads : Step(t)

Spec == Init /\ [][Next]_vars

-----------------------------------------------------------------------------

AllHandles == [kind : {"none", "watch", "control"}, holds : BOOLEAN,
               blk : Blocks \cup {NoBlock}]

\* The mode never changes, a Lock dispenser always has its object, and only a
\* thread within a store has a temporary (dispenser.hpp:81-133, :305-311).
TypeOK ==
  /\ mode \in Modes
  /\ readers \subseteq Threads /\ writer \subseteq Threads
  /\ forgot \subseteq readers /\ raced \in BOOLEAN
  /\ block \in Blocks \cup {NoBlock}
  /\ mode \in LockModes => block # NoBlock
  /\ refs \in [Blocks -> Int]
  /\ content \in [Blocks -> {0, 1}]
  /\ handle \in [Threads -> [Names -> AllHandles]]
  /\ pc \in [Threads -> {"run", "count", "store", "letgo"}]
  /\ temp \in [Threads -> Blocks \cup {NoBlock}]
  /\ seen \in [Threads -> Blocks \cup {NoBlock}]
  /\ \A t \in Threads : temp[t] # NoBlock => pc[t] \in {"store", "letgo"}

\* A thread that may look at the object, by a handle its operator bool does not
\* turn down.
MayRead(t, n) == handle[t][n].kind # "none" /\ handle[t][n].holds
MayWrite(t, n) == handle[t][n].kind = "control"

\* In Lock and Trylock a control is alone: no other thread reads or writes the
\* object (dispenser.hpp:190-203).
ControlIsAlone ==
  mode \in LockModes =>
    \A t, u \in Threads : \A m, n \in Names :
      t # u /\ MayWrite(t, m) => ~ MayRead(u, n)

\* What a watch shows stays what it is for as long as the watch is held: the
\* object is not written, and in Drop the block is not freed and made again by
\* the controls that come and go (dispenser.hpp:7-15).  In Drop this is said
\* only as long as no store of the block has overlapped a load or another
\* store, which nothing in the code prevents (dispenser.hpp:208, :307).
WatchIsStable ==
  [][(mode \in LockModes \/ ~ raced) =>
       \A t \in Threads, n \in Names :
         LET h == handle[t][n] IN
         (h.kind = "watch" /\ h.holds /\ handle'[t][n] = h /\ Object(h) # NoBlock)
           => content'[Object(h)] = content[Object(h)]]_vars

\* The threads with a handle that gives a shared lock back when it is released.
Sharers == {t \in Threads : \E n \in Names :
              handle[t][n].kind = "watch" /\ handle[t][n].holds}

\* The mutex is held for the handles that hold it, and for the Trylock watches
\* that were moved while they held it: their lock is never given back, and it
\* is the only one (dispenser.hpp:264-302).  As long as no store of the block
\* has overlapped an access, a use is counted for every owner of a block, so
\* nothing stays allocated once its handles are gone (:305-311, :349-357).
NothingLeaks ==
  /\ mode \in LockModes =>
       /\ readers = Sharers \cup forgot
       /\ writer = {t \in Threads : \E n \in Names : handle[t][n].kind = "control"}
       /\ mode = "Lock" => forgot = {}
  /\ ~ raced =>
       \A b \in Blocks :
         refs[b] = Cardinality({t \in Threads : temp[t] = b})
                   + (IF block = b THEN 1 ELSE 0)
                   + Cardinality({tn \in Threads \X Names :
                       /\ handle[tn[1]][tn[2]].holds
                       /\ handle[tn[1]][tn[2]].blk = b})

\* No thread stands on a block that has been freed (dispenser.hpp:208, :307).
NeverDangling ==
  /\ block # NoBlock => refs[block] > 0
  /\ \A t \in Threads, n \in Names :
       handle[t][n].blk # NoBlock => refs[handle[t][n].blk] > 0

\* It takes an overlap of a store with a load or another store to get there:
\* loads overlap with each other, and with the freeing of the block published
\* before, at no risk (dispenser.hpp:208, :307).
OnlyRacesDangle == ~ raced => NeverDangling
=============================================================================
