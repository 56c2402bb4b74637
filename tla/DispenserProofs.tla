--------------------------- MODULE DispenserProofs ---------------------------
(* Dispenser for any number of threads, handle variables and blocks.  Under  *)
(* Lock and Trylock the mutex is held exactly by the thread whose handle     *)
(* says so, or for a Trylock watch that was moved, so a control is alone     *)
(* with the object however handles are moved and released.  Under Drop, as   *)
(* long as no store of the block has overlapped a load or another store, the *)
(* uses of a block are exactly the handles that count one, the publication   *)
(* and the temporaries of stores: nothing leaks, nobody stands on freed      *)
(* memory and what a watch shows does not change.                            *)
EXTENDS Dispenser, FiniteSetTheorems, TLAPS

Holding(t, n) == MayWrite(t, n) \/ (handle[t][n].kind = "watch" /\ handle[t][n].holds)

\* What the steps need of the shape of the state.
ShapeInv ==
  /\ mode \in Modes
  /\ block \in Blocks \cup {NoBlock}
  /\ handle \in [Threads -> [Names -> AllHandles]]
  /\ pc \in [Threads -> {"run", "count", "store", "letgo"}]
  /\ temp \in [Threads -> Blocks \cup {NoBlock}]
  /\ seen \in [Threads -> Blocks \cup {NoBlock}]
  /\ raced \in BOOLEAN

\* Nobody shares with a writer, writers are alone, every handle that holds the
\* lock is known to the mutex, and a thread has one such handle at most: that
\* last part is what makes a release give back its own lock and no other.
MutexInv ==
  mode \in LockModes =>
    /\ \A t \in Threads : pc[t] = "run"
    /\ readers = {} \/ writer = {}
    /\ \A t, u \in writer : t = u
    /\ \A t \in Threads, n \in Names : MayWrite(t, n) => t \in writer
    /\ \A t \in Threads, n \in Names :
         handle[t][n].kind = "watch" /\ handle[t][n].holds => t \in readers
    /\ \A t \in Threads, m, n \in Names : Holding(t, m) /\ Holding(t, n) => m = n

IInv == ShapeInv /\ MutexInv

\* What the handles of the code are made of.
LEMMA HandleType ==
  ASSUME NEW k \in {"none", "watch", "control"}, NEW h \in BOOLEAN,
         NEW b \in Blocks \cup {NoBlock}
  PROVE  Handle(k, h, b) \in AllHandles
  BY DEF Handle, AllHandles

\* The handle of a variable that has none.
LEMMA NoneType == None \in AllHandles
  BY DEF None, AllHandles

\* A handle variable given a handle of the right shape.
LEMMA PutShape ==
  ASSUME ShapeInv, NEW t \in Threads, NEW n \in Names, NEW h \in AllHandles, Put(t, n, h)
  PROVE  /\ handle' \in [Threads -> [Names -> AllHandles]]
         /\ handle'[t][n] = h
         /\ \A u \in Threads, m \in Names :
              u # t \/ m # n => handle'[u][m] = handle[u][m]
  BY DEF ShapeInv, Put

\* Every handle begins as none, with the mutex free.
LEMMA InvInit == Init => IInv
<1>. SUFFICES ASSUME Init PROVE IInv
  OBVIOUS
<1>1. \A t \in Threads, n \in Names : handle[t][n] = None
  BY DEF Init
<1>2. ShapeInv
  BY NoneType DEF Init, ShapeInv
<1>3. MutexInv
  BY <1>1 DEF Init, MutexInv, MayWrite, Holding, None
<1>. QED  BY <1>2, <1>3 DEF IInv

\* Nothing a Drop step does concerns the lock.
LEMMA DropStep ==
  ASSUME IInv, mode = "Drop", UNCHANGED mode, ShapeInv'
  PROVE  IInv'
  BY DEF IInv, MutexInv, LockModes

\* Every step keeps who holds the mutex and in which handle.
LEMMA InvStep == IInv /\ [Next]_vars => IInv'
<1>. SUFFICES ASSUME IInv, [Next]_vars PROVE IInv'
  OBVIOUS
<1>0. ShapeInv /\ MutexInv
  BY DEF IInv
<1>1. ASSUME NEW t \in Threads, NEW n \in Names, WatchLock(t, n) PROVE IInv'
  <2>. DEFINE h == Handle("watch", TRUE, NoBlock)
  <2>1. h \in AllHandles /\ Put(t, n, h) /\ h.kind = "watch"
    BY <1>1, HandleType DEF WatchLock, Handle
  <2>. HIDE DEF h
  <2>2. ShapeInv'
    BY <1>0, <1>1, <2>1, PutShape DEF WatchLock, ShapeInv, heap, shared, store
  <2>3. \A m \in Names : ~ Holding(t, m)
    BY <1>0, <1>1
       DEF MutexInv, WatchLock, Owns, LockModes, Holding, Fresh, MayWrite
  <2>5. /\ handle'[t][n] = h
        /\ \A u \in Threads, m \in Names :
             u # t \/ m # n => handle'[u][m] = handle[u][m]
    BY <1>0, <2>1, PutShape
  <2>4. MutexInv'
    BY <1>0, <1>1, <2>1, <2>3, <2>5
       DEF MutexInv, WatchLock, LockModes, Holding, MayWrite, store
  <2>. QED  BY <2>2, <2>4 DEF IInv
<1>2. ASSUME NEW t \in Threads, NEW n \in Names, WatchTrylock(t, n) PROVE IInv'
  <2>1. PICK h \in AllHandles :
          Put(t, n, h) /\ h.kind = "watch"
          /\ IF h.holds THEN writer = {} /\ readers' = readers \cup {t}
                        ELSE UNCHANGED readers
    <3>. DEFINE got == Handle("watch", TRUE, NoBlock)
                not == Handle("watch", FALSE, NoBlock)
    <3>3. /\ got \in AllHandles /\ got.kind = "watch" /\ got.holds
          /\ not \in AllHandles /\ not.kind = "watch" /\ ~ not.holds
      BY HandleType DEF Handle
    <3>4. \/ readers' = readers \cup {t} /\ writer = {} /\ Put(t, n, got)
          \/ UNCHANGED readers /\ Put(t, n, not)
      BY <1>2 DEF WatchTrylock
    <3>. HIDE DEF got, not
    <3>. QED  BY <3>3, <3>4
  <2>2. ShapeInv'
    BY <1>0, <1>2, <2>1, PutShape DEF WatchTrylock, ShapeInv, heap, shared, store
  <2>3. \A m \in Names : ~ Holding(t, m)
    BY <1>0, <1>2 DEF MutexInv, WatchTrylock, Owns, LockModes, Holding, MayWrite
  <2>5. /\ handle'[t][n] = h
        /\ \A u \in Threads, m \in Names :
             u # t \/ m # n => handle'[u][m] = handle[u][m]
    BY <1>0, <2>1, PutShape
  <2>4. MutexInv'
    BY <1>0, <1>2, <2>1, <2>3, <2>5
       DEF MutexInv, WatchTrylock, LockModes, Holding, MayWrite, store
  <2>. QED  BY <2>2, <2>4 DEF IInv
<1>3. ASSUME NEW t \in Threads, NEW n \in Names, ControlLock(t, n) PROVE IInv'
  <2>. DEFINE h == Handle("control", TRUE, NoBlock)
  <2>1. h \in AllHandles /\ Put(t, n, h) /\ h.kind = "control"
    BY <1>3, HandleType DEF ControlLock, Handle
  <2>. HIDE DEF h
  <2>2. ShapeInv'
    BY <1>0, <1>3, <2>1, PutShape DEF ControlLock, ShapeInv, heap, shared, store
  <2>3. \A u \in Threads, m \in Names : ~ Holding(u, m)
    BY <1>0, <1>3 DEF MutexInv, ControlLock, LockModes, Holding, MayWrite
  <2>5. /\ handle'[t][n] = h
        /\ \A u \in Threads, m \in Names :
             u # t \/ m # n => handle'[u][m] = handle[u][m]
    BY <1>0, <2>1, PutShape
  <2>4. MutexInv'
    BY <1>0, <1>3, <2>1, <2>3, <2>5
       DEF MutexInv, ControlLock, LockModes, Holding, MayWrite, store
  <2>. QED  BY <2>2, <2>4 DEF IInv
<1>4. ASSUME NEW t \in Threads, NEW n \in Names, ReleaseWatch(t, n) PROVE IInv'
  <2>1. None \in AllHandles /\ Put(t, n, None) /\ None.kind = "none"
    BY <1>4, NoneType DEF ReleaseWatch, None
  <2>2. ShapeInv'
    BY <1>0, <1>4, <2>1, PutShape DEF ReleaseWatch, ShapeInv, heap, shared, store
  <2>3. ASSUME handle[t][n].holds, NEW m \in Names, m # n PROVE ~ Holding(t, m)
    BY <1>0, <1>4, <2>3 DEF MutexInv, ReleaseWatch, Holding
  <2>5. /\ handle'[t][n] = None
        /\ \A u \in Threads, m \in Names :
             u # t \/ m # n => handle'[u][m] = handle[u][m]
    BY <1>0, <2>1, PutShape
  <2>4. MutexInv'
    BY <1>0, <1>4, <2>1, <2>3, <2>5
       DEF MutexInv, ReleaseWatch, LockModes, Holding, MayWrite, store
  <2>. QED  BY <2>2, <2>4 DEF IInv
<1>5. ASSUME NEW t \in Threads, NEW n \in Names, ReleaseControl(t, n) PROVE IInv'
  <2>1. None \in AllHandles /\ Put(t, n, None) /\ None.kind = "none"
    BY <1>5, NoneType DEF ReleaseControl, None
  <2>2. ShapeInv'
    BY <1>0, <1>5, <2>1, PutShape DEF ReleaseControl, ShapeInv, heap, shared, store
  <2>3. \A u \in Threads, m \in Names : Holding(u, m) => u = t /\ m = n
    BY <1>0, <1>5 DEF MutexInv, ReleaseControl, Holding, MayWrite
  <2>5. /\ handle'[t][n] = None
        /\ \A u \in Threads, m \in Names :
             u # t \/ m # n => handle'[u][m] = handle[u][m]
    BY <1>0, <2>1, PutShape
  <2>4. MutexInv'
    BY <1>0, <1>5, <2>1, <2>3, <2>5
       DEF MutexInv, ReleaseControl, LockModes, Holding, MayWrite, store
  <2>. QED  BY <2>2, <2>4 DEF IInv
<1>6. ASSUME NEW t \in Threads, NEW n \in Names, ControlDrop(t, n) PROVE IInv'
  <2>1. PICK b \in Blocks : Put(t, n, Handle("control", TRUE, b))
    BY <1>6 DEF ControlDrop
  <2>2. ShapeInv'
    BY <1>0, <1>6, <2>1, HandleType, PutShape
       DEF ControlDrop, ShapeInv, heap, shared, store
  <2>. QED  BY <1>6, <2>2, DropStep DEF ControlDrop
<1>7. ASSUME NEW t \in Threads, NEW n \in Names, Reset(t, n) PROVE IInv'
  <2>1. ShapeInv'
    BY <1>0, <1>7, NoneType, PutShape DEF Reset, ShapeInv, shared, store
  <2>. QED  BY <1>7, <2>1, DropStep DEF Reset
<1>8. ASSUME NEW t \in Threads, NEW n \in Names, Publish(t, n) PROVE IInv'
  <2>2. handle[t][n].blk \in Blocks \cup {NoBlock}
    BY <1>0 DEF ShapeInv, AllHandles
  <2>1. ShapeInv'
    BY <1>0, <1>8, <2>2, NoneType, PutShape
       DEF Publish, ShapeInv, shared, heap
  <2>. QED  BY <1>8, <2>1, DropStep DEF Publish
<1>9. ASSUME NEW t \in Threads, NEW m \in Names, NEW n \in Names, Move(t, m, n) PROVE IInv'
  <2>. DEFINE h == Moved(handle[t][m])
  <2>0. /\ h \in AllHandles /\ h.kind = handle[t][m].kind
        /\ \/ h = handle[t][m]
           \/ h.kind = "watch" /\ ~ h.holds
    <3>1. handle[t][m] \in AllHandles
      BY <1>0 DEF ShapeInv
    <3>2. Handle("watch", FALSE, NoBlock) \in AllHandles
      BY HandleType
    <3>. QED  BY <3>1, <3>2 DEF Moved, Handle
  <2>1. /\ m # n
        /\ handle'[t][n] = h /\ handle'[t][m] = None
        /\ \A u \in Threads, k \in Names :
             u # t \/ (k # m /\ k # n) => handle'[u][k] = handle[u][k]
    BY <1>0, <1>9 DEF Move, ShapeInv, None
  <2>6. handle' = [handle EXCEPT ![t][n] = h, ![t][m] = None]
    BY <1>9 DEF Move
  <2>. HIDE DEF h
  <2>2. ShapeInv'
    BY <1>0, <1>9, <2>0, <2>6, NoneType DEF Move, ShapeInv, heap, shared, store
  <2>3. ~ Holding(t, m)' /\ (Holding(t, n)' => Holding(t, m))
    BY <2>0, <2>1 DEF Holding, MayWrite, None
  <2>4. MutexInv'
    <3>. SUFFICES ASSUME mode \in LockModes PROVE MutexInv'
      BY <1>9 DEF MutexInv, Move
    <3>1. \A u \in Threads, k \in Names : MayWrite(u, k)' => u \in writer
      BY <1>0, <2>0, <2>1 DEF MutexInv, MayWrite, None
    <3>2. \A u \in Threads, k \in Names :
            (handle[u][k].kind = "watch" /\ handle[u][k].holds)' => u \in readers
      BY <1>0, <2>0, <2>1 DEF MutexInv, None
    <3>4. \A u \in Threads, k \in Names :
            u # t \/ (k # m /\ k # n) => (Holding(u, k)' <=> Holding(u, k))
      BY <2>1 DEF Holding, MayWrite
    <3>3. \A u \in Threads, k, l \in Names : Holding(u, k)' /\ Holding(u, l)' => k = l
      BY <1>0, <2>1, <2>3, <3>4 DEF MutexInv
    <3>. QED
      BY <1>0, <1>9, <3>1, <3>2, <3>3 DEF MutexInv, Move, store
  <2>. QED  BY <2>2, <2>4 DEF IInv
<1>10. ASSUME NEW t \in Threads, NEW n \in Names, WatchLoad(t, n) PROVE IInv'
  <2>. DEFINE h == Handle("watch", block = NoBlock, block)
  <2>1. h \in AllHandles /\ Put(t, n, h)
    BY <1>0, <1>10, HandleType DEF WatchLoad, ShapeInv
  <2>. HIDE DEF h
  <2>2. ShapeInv'
    <3>1. handle' \in [Threads -> [Names -> AllHandles]]
      BY <1>0, <2>1, PutShape
    <3>2. pc' \in [Threads -> {"run", "count", "store", "letgo"}]
      BY <1>0, <1>10 DEF WatchLoad, ShapeInv
    <3>. QED  BY <1>0, <1>10, <3>1, <3>2 DEF WatchLoad, ShapeInv, heap
  <2>. QED  BY <1>10, <2>2, DropStep DEF WatchLoad
<1>11. ASSUME NEW t \in Threads, NEW n \in Names, WatchCount(t, n) PROVE IInv'
  <2>1. handle' \in [Threads -> [Names -> AllHandles]]
    <3>1. handle[t][n] \in AllHandles /\ handle[t] \in [Names -> AllHandles]
      BY <1>0 DEF ShapeInv
    <3>2. [handle[t][n] EXCEPT !.holds = TRUE] \in AllHandles
      BY <3>1 DEF AllHandles
    <3>. DEFINE h == [handle[t][n] EXCEPT !.holds = TRUE]
    <3>3. handle' = [handle EXCEPT ![t] = [handle[t] EXCEPT ![n] = h]]
      BY <1>0, <1>11 DEF WatchCount, ShapeInv
    <3>. HIDE DEF h
    <3>4. h \in AllHandles
      BY <3>2 DEF h
    <3>. QED  BY <1>0, <3>1, <3>3, <3>4 DEF ShapeInv
  <2>2. ShapeInv'
    BY <1>0, <1>11, <2>1 DEF WatchCount, ShapeInv, shared
  <2>3. mode \notin LockModes /\ UNCHANGED mode
    BY <1>0, <1>11 DEF WatchCount, MutexInv
  <2>. QED  BY <2>2, <2>3 DEF IInv, MutexInv
<1>12. ASSUME NEW t \in Threads, NEW n \in Names, Write(t, n) PROVE IInv'
  BY <1>0, <1>12
     DEF Write, IInv, ShapeInv, MutexInv, MayWrite, Holding, shared, heap, store
<1>13. ASSUME NEW t \in Threads, LetGo(t) PROVE IInv'
  <2>1. ShapeInv'
    BY <1>0, <1>13 DEF LetGo, ShapeInv, shared
  <2>2. mode \notin LockModes /\ UNCHANGED mode
    BY <1>0, <1>13 DEF LetGo, MutexInv
  <2>. QED  BY <2>1, <2>2 DEF IInv, MutexInv
<1>15. ASSUME NEW t \in Threads, Store(t) PROVE IInv'
  <2>0. mode \notin LockModes /\ UNCHANGED mode
    BY <1>0, <1>15 DEF Store, MutexInv
  <2>1. ShapeInv'
    BY <1>0, <1>15, <2>0 DEF Store, ShapeInv, shared
  <2>. QED  BY <2>1, <2>0 DEF IInv, MutexInv
<1>14. CASE UNCHANGED vars
  BY <1>0, <1>14 DEF vars, IInv, ShapeInv, MutexInv, MayWrite, Holding
<1>. QED
  BY <1>1, <1>2, <1>3, <1>4, <1>5, <1>6, <1>7, <1>8, <1>9, <1>10, <1>11,
     <1>12, <1>13, <1>14, <1>15 DEF Next, Step

\* In Lock and Trylock, whatever handles there are and however they are moved,
\* a control shares the object with no other thread (dispenser.hpp:190-203).
THEOREM ControlsAlone == Spec => []ControlIsAlone
<1>1. IInv => ControlIsAlone
  BY DEF IInv, MutexInv, ShapeInv, AllHandles, ControlIsAlone, MayRead, MayWrite
<1>. QED  BY <1>1, InvInit, InvStep, PTL DEF Spec

-----------------------------------------------------------------------------
(* What is locked and counted, exactly.                                      *)

Watching(t, n) == handle[t][n].kind = "watch" /\ handle[t][n].holds

\* The mutex is held for a handle that says so, or for a watch a move forgot,
\* after which its thread has no such handle.
ExactInv ==
  /\ readers \subseteq Threads /\ writer \subseteq Threads
  /\ forgot \subseteq readers
  /\ mode # "Trylock" => forgot = {}
  /\ mode \in LockModes =>
       /\ \A t \in forgot, n \in Names : ~ Watching(t, n)
       /\ \A t \in readers \ forgot : \E n \in Names : Watching(t, n)
       /\ \A t \in writer : \E n \in Names : MayWrite(t, n)

\* A watch of Drop between the load of its block and the count.
Uncounted(t, n) == handle[t][n].kind = "watch" /\ ~ handle[t][n].holds

\* What a handle, and a thread that stores a block, may have at hand.
HandleInv ==
  /\ refs \in [Blocks -> Int]
  /\ content \in [Blocks -> {0, 1}]
  /\ \A t \in Threads, n \in Names :
       /\ handle[t][n].kind = "none" => handle[t][n] = None
       /\ handle[t][n].kind = "control" => handle[t][n].holds
  /\ mode \in LockModes =>
       /\ block # NoBlock
       /\ \A t \in Threads, n \in Names : handle[t][n].blk = NoBlock
       /\ \A t \in Threads : temp[t] = NoBlock
  /\ mode = "Drop" =>
       /\ \A t \in Threads, n \in Names :
            /\ handle[t][n].kind = "control" => handle[t][n].blk # NoBlock
            /\ Uncounted(t, n) => pc[t] = "count" /\ handle[t][n].blk # NoBlock
       /\ \A t \in Threads, m, n \in Names :
            Uncounted(t, m) /\ Uncounted(t, n) => m = n
       /\ \A t \in Threads : temp[t] # NoBlock => pc[t] \in {"store", "letgo"}

\* The owners of a block.
TempOf(b) == {t \in Threads : temp[t] = b}
HandlesOf(b) == {tn \in Threads \X Names :
                   /\ handle[tn[1]][tn[2]].holds
                   /\ handle[tn[1]][tn[2]].blk = b}
Published(b) == IF block = b THEN 1 ELSE 0

\* There are finitely many, and each is counted.
CountInv ==
  ~ raced => \A b \in Blocks :
    /\ IsFiniteSet(TempOf(b)) /\ IsFiniteSet(HandlesOf(b))
    /\ refs[b] = Cardinality(TempOf(b)) + Published(b)
                   + Cardinality(HandlesOf(b))

\* If no store has overlapped an access, a thread that stores is the only one
\* at the block, and the block it read is the one that is there; a block that
\* is loaded is the published one until it is counted, and the block of a
\* control has no other owner.
QuietInv ==
  ~ raced =>
    /\ \A t, u \in Threads :
         pc[t] = "store" /\ pc[u] \in {"count", "store"} => t = u
    /\ mode = "Drop" => \A t \in Threads :
         /\ pc[t] = "store" => seen[t] = block
         /\ \A n \in Names :
              /\ Uncounted(t, n) => handle[t][n].blk = block
              /\ handle[t][n].kind = "control" => refs[handle[t][n].blk] = 1

CountsInv == HandleInv /\ CountInv

FullInv == IInv /\ ExactInv /\ CountsInv /\ QuietInv

\* The counts and the places hold before the first call.
LEMMA FullInit == Init => ExactInv /\ CountsInv /\ QuietInv
<1>. SUFFICES ASSUME Init PROVE ExactInv /\ CountsInv /\ QuietInv
  OBVIOUS
<1>1. /\ \A t \in Threads, n \in Names : handle[t][n] = None
      /\ \A t \in Threads : pc[t] = "run" /\ temp[t] = NoBlock
  BY DEF Init
<1>2. ExactInv
  BY DEF Init, ExactInv, LockModes
<1>3. HandleInv
  BY <1>1, DispenserAssumption
     DEF Init, HandleInv, None, LockModes, Uncounted
<1>4. CountInv
  <2>. SUFFICES ASSUME NEW b \in Blocks
                PROVE  /\ IsFiniteSet(TempOf(b)) /\ IsFiniteSet(HandlesOf(b))
                       /\ refs[b] = Cardinality(TempOf(b)) + Published(b)
                                      + Cardinality(HandlesOf(b))
    BY DEF CountInv
  <2>1. TempOf(b) = {}
    BY <1>1, DispenserAssumption DEF TempOf
  <2>2. HandlesOf(b) = {}
    BY <1>1 DEF HandlesOf, None
  <2>3. refs[b] = Published(b) /\ Published(b) \in Nat
    BY DEF Init, Published
  <2>. QED
    BY <2>1, <2>2, <2>3, FS_EmptySet
<1>5. QuietInv
  BY <1>1 DEF QuietInv, Uncounted, None
<1>. QED
  BY <1>2, <1>3, <1>4, <1>5 DEF CountsInv

-----------------------------------------------------------------------------
(* How the owners of a block change. *)

One(p) == IF p THEN 1 ELSE 0

\* How one element in or out changes the size of a set.
LEMMA PutElement ==
  ASSUME NEW S, IsFiniteSet(S), NEW x, NEW in \in BOOLEAN, NEW T,
         T = (S \ {x}) \cup (IF in THEN {x} ELSE {})
  PROVE  /\ IsFiniteSet(T)
         /\ Cardinality(S) \in Nat /\ Cardinality(T) \in Nat
         /\ Cardinality(T) = Cardinality(S) - One(x \in S) + One(in)
<1>1. /\ IsFiniteSet(S \ {x})
      /\ Cardinality(S \ {x}) = Cardinality(S) - One(x \in S)
      /\ Cardinality(S) \in Nat /\ Cardinality(S \ {x}) \in Nat
  BY FS_RemoveElement, FS_CardinalityType DEF One
<1>2. CASE in
  <2>1. T = (S \ {x}) \cup {x}
    BY <1>2
  <2>. DEFINE R == S \ {x}
  <2>3. x \notin R /\ T = R \cup {x} /\ IsFiniteSet(R)
    BY <1>1, <2>1
  <2>. HIDE DEF R
  <2>4. IsFiniteSet(T) /\ Cardinality(T) = Cardinality(R) + 1
    BY <2>3, FS_AddElement
  <2>2. IsFiniteSet(T) /\ Cardinality(T) = Cardinality(S \ {x}) + 1
    BY <2>4 DEF R
  <2>. QED
    BY <1>1, <1>2, <2>2 DEF One
<1>3. CASE ~ in
  <2>1. T = S \ {x}
    BY <1>3
  <2>. QED
    BY <1>1, <1>3, <2>1 DEF One
<1>. QED
  BY <1>2, <1>3

\* A handle put where another was changes the handles of a block by one at
\* most.
LEMMA HandlesCount ==
  ASSUME ShapeInv, CountInv, ~ raced, NEW t \in Threads, NEW n \in Names,
         NEW h \in AllHandles, Put(t, n, h), NEW b \in Blocks
  PROVE  /\ IsFiniteSet(HandlesOf(b)')
         /\ Cardinality(HandlesOf(b)) \in Nat
         /\ Cardinality(HandlesOf(b)') \in Nat
         /\ Cardinality(HandlesOf(b)') =
              Cardinality(HandlesOf(b))
                - One(handle[t][n].holds /\ handle[t][n].blk = b)
                + One(h.holds /\ h.blk = b)
<1>. DEFINE in == h.holds /\ h.blk = b
<1>1. in \in BOOLEAN
  OBVIOUS
<1>2. HandlesOf(b)' = (HandlesOf(b) \ {<<t, n>>}) \cup
                        (IF in THEN {<<t, n>>} ELSE {})
  BY PutShape DEF HandlesOf
<1>3. <<t, n>> \in HandlesOf(b) <=>
        handle[t][n].holds /\ handle[t][n].blk = b
  BY DEF HandlesOf
<1>4. IsFiniteSet(HandlesOf(b))
  BY DEF CountInv
<1>5. One(<<t, n>> \in HandlesOf(b))
        = One(handle[t][n].holds /\ handle[t][n].blk = b)
  BY <1>3 DEF One
<1>. HIDE DEF in
<1>6. /\ IsFiniteSet(HandlesOf(b)')
      /\ Cardinality(HandlesOf(b)) \in Nat
      /\ Cardinality(HandlesOf(b)') \in Nat
      /\ Cardinality(HandlesOf(b)') =
           Cardinality(HandlesOf(b)) - One(<<t, n>> \in HandlesOf(b)) + One(in)
  BY <1>1, <1>2, <1>4, PutElement
<1>. QED
  BY <1>5, <1>6 DEF in

PutTemp(t, c) == temp' = [temp EXCEPT ![t] = c]

\* So does a thread whose temporary owns another block.
LEMMA TempCount ==
  ASSUME ShapeInv, CountInv, ~ raced, NEW t \in Threads, NEW c,
         PutTemp(t, c), NEW b \in Blocks
  PROVE  /\ IsFiniteSet(TempOf(b)')
         /\ Cardinality(TempOf(b)) \in Nat
         /\ Cardinality(TempOf(b)') \in Nat
         /\ Cardinality(TempOf(b)') =
              Cardinality(TempOf(b)) - One(temp[t] = b) + One(c = b)
<1>. DEFINE in == c = b
<1>1. in \in BOOLEAN
  OBVIOUS
<1>2. TempOf(b)' = (TempOf(b) \ {t}) \cup (IF in THEN {t} ELSE {})
  BY DEF TempOf, ShapeInv, PutTemp
<1>3. One(t \in TempOf(b)) = One(temp[t] = b)
  BY DEF TempOf, One
<1>4. IsFiniteSet(TempOf(b))
  BY DEF CountInv
<1>. HIDE DEF in
<1>5. /\ IsFiniteSet(TempOf(b)')
      /\ Cardinality(TempOf(b)) \in Nat
      /\ Cardinality(TempOf(b)') \in Nat
      /\ Cardinality(TempOf(b)') =
           Cardinality(TempOf(b)) - One(t \in TempOf(b)) + One(in)
  BY <1>1, <1>2, <1>4, PutElement
<1>. QED
  BY <1>3, <1>5 DEF in

\* Who does not put a handle leaves the handles that own a block alone.
LEMMA SameHandles ==
  ASSUME UNCHANGED handle, NEW b PROVE HandlesOf(b)' = HandlesOf(b)
BY DEF HandlesOf
\* The temporaries that own a block depend on `temp' only.
LEMMA SameTemp ==
  ASSUME UNCHANGED temp, NEW b PROVE TempOf(b)' = TempOf(b)
BY DEF TempOf

\* In Lock and Trylock no handle has a block.
LEMMA LockCounts ==
  ASSUME HandleInv, CountInv, HandleInv', mode \in LockModes,
         UNCHANGED <<mode, block, refs, temp, raced>>
  PROVE  CountInv'
<1>. SUFFICES ASSUME ~ raced, NEW b \in Blocks
              PROVE  (/\ IsFiniteSet(TempOf(b)) /\ IsFiniteSet(HandlesOf(b))
                      /\ refs[b] = Cardinality(TempOf(b)) + Published(b)
                                     + Cardinality(HandlesOf(b)))'
  BY DEF CountInv
<1>1. TempOf(b)' = TempOf(b) /\ Published(b)' = Published(b)
  BY SameTemp DEF Published
<1>2. HandlesOf(b) = {} /\ HandlesOf(b)' = {}
  BY DispenserAssumption DEF HandlesOf, HandleInv
<1>. QED
  BY <1>1, <1>2 DEF CountInv

-----------------------------------------------------------------------------
(* Lock and Trylock keep what they lock exact, and count nothing.            *)

\* A write turns the content of its own object over, and of no other.
LEMMA WriteContent ==
  ASSUME HandleInv, NEW t \in Threads, NEW n \in Names, Write(t, n)
  PROVE  /\ content' \in [Blocks -> {0, 1}]
         /\ \A b \in Blocks :
              b # Object(handle[t][n]) => content'[b] = content[b]
<1>. DEFINE o == Object(handle[t][n])
<1>1. content' = [content EXCEPT ![o] = 1 - content[o]]
  BY DEF Write
<1>. HIDE DEF o
<1>2. content \in [Blocks -> {0, 1}]
  BY DEF HandleInv
<1>3. \A b \in Blocks : content'[b] = IF b = o THEN 1 - content[b] ELSE content[b]
  BY <1>1, <1>2
<1>4. \A b \in Blocks : content'[b] \in {0, 1}
  BY <1>2, <1>3
<1>5. content' \in [Blocks -> {0, 1}]
  BY <1>1, <1>2, <1>4
<1>. QED
  BY <1>3, <1>5 DEF o

\* In the modes with a lock no step disturbs places and counts of blocks.
LEMMA LockStep ==
  ASSUME IInv, IInv', ExactInv, CountsInv, mode \in LockModes,
         NEW t \in Threads, Step(t)
  PROVE  ExactInv' /\ CountsInv'
<1>. USE DEF IInv, CountsInv
<1>1. mode # "Drop" /\ \A u \in Threads : pc[u] = "run"
  BY DEF LockModes, MutexInv
<1>2. ASSUME NEW n \in Names, NEW h \in AllHandles, Put(t, n, h),
             h.kind = "none" => h = None, h.kind = "control" => h.holds,
             h.blk = NoBlock, UNCHANGED <<mode, heap, store>>
      PROVE  CountsInv'
  <2>1. HandleInv'
    <3>1. \A u \in Threads, m \in Names :
            handle'[u][m] = IF u = t /\ m = n THEN h ELSE handle[u][m]
      BY <1>2, PutShape
    <3>2. \A u \in Threads, m \in Names :
            /\ handle'[u][m].kind = "none" => handle'[u][m] = None
            /\ handle'[u][m].kind = "control" => handle'[u][m].holds
            /\ handle'[u][m].blk = NoBlock
      BY <1>2, <3>1 DEF HandleInv
    <3>. QED
      BY <1>1, <1>2, <3>2 DEF HandleInv, heap, store
  <2>. QED
    BY <1>2, <2>1, LockCounts DEF heap, store
<1>3. ASSUME NEW n \in Names, WatchLock(t, n) PROVE ExactInv' /\ CountsInv'
  <2>. DEFINE h == Handle("watch", TRUE, NoBlock)
  <2>1. /\ h \in AllHandles /\ Put(t, n, h)
        /\ h.kind = "watch" /\ h.holds /\ h.blk = NoBlock
    BY <1>3, HandleType DEF WatchLock, Handle
  <2>. HIDE DEF h
  <2>2. CountsInv'
    BY <1>2, <1>3, <2>1 DEF WatchLock
  <2>3. /\ handle'[t][n] = h
        /\ \A u \in Threads, m \in Names :
             u # t \/ m # n => handle'[u][m] = handle[u][m]
    BY <2>1, PutShape
  <2>4. ExactInv'
    BY <1>3, <2>1, <2>3 DEF WatchLock, ExactInv, Fresh, None, MayWrite, Watching, Owns,
       LockModes
  <2>. QED
    BY <2>2, <2>4
<1>4. ASSUME NEW n \in Names, WatchTrylock(t, n) PROVE ExactInv' /\ CountsInv'
  <2>1. PICK h \in AllHandles :
          /\ Put(t, n, h) /\ h.kind = "watch" /\ h.blk = NoBlock
          /\ IF h.holds THEN readers' = readers \cup {t} ELSE UNCHANGED readers
    <3>. DEFINE got == Handle("watch", TRUE, NoBlock)
                not == Handle("watch", FALSE, NoBlock)
    <3>1. /\ got \in AllHandles /\ got.kind = "watch" /\ got.holds
          /\ got.blk = NoBlock
          /\ not \in AllHandles /\ not.kind = "watch" /\ ~ not.holds
          /\ not.blk = NoBlock
      BY HandleType DEF Handle
    <3>2. \/ readers' = readers \cup {t} /\ Put(t, n, got)
          \/ UNCHANGED readers /\ Put(t, n, not)
      BY <1>4 DEF WatchTrylock
    <3>. HIDE DEF got, not
    <3>. QED  BY <3>1, <3>2
  <2>2. CountsInv'
    BY <1>2, <1>4, <2>1 DEF WatchTrylock
  <2>3. /\ handle'[t][n] = h
        /\ \A u \in Threads, m \in Names :
             u # t \/ m # n => handle'[u][m] = handle[u][m]
    BY <2>1, PutShape
  <2>4. ExactInv'
    BY <1>4, <2>1, <2>3 DEF WatchTrylock, ExactInv, Fresh, None, MayWrite, Watching, Owns,
       LockModes
  <2>. QED
    BY <2>2, <2>4
<1>5. ASSUME NEW n \in Names, ControlLock(t, n) PROVE ExactInv' /\ CountsInv'
  <2>. DEFINE h == Handle("control", TRUE, NoBlock)
  <2>1. /\ h \in AllHandles /\ Put(t, n, h)
        /\ h.kind = "control" /\ h.holds /\ h.blk = NoBlock
    BY <1>5, HandleType DEF ControlLock, Handle
  <2>. HIDE DEF h
  <2>2. CountsInv'
    BY <1>2, <1>5, <2>1 DEF ControlLock
  <2>3. /\ handle'[t][n] = h
        /\ \A u \in Threads, m \in Names :
             u # t \/ m # n => handle'[u][m] = handle[u][m]
    BY <2>1, PutShape
  <2>4. ExactInv'
    BY <1>5, <2>1, <2>3 DEF ControlLock, ExactInv, Fresh, None, MayWrite, Watching, Owns,
       LockModes
  <2>. QED
    BY <2>2, <2>4
<1>6. ASSUME NEW n \in Names, Put(t, n, None) PROVE
        /\ None \in AllHandles /\ None.kind = "none" /\ None.blk = NoBlock
        /\ handle'[t][n] = None
        /\ \A u \in Threads, m \in Names :
             u # t \/ m # n => handle'[u][m] = handle[u][m]
  <2>1. None \in AllHandles /\ None.kind = "none" /\ None.blk = NoBlock
    BY NoneType DEF None
  <2>. QED
    BY <1>6, <2>1, PutShape
<1>7. ASSUME NEW n \in Names, ReleaseWatch(t, n) PROVE ExactInv' /\ CountsInv'
  <2>1. Put(t, n, None) /\ UNCHANGED <<mode, writer, forgot, heap, store>>
    BY <1>7 DEF ReleaseWatch
  <2>2. CountsInv'
    BY <1>2, <1>6, <2>1
  <2>3. ExactInv'
    BY <1>6, <1>7, <2>1 DEF ReleaseWatch, ExactInv, MayWrite, MutexInv,
       Holding, Watching
  <2>. QED
    BY <2>2, <2>3
<1>8. ASSUME NEW n \in Names, ReleaseControl(t, n) PROVE ExactInv' /\ CountsInv'
  <2>1. Put(t, n, None) /\ UNCHANGED <<mode, readers, forgot, heap, store>>
    BY <1>8 DEF ReleaseControl
  <2>2. CountsInv'
    BY <1>2, <1>6, <2>1
  <2>3. ExactInv'
    BY <1>6, <1>8, <2>1 DEF ReleaseControl, ExactInv, MayWrite, MutexInv,
       Holding, Watching
  <2>. QED
    BY <2>2, <2>3
<1>9. ASSUME NEW m \in Names, NEW n \in Names, Move(t, m, n)
      PROVE  ExactInv' /\ CountsInv'
  <2>. DEFINE h == Moved(handle[t][m])
  <2>1. /\ m # n /\ UNCHANGED <<mode, readers, writer, heap, store>>
        /\ handle'[t][n] = h /\ handle'[t][m] = None
        /\ handle[t][n] = None
        /\ \A u \in Threads, k \in Names :
             u # t \/ (k # m /\ k # n) => handle'[u][k] = handle[u][k]
        /\ forgot' = IF handle[t][m].holds /\ ~ h.holds
                       THEN forgot \cup {t} ELSE forgot
    BY <1>9 DEF Move, ShapeInv, None
  <2>2. /\ h.kind = handle[t][m].kind /\ h.blk = NoBlock
        /\ handle[t][m].kind # "none"
        /\ \/ h = handle[t][m]
           \/ h.kind = "watch" /\ ~ h.holds /\ mode = "Trylock"
    BY <1>9 DEF Move, Moved, Handle, HandleInv
  <2>. HIDE DEF h
  <2>3. HandleInv'
    BY <1>1, <2>1, <2>2 DEF HandleInv, heap, store, LockModes, None
  <2>4. CountsInv'
    BY <2>1, <2>3, LockCounts DEF heap, store
  <2>5. ASSUME NEW u \in Threads, NEW k \in Names, Watching(u, k)
        PROVE  (\E l \in Names : Watching(u, l)') \/ u \in forgot'
    <3>1. CASE u = t /\ k = m
      BY <2>1, <2>2, <2>5, <3>1 DEF Watching
    <3>2. CASE ~ (u = t /\ k = m)
      BY <2>1, <2>5, <3>2 DEF Watching, None
    <3>. QED  BY <3>1, <3>2
  <2>6. ASSUME NEW u \in writer PROVE \E l \in Names : handle'[u][l].kind = "control"
    <3>1. u \in Threads
      BY DEF ExactInv
    <3>2. PICK k \in Names : handle[u][k].kind = "control"
      BY DEF ExactInv, MayWrite
    <3>. QED
      BY <2>1, <2>2, <3>1, <3>2 DEF None
  <2>7. ASSUME NEW u \in forgot', NEW k \in Names, u \in Threads
        PROVE  ~ Watching(u, k)'
    <3>1. CASE u \in forgot
      BY <2>1, <2>2, <3>1 DEF Watching, ExactInv, None
    <3>2. CASE u \notin forgot
      <4>1. u = t /\ handle[t][m].holds /\ ~ h.holds
        BY <2>1, <3>2
      <4>2. Watching(t, m)
        BY <2>2, <4>1 DEF Watching
      <4>3. \A l \in Names : Watching(t, l) => l = m
        BY <4>2 DEF Watching, MutexInv, Holding
      <4>. QED
        BY <2>1, <4>1, <4>3 DEF Watching, None
    <3>. QED  BY <3>1, <3>2
  <2>8. forgot' \subseteq readers
    BY <2>1, <2>2 DEF ExactInv, MutexInv
  <2>9. mode # "Trylock" => forgot' = {}
    BY <2>1, <2>2 DEF ExactInv
  <2>10. ExactInv'
    <3>1. readers' \subseteq Threads /\ writer' \subseteq Threads
      BY <2>1 DEF ExactInv
    <3>2. \A u \in forgot', k \in Names : ~ Watching(u, k)'
      BY <2>1, <2>7, <2>8, <3>1
    <3>3. ASSUME NEW u \in readers \ forgot' PROVE \E l \in Names : Watching(u, l)'
      <4>1. u \in Threads /\ u \notin forgot
        BY <2>1, <3>1
      <4>2. PICK k \in Names : Watching(u, k)
        BY <4>1 DEF ExactInv
      <4>. QED
        BY <2>5, <4>1, <4>2
    <3>. QED
      BY <2>1, <2>6, <2>8, <2>9, <3>1, <3>2, <3>3 DEF ExactInv, MayWrite
  <2>. QED
    BY <2>4, <2>10
<1>10. ASSUME NEW n \in Names, Write(t, n) PROVE ExactInv' /\ CountsInv'
  <2>1. content' \in [Blocks -> {0, 1}]
    BY <1>10, WriteContent
  <2>2. HandleInv'
    BY <1>1, <1>10, <2>1 DEF Write, HandleInv, LockModes, store
  <2>3. CountsInv'
    BY <1>10, <2>2, LockCounts DEF Write, store
  <2>4. ExactInv'
    BY <1>10 DEF Write, ExactInv, MayWrite, Watching, shared
  <2>. QED
    BY <2>3, <2>4
<1>. QED
  BY <1>1, <1>3, <1>4, <1>5, <1>7, <1>8, <1>9, <1>10
     DEF Step, ControlDrop, WatchLoad, WatchCount, Reset, Publish, Store, LetGo

-----------------------------------------------------------------------------
(* Drop counts every owner.                                                  *)

\* A count is what there is to count.
LEMMA CountType ==
  ASSUME CountInv, ~ raced, NEW b \in Blocks
  PROVE  /\ Cardinality(TempOf(b)) \in Nat /\ Cardinality(HandlesOf(b)) \in Nat
         /\ Published(b) \in {0, 1}
         /\ refs[b] = Cardinality(TempOf(b)) + Published(b)
                        + Cardinality(HandlesOf(b))
BY FS_CardinalityType DEF CountInv, Published

\* Where a count is one, its owner is the only one.
LEMMA Sole ==
  ASSUME IInv, CountsInv, ~ raced, mode = "Drop",
         NEW u \in Threads, NEW m \in Names,
         handle[u][m].kind = "control", refs[handle[u][m].blk] = 1
  PROVE  /\ handle[u][m].blk # block
         /\ \A v \in Threads : temp[v] # handle[u][m].blk
         /\ \A v \in Threads, k \in Names :
              handle[v][k].holds /\ handle[v][k].blk = handle[u][m].blk
                => v = u /\ k = m
<1>. DEFINE b == handle[u][m].blk
<1>1. b \in Blocks /\ handle[u][m].holds
  BY DEF IInv, ShapeInv, AllHandles, CountsInv, HandleInv
<1>. HIDE DEF b
<1>2. <<u, m>> \in HandlesOf(b) /\ IsFiniteSet(HandlesOf(b))
  BY <1>1 DEF b, HandlesOf, CountsInv, CountInv
<1>3. Cardinality(HandlesOf(b)) # 0
  BY <1>2, FS_EmptySet
<1>4. /\ Cardinality(HandlesOf(b)) = 1
      /\ Cardinality(TempOf(b)) = 0 /\ Published(b) = 0
  BY <1>1, <1>3, CountType DEF b, CountsInv
<1>5. PICK x : HandlesOf(b) = {x}
  BY <1>2, <1>4, FS_Singleton
<1>6. TempOf(b) = {}
  BY <1>1, <1>4, FS_EmptySet DEF CountsInv, CountInv
<1>7. block # b
  BY <1>4 DEF Published
<1>8. ASSUME NEW v \in Threads, NEW k \in Names, handle[v][k].holds,
             handle[v][k].blk = b
      PROVE  v = u /\ k = m
  <2>1. <<v, k>> \in HandlesOf(b)
    BY <1>8 DEF HandlesOf
  <2>. QED
    BY <1>2, <1>5, <2>1
<1>. QED
  BY <1>6, <1>7, <1>8 DEF b, TempOf

\* What the parts of the invariant say of a Drop dispenser.
LEMMA DropFacts ==
  ASSUME IInv, CountsInv, mode = "Drop", NEW t \in Threads, NEW n \in Names
  PROVE  /\ handle[t][n] \in AllHandles
         /\ handle[t][n].kind \in {"none", "watch", "control"}
         /\ handle[t][n].holds \in BOOLEAN
         /\ handle[t][n].blk \in Blocks \cup {NoBlock}
         /\ handle[t][n].kind = "none" => handle[t][n] = None
         /\ handle[t][n].kind = "control" =>
              handle[t][n].holds /\ handle[t][n].blk \in Blocks
         /\ handle[t][n].kind # "none" /\ Running(t) => handle[t][n].holds
         /\ Running(t) => temp[t] = NoBlock /\ ~ Uncounted(t, n)
<1>1. handle[t][n] \in AllHandles
  BY DEF IInv, ShapeInv
<1>2. /\ handle[t][n].kind \in {"none", "watch", "control"}
      /\ handle[t][n].holds \in BOOLEAN
      /\ handle[t][n].blk \in Blocks \cup {NoBlock}
  BY <1>1 DEF AllHandles
<1>. QED
  BY <1>1, <1>2 DEF CountsInv, HandleInv, Uncounted, Running

\* Put changes one handle.
LEMMA PutAt ==
  ASSUME IInv, NEW t \in Threads, NEW n \in Names, NEW h \in AllHandles,
         Put(t, n, h)
  PROVE  \A u \in Threads, m \in Names :
           handle'[u][m] = IF u = t /\ m = n THEN h ELSE handle[u][m]
BY PutShape DEF IInv

\* A control makes a block of its own.
LEMMA ControlDropStep ==
  ASSUME IInv, CountsInv, QuietInv, NEW t \in Threads, NEW n \in Names,
         ControlDrop(t, n)
  PROVE  CountsInv' /\ QuietInv'
<1>. USE DEF CountsInv
<1>0. ~ raced' => ~ raced
  BY DEF ControlDrop, store
<1>1. PICK b \in Blocks : /\ refs[b] = 0
                          /\ refs' = [refs EXCEPT ![b] = 1]
                          /\ content' = [content EXCEPT ![b] = 0]
                          /\ Put(t, n, Handle("control", TRUE, b))
  BY DEF ControlDrop
<1>. DEFINE h == Handle("control", TRUE, b)
<1>2. /\ h \in AllHandles /\ h.kind = "control" /\ h.holds /\ h.blk = b
      /\ Put(t, n, h)
  BY <1>1, HandleType DEF Handle
<1>. HIDE DEF h
<1>3. /\ mode = "Drop" /\ mode' = "Drop" /\ Running(t)
      /\ handle[t][n] = None /\ ~ None.holds
      /\ UNCHANGED <<block, pc, temp, seen>>
  BY DEF ControlDrop, Fresh, None, store
<1>4. \A u \in Threads, m \in Names :
        handle'[u][m] = IF u = t /\ m = n THEN h ELSE handle[u][m]
  BY <1>2, PutAt
<1>5. HandleInv'
  BY <1>1, <1>2, <1>3, <1>4, DispenserAssumption
     DEF HandleInv, Uncounted, LockModes
<1>6. ASSUME ~ raced, NEW c \in Blocks
      PROVE  (/\ IsFiniteSet(TempOf(c)) /\ IsFiniteSet(HandlesOf(c))
              /\ refs[c] = Cardinality(TempOf(c)) + Published(c)
                             + Cardinality(HandlesOf(c)))'
  <2>1. TempOf(c)' = TempOf(c) /\ Published(c)' = Published(c)
    BY <1>3, SameTemp DEF Published
  <2>2. /\ IsFiniteSet(HandlesOf(c)')
        /\ Cardinality(HandlesOf(c)') = Cardinality(HandlesOf(c)) - 0 + One(b = c)
    BY <1>6, <1>2, <1>3, HandlesCount DEF IInv, One
  <2>3. refs'[c] = IF c = b THEN 1 ELSE refs[c]
    BY <1>1 DEF HandleInv
  <2>. QED
    BY <1>6, <1>1, <2>1, <2>2, <2>3, CountType DEF One, CountInv
<1>7. QuietInv'
  <2>. SUFFICES ASSUME ~ raced PROVE QuietInv'
    BY <1>0 DEF QuietInv
  <2>1. \A u \in Threads, m \in Names :
          /\ Uncounted(u, m)' => Uncounted(u, m) /\ handle'[u][m] = handle[u][m]
          /\ handle'[u][m].kind = "control" => refs'[handle'[u][m].blk] = 1
    BY <1>1, <1>2, <1>3, <1>4, DropFacts DEF QuietInv, Uncounted, HandleInv
  <2>. QED
    BY <1>3, <2>1 DEF QuietInv
<1>. QED
  BY <1>0, <1>5, <1>6, <1>7 DEF CountInv

\* A watch loads the published pointer, and has not counted its use yet.
LEMMA WatchLoadStep ==
  ASSUME IInv, CountsInv, QuietInv, NEW t \in Threads, NEW n \in Names,
         WatchLoad(t, n)
  PROVE  CountsInv' /\ QuietInv'
<1>. USE DEF CountsInv
<1>0. ~ raced' => ~ raced
  BY DEF WatchLoad
<1>. DEFINE h == Handle("watch", block = NoBlock, block)
<1>1. /\ h \in AllHandles /\ h.kind = "watch" /\ (h.holds <=> block = NoBlock)
      /\ h.blk = block /\ Put(t, n, h)
  BY HandleType DEF WatchLoad, Handle, IInv, ShapeInv
<1>. HIDE DEF h
<1>2. /\ mode = "Drop" /\ mode' = "Drop" /\ Running(t)
      /\ handle[t][n] = None /\ ~ None.holds
      /\ UNCHANGED <<block, refs, content, temp, seen>>
      /\ pc' = [pc EXCEPT ![t] = IF block = NoBlock THEN "run" ELSE "count"]
  BY DEF WatchLoad, Fresh, None, heap
<1>3. \A u \in Threads, m \in Names :
        handle'[u][m] = IF u = t /\ m = n THEN h ELSE handle[u][m]
  BY <1>1, PutAt
<1>4. \A u \in Threads : pc'[u] = IF u = t THEN (IF block = NoBlock THEN "run" ELSE "count")
                                  ELSE pc[u]
  BY <1>2 DEF IInv, ShapeInv
<1>5. HandleInv'
  BY <1>1, <1>2, <1>3, <1>4, DropFacts DEF HandleInv, Uncounted, LockModes
<1>6. ASSUME ~ raced, NEW c \in Blocks
      PROVE  (/\ IsFiniteSet(TempOf(c)) /\ IsFiniteSet(HandlesOf(c))
              /\ refs[c] = Cardinality(TempOf(c)) + Published(c)
                             + Cardinality(HandlesOf(c)))'
  <2>1. TempOf(c)' = TempOf(c) /\ Published(c)' = Published(c)
    BY <1>2, SameTemp DEF Published
  <2>2. ~ (h.holds /\ h.blk = c)
    BY <1>1, DispenserAssumption
  <2>3. /\ IsFiniteSet(HandlesOf(c)')
        /\ Cardinality(HandlesOf(c)') = Cardinality(HandlesOf(c)) - 0 + 0
    BY <1>6, <1>1, <1>2, <2>2, HandlesCount DEF IInv, One
  <2>. QED
    BY <1>6, <1>2, <2>1, <2>3, CountType DEF CountInv
<1>7. QuietInv'
  <2>. SUFFICES ASSUME ~ raced PROVE QuietInv'
    BY <1>0 DEF QuietInv
  <2>1. \A u \in Threads : pc[u] = "store" => raced'
    BY <1>2 DEF WatchLoad, Storing, Running
  <2>3. \A u \in Threads, m \in Names :
         Uncounted(u, m)' => handle'[u][m].blk = block
    BY <1>1, <1>2, <1>3 DEF QuietInv, Uncounted
  <2>4. \A u \in Threads, m \in Names :
          handle'[u][m].kind = "control" => refs[handle'[u][m].blk] = 1
    BY <1>1, <1>2, <1>3 DEF QuietInv
  <2>. QED
    BY <1>2, <1>4, <2>1, <2>3, <2>4 DEF QuietInv
<1>. QED
  BY <1>0, <1>5, <1>6, <1>7 DEF CountInv

\* The count a watch was missing: the thread has no other such watch.
LEMMA WatchCountStep ==
  ASSUME IInv, CountsInv, QuietInv, NEW t \in Threads, NEW n \in Names,
         WatchCount(t, n)
  PROVE  CountsInv' /\ QuietInv'
<1>. USE DEF CountsInv
<1>0. ~ raced' => ~ raced
  BY DEF WatchCount
<1>. DEFINE b == handle[t][n].blk
            h == [handle[t][n] EXCEPT !.holds = TRUE]
<1>1. mode = "Drop" /\ mode' = "Drop"
  BY DispenserAssumption DEF WatchCount, IInv, MutexInv, ShapeInv, LockModes
<1>2. /\ handle[t][n] \in AllHandles /\ Uncounted(t, n) /\ b \in Blocks
      /\ pc[t] = "count" /\ pc' = [pc EXCEPT ![t] = "run"]
      /\ refs' = [refs EXCEPT ![b] = @ + 1]
      /\ UNCHANGED <<block, content, temp, seen>>
  BY <1>1, DropFacts DEF WatchCount, Uncounted
<1>3. /\ h \in AllHandles /\ h.kind = "watch" /\ h.holds /\ h.blk = b
  BY <1>2 DEF AllHandles, Uncounted
<1>4. Put(t, n, h)
  BY DEF WatchCount, Put, IInv, ShapeInv
<1>. HIDE DEF h, b
<1>5. \A u \in Threads, m \in Names :
        handle'[u][m] = IF u = t /\ m = n THEN h ELSE handle[u][m]
  BY <1>3, <1>4, PutAt
<1>6. \A u \in Threads : pc'[u] = IF u = t THEN "run" ELSE pc[u]
  BY <1>2 DEF IInv, ShapeInv
<1>7. \A c \in Blocks : refs'[c] = IF c = b THEN refs[c] + 1 ELSE refs[c]
  BY <1>2 DEF HandleInv
<1>8. HandleInv'
  <2>1. refs' \in [Blocks -> Int]
    BY <1>2 DEF HandleInv
  <2>2. \A m \in Names : m # n => ~ Uncounted(t, m)
    BY <1>1, <1>2 DEF HandleInv
  <2>. QED
    BY <1>1, <1>2, <1>3, <1>5, <1>6, <2>1, <2>2, DispenserAssumption
       DEF HandleInv, Uncounted, LockModes
<1>9. ASSUME ~ raced, NEW c \in Blocks
      PROVE  (/\ IsFiniteSet(TempOf(c)) /\ IsFiniteSet(HandlesOf(c))
              /\ refs[c] = Cardinality(TempOf(c)) + Published(c)
                             + Cardinality(HandlesOf(c)))'
  <2>1. TempOf(c)' = TempOf(c) /\ Published(c)' = Published(c)
    BY <1>2, SameTemp DEF Published
  <2>2. ~ handle[t][n].holds
    BY <1>2 DEF Uncounted
  <2>3. /\ IsFiniteSet(HandlesOf(c)')
        /\ Cardinality(HandlesOf(c)') = Cardinality(HandlesOf(c)) - 0 + One(b = c)
    BY <1>9, <1>3, <1>4, <2>2, HandlesCount DEF IInv, One
  <2>. QED
    BY <1>9, <1>7, <2>1, <2>3, CountType DEF One, CountInv
<1>10. QuietInv'
  <2>. SUFFICES ASSUME ~ raced PROVE QuietInv'
    BY <1>0 DEF QuietInv
  <2>1. \A u \in Threads : pc'[u] \in {"count", "store"} => pc'[u] = pc[u]
    BY <1>6
  <2>2. \A u \in Threads, m \in Names :
         Uncounted(u, m)' => handle'[u][m].blk = block
    BY <1>1, <1>3, <1>5 DEF QuietInv, Uncounted
  <2>3. ASSUME NEW u \in Threads, NEW m \in Names,
              handle'[u][m].kind = "control"
        PROVE  refs'[handle'[u][m].blk] = 1
    <3>1. handle'[u][m] = handle[u][m] /\ handle[u][m].kind = "control"
      BY <1>3, <1>5, <2>3
    <3>2. refs[handle[u][m].blk] = 1 /\ b = block
      BY <1>1, <1>2, <3>1 DEF QuietInv, b
    <3>3. handle[u][m].blk # b /\ handle[u][m].blk \in Blocks
      BY <1>1, <3>1, <3>2, Sole, DropFacts
    <3>. QED
      BY <1>7, <3>1, <3>2, <3>3
  <2>. QED
    BY <1>1, <1>2, <2>1, <2>2, <2>3 DEF QuietInv
<1>. QED
  BY <1>0, <1>8, <1>9, <1>10 DEF CountInv

\* A handle that is released gives its use back.
LEMMA ResetStep ==
  ASSUME IInv, CountsInv, QuietInv, NEW t \in Threads, NEW n \in Names,
         Reset(t, n)
  PROVE  CountsInv' /\ QuietInv'
<1>. USE DEF CountsInv
<1>0. ~ raced' => ~ raced
  BY DEF Reset, store
<1>. DEFINE b == handle[t][n].blk
<1>1. /\ mode = "Drop" /\ mode' = "Drop" /\ Running(t) /\ Uncount(b)
      /\ handle[t][n].kind # "none"
      /\ Put(t, n, None) /\ None \in AllHandles
      /\ UNCHANGED <<block, content, pc, temp, seen>>
  BY NoneType DEF Reset, store
<1>2. /\ handle[t][n].holds /\ b \in Blocks \cup {NoBlock}
  BY <1>1, DropFacts
<1>. HIDE DEF b
<1>3. \A u \in Threads, m \in Names :
        handle'[u][m] = IF u = t /\ m = n THEN None ELSE handle[u][m]
  BY <1>1, PutAt
<1>4. \A c \in Blocks : refs'[c] = IF c = b THEN refs[c] - 1 ELSE refs[c]
  BY <1>1, DispenserAssumption DEF Uncount, HandleInv
<1>5. ASSUME ~ raced, NEW c \in Blocks
      PROVE  (/\ IsFiniteSet(TempOf(c)) /\ IsFiniteSet(HandlesOf(c))
              /\ refs[c] = Cardinality(TempOf(c)) + Published(c)
                             + Cardinality(HandlesOf(c)))'
  <2>1. TempOf(c)' = TempOf(c) /\ Published(c)' = Published(c)
    BY <1>1, SameTemp DEF Published
  <2>2. handle[t][n].holds /\ handle[t][n].blk = b /\ ~ None.holds
    BY <1>2 DEF b, None
  <2>3. /\ IsFiniteSet(HandlesOf(c)')
        /\ Cardinality(HandlesOf(c)') \in Nat
        /\ Cardinality(HandlesOf(c)') = Cardinality(HandlesOf(c)) - One(b = c) + 0
    BY <1>5, <1>1, <2>2, HandlesCount DEF IInv, One
  <2>4. refs[c] = Cardinality(TempOf(c)) + Published(c) + Cardinality(HandlesOf(c))
        /\ Cardinality(TempOf(c)) \in Nat /\ Published(c) \in Nat
    BY <1>5, CountType
  <2>5. refs'[c] = Cardinality(TempOf(c)) + Published(c)
                     + Cardinality(HandlesOf(c)')
    BY <1>5, <1>4, <2>3, <2>4, CountType DEF One
  <2>. QED
    BY <1>5, <2>1, <2>3, <2>4, <2>5 DEF CountInv
<1>6. HandleInv'
  <2>1. refs' \in [Blocks -> Int]
    <3>1. refs' = [c \in Blocks |-> refs'[c]]
      BY <1>1 DEF Uncount, HandleInv
    <3>2. \A c \in Blocks : refs'[c] \in Int
      BY <1>4 DEF HandleInv
    <3>. QED
      BY <3>1, <3>2
  <2>2. None.kind = "none"
    BY DEF None
  <2>. QED
    BY <1>1, <1>3, <2>1, <2>2 DEF HandleInv, Uncounted, LockModes
<1>7. QuietInv'
  <2>. SUFFICES ASSUME ~ raced PROVE QuietInv'
    BY <1>0 DEF QuietInv
  <2>1. \A u \in Threads, m \in Names :
         Uncounted(u, m)' => handle'[u][m].blk = block
    BY <1>1, <1>3 DEF QuietInv, Uncounted, None
  <2>2. ASSUME NEW u \in Threads, NEW m \in Names,
              handle'[u][m].kind = "control"
        PROVE  refs'[handle'[u][m].blk] = 1
    <3>1. /\ handle'[u][m] = handle[u][m] /\ handle[u][m].kind = "control"
          /\ ~ (u = t /\ m = n)
      BY <1>3, <2>2 DEF None
    <3>2. refs[handle[u][m].blk] = 1
      BY <1>1, <3>1 DEF QuietInv
    <3>3. handle[u][m].blk # b /\ handle[u][m].blk \in Blocks
      BY <1>1, <1>2, <3>1, <3>2, Sole, DropFacts DEF b
    <3>. QED
      BY <1>4, <3>1, <3>2, <3>3
  <2>. QED
    BY <1>1, <2>1, <2>2 DEF QuietInv
<1>. QED
  BY <1>0, <1>5, <1>6, <1>7 DEF CountInv

\* The block of a released control passes to a temporary, and stays counted.
LEMMA PublishStep ==
  ASSUME IInv, CountsInv, QuietInv, NEW t \in Threads, NEW n \in Names,
         Publish(t, n)
  PROVE  CountsInv' /\ QuietInv'
<1>. USE DEF CountsInv
<1>0. ~ raced' => ~ raced /\ \A u \in Threads \ {t} : pc[u] \notin {"count", "store"}
  BY DEF Publish, Loading, Storing
<1>. DEFINE b == handle[t][n].blk
<1>1. /\ mode = "Drop" /\ mode' = "Drop" /\ Running(t)
      /\ handle[t][n].kind = "control"
      /\ Put(t, n, None) /\ None \in AllHandles /\ None.kind = "none"
      /\ temp' = [temp EXCEPT ![t] = b] /\ seen' = [seen EXCEPT ![t] = block]
      /\ pc' = [pc EXCEPT ![t] = "store"]
      /\ UNCHANGED <<block, refs, content>>
  BY NoneType DEF Publish, None, heap
<1>2. /\ handle[t][n].holds /\ b \in Blocks /\ temp[t] = NoBlock
      /\ \A m \in Names : ~ Uncounted(t, m)
  BY <1>1, DropFacts
<1>. HIDE DEF b
<1>3. \A u \in Threads, m \in Names :
        handle'[u][m] = IF u = t /\ m = n THEN None ELSE handle[u][m]
  BY <1>1, PutAt
<1>4. \A u \in Threads : /\ pc'[u] = IF u = t THEN "store" ELSE pc[u]
                         /\ temp'[u] = IF u = t THEN b ELSE temp[u]
                         /\ seen'[u] = IF u = t THEN block ELSE seen[u]
  BY <1>1 DEF IInv, ShapeInv
<1>5. HandleInv'
  BY <1>1, <1>2, <1>3, <1>4 DEF HandleInv, Uncounted, LockModes
<1>6. ASSUME ~ raced, NEW c \in Blocks
      PROVE  (/\ IsFiniteSet(TempOf(c)) /\ IsFiniteSet(HandlesOf(c))
              /\ refs[c] = Cardinality(TempOf(c)) + Published(c)
                             + Cardinality(HandlesOf(c)))'
  <2>1. /\ IsFiniteSet(TempOf(c)')
        /\ Cardinality(TempOf(c)') = Cardinality(TempOf(c)) - 0 + One(b = c)
    <3>1. PutTemp(t, b) /\ temp[t] # c
      BY <1>1, <1>2, DispenserAssumption DEF PutTemp
    <3>. QED
      BY <1>6, <3>1, TempCount DEF One, IInv
  <2>2. handle[t][n].holds /\ handle[t][n].blk = b /\ ~ None.holds
    BY <1>2 DEF None, b
  <2>3. /\ IsFiniteSet(HandlesOf(c)')
        /\ Cardinality(HandlesOf(c)') = Cardinality(HandlesOf(c)) - One(b = c) + 0
    BY <1>1, <1>6, <2>2, HandlesCount DEF IInv, One
  <2>4. Published(c)' = Published(c) /\ One(b = c) \in {0, 1}
    BY <1>1 DEF Published, One
  <2>. QED
    BY <1>1, <1>6, <2>1, <2>3, <2>4, CountType
<1>7. QuietInv'
  <2>. SUFFICES ASSUME ~ raced' PROVE QuietInv'
    BY DEF QuietInv
  <2>1. \A u \in Threads : pc'[u] \in {"count", "store"} => u = t
    BY <1>0, <1>4
  <2>2. \A u \in Threads, m \in Names :
          /\ Uncounted(u, m)' => handle'[u][m].blk = block
          /\ handle'[u][m].kind = "control" => refs[handle'[u][m].blk] = 1
    BY <1>0, <1>1, <1>3 DEF QuietInv, Uncounted
  <2>. QED
    BY <1>1, <1>4, <2>1, <2>2 DEF QuietInv
<1>. QED
  BY <1>0, <1>5, <1>6, <1>7 DEF CountInv

\* The temporary and the dispenser change blocks: if nobody overlaps, the block
\* that is swapped out is the one that was there.
LEMMA StoreStep ==
  ASSUME IInv, CountsInv, QuietInv, NEW t \in Threads, Store(t)
  PROVE  CountsInv' /\ QuietInv'
<1>. USE DEF CountsInv
<1>0. ~ raced' => ~ raced
  BY DEF Store
<1>1. /\ mode = "Drop" /\ mode' = "Drop" /\ pc[t] = "store"
      /\ block' = temp[t] /\ temp' = [temp EXCEPT ![t] = seen[t]]
      /\ pc' = [pc EXCEPT ![t] = "letgo"] /\ seen' = [seen EXCEPT ![t] = NoBlock]
      /\ UNCHANGED <<refs, content, handle>>
  BY DispenserAssumption DEF Store, IInv, MutexInv, ShapeInv, LockModes
<1>2. \A u \in Threads : /\ pc'[u] = IF u = t THEN "letgo" ELSE pc[u]
                         /\ temp'[u] = IF u = t THEN seen[t] ELSE temp[u]
                         /\ seen'[u] = IF u = t THEN NoBlock ELSE seen[u]
  BY <1>1 DEF IInv, ShapeInv
<1>3. HandleInv'
  BY <1>1, <1>2 DEF HandleInv, Uncounted, LockModes
<1>4. ASSUME ~ raced, NEW c \in Blocks
      PROVE  (/\ IsFiniteSet(TempOf(c)) /\ IsFiniteSet(HandlesOf(c))
              /\ refs[c] = Cardinality(TempOf(c)) + Published(c)
                             + Cardinality(HandlesOf(c)))'
  <2>1. HandlesOf(c)' = HandlesOf(c)
    BY <1>1, SameHandles
  <2>2. seen[t] = block
    BY <1>1, <1>4 DEF QuietInv
  <2>3. /\ IsFiniteSet(TempOf(c)')
        /\ Cardinality(TempOf(c)')
             = Cardinality(TempOf(c)) - One(temp[t] = c) + One(block = c)
    <3>1. PutTemp(t, block)
      BY <1>1, <2>2 DEF PutTemp
    <3>. QED
      BY <1>4, <3>1, TempCount DEF IInv
  <2>4. Published(c)' = One(temp[t] = c) /\ Published(c) = One(block = c)
    BY <1>1 DEF Published, One
  <2>5. One(temp[t] = c) \in {0, 1} /\ One(block = c) \in {0, 1}
    BY DEF One
  <2>. QED
    BY <1>1, <1>4, <2>1, <2>3, <2>4, <2>5, CountType DEF CountInv
<1>5. QuietInv'
  <2>. SUFFICES ASSUME ~ raced PROVE QuietInv'
    BY <1>0 DEF QuietInv
  <2>1. \A u \in Threads : pc[u] \in {"count", "store"} => u = t
    BY <1>1 DEF QuietInv
  <2>2. \A u \in Threads, m \in Names : ~ Uncounted(u, m)
    BY <1>1, <2>1 DEF HandleInv
  <2>3. \A u \in Threads : pc'[u] \notin {"count", "store"}
    BY <1>2, <2>1
  <2>. QED
    BY <1>1, <2>2, <2>3 DEF QuietInv, Uncounted
<1>. QED
  BY <1>0, <1>3, <1>4, <1>5 DEF CountInv

\* The block that was published before gives the use of the publication back.
LEMMA LetGoStep ==
  ASSUME IInv, CountsInv, QuietInv, NEW t \in Threads, LetGo(t)
  PROVE  CountsInv' /\ QuietInv'
<1>. USE DEF CountsInv
<1>0. ~ raced' => ~ raced
  BY DEF LetGo
<1>1. mode = "Drop" /\ mode' = "Drop"
  BY DispenserAssumption DEF LetGo, IInv, MutexInv, ShapeInv, LockModes
<1>2. /\ pc[t] = "letgo" /\ pc' = [pc EXCEPT ![t] = "run"]
      /\ temp' = [temp EXCEPT ![t] = NoBlock] /\ Uncount(temp[t])
      /\ UNCHANGED <<block, content, handle, seen>>
  BY DEF LetGo
<1>3. /\ \A u \in Threads : pc'[u] = IF u = t THEN "run" ELSE pc[u]
      /\ \A u \in Threads : temp'[u] = IF u = t THEN NoBlock ELSE temp[u]
  BY <1>2 DEF IInv, ShapeInv, HandleInv
<1>4. \A c \in Blocks : refs'[c] = IF c = temp[t] THEN refs[c] - 1 ELSE refs[c]
  BY <1>2, DispenserAssumption DEF Uncount, HandleInv
<1>5. ASSUME ~ raced, NEW c \in Blocks
      PROVE  (/\ IsFiniteSet(TempOf(c)) /\ IsFiniteSet(HandlesOf(c))
              /\ refs[c] = Cardinality(TempOf(c)) + Published(c)
                             + Cardinality(HandlesOf(c)))'
  <2>1. HandlesOf(c)' = HandlesOf(c) /\ Published(c)' = Published(c)
    BY <1>2, SameHandles DEF Published
  <2>2. /\ IsFiniteSet(TempOf(c)')
        /\ Cardinality(TempOf(c)') \in Nat
        /\ Cardinality(TempOf(c)')
             = Cardinality(TempOf(c)) - One(temp[t] = c) + One(NoBlock = c)
    <3>1. PutTemp(t, NoBlock)
      BY <1>2 DEF PutTemp
    <3>. QED
      BY <1>5, <3>1, TempCount DEF IInv
  <2>3. One(NoBlock = c) = 0 /\ Published(c) \in Nat
    BY <1>5, DispenserAssumption, CountType DEF One
  <2>4. refs'[c] = Cardinality(TempOf(c)') + Published(c)
                     + Cardinality(HandlesOf(c))
    BY <1>5, <1>4, <2>2, <2>3, CountType DEF One
  <2>. QED
    BY <1>5, <2>1, <2>2, <2>3, <2>4, CountType DEF CountInv
<1>6. HandleInv'
  <2>1. refs' \in [Blocks -> Int]
    <3>1. refs' = [c \in Blocks |-> refs'[c]]
      BY <1>2 DEF Uncount, HandleInv
    <3>2. \A c \in Blocks : refs'[c] \in Int
      BY <1>4 DEF HandleInv
    <3>. QED
      BY <3>1, <3>2
  <2>. QED
    BY <1>1, <1>2, <1>3, <2>1 DEF HandleInv, Uncounted, LockModes
<1>7. QuietInv'
  <2>. SUFFICES ASSUME ~ raced PROVE QuietInv'
    BY <1>0 DEF QuietInv
  <2>1. \A u \in Threads : pc'[u] \in {"count", "store"} => pc'[u] = pc[u]
    BY <1>3
  <2>2. ASSUME NEW u \in Threads, NEW m \in Names, handle[u][m].kind = "control"
        PROVE  refs'[handle[u][m].blk] = 1
    <3>1. refs[handle[u][m].blk] = 1
      BY <1>1, <2>2 DEF QuietInv
    <3>2. handle[u][m].blk # temp[t] /\ handle[u][m].blk \in Blocks
      BY <1>1, <2>2, <3>1, Sole, DropFacts
    <3>. QED
      BY <1>4, <3>1, <3>2
  <2>3. \A u \in Threads, m \in Names :
         Uncounted(u, m)' => handle[u][m].blk = block
    BY <1>1, <1>2 DEF QuietInv, Uncounted
  <2>. QED
    BY <1>1, <1>2, <2>1, <2>2, <2>3 DEF QuietInv
<1>. QED
  BY <1>0, <1>5, <1>6, <1>7 DEF CountInv

\* A handle that moves takes its share along.
LEMMA DropMoveStep ==
  ASSUME IInv, CountsInv, QuietInv, mode = "Drop",
         NEW t \in Threads, NEW m \in Names, NEW n \in Names, Move(t, m, n)
  PROVE  CountsInv' /\ QuietInv'
<1>. USE DEF CountsInv
<1>0. ~ raced' => ~ raced
  BY DEF Move, store
<1>. DEFINE h == handle[t][m]
<1>1. /\ m # n /\ Running(t) /\ h.kind # "none" /\ handle[t][n] = None
      /\ UNCHANGED <<mode, block, refs, content, pc, temp, seen>>
      /\ \A u \in Threads, k \in Names :
           handle'[u][k] = IF u = t /\ k = n THEN h
                           ELSE IF u = t /\ k = m THEN None ELSE handle[u][k]
  BY DEF Move, Moved, IInv, ShapeInv, None, heap, store
<1>2. h.holds /\ h.holds \in BOOLEAN
  BY <1>1, DropFacts
<1>3. None.kind = "none" /\ ~ None.holds
  BY DEF None
<1>4. HandleInv'
  <2>1. \A k \in Names : ~ Uncounted(t, k) /\ ~ Uncounted(t, k)'
    BY <1>1, <1>2, <1>3, DropFacts DEF Uncounted
  <2>. HIDE DEF h
  <2>2. \A u \in Threads, k \in Names :
          \/ handle'[u][k] = None
          \/ u = t /\ handle'[u][k] = h
          \/ u # t /\ handle'[u][k] = handle[u][k]
          \/ u = t /\ handle'[u][k] = handle[u][k]
    BY <1>1
  <2>3. h = handle[t][m]
    BY DEF h
  <2>. QED
    BY <1>1, <1>3, <2>1, <2>2, <2>3, DispenserAssumption
       DEF HandleInv, Uncounted, LockModes
<1>5. ASSUME ~ raced, NEW c \in Blocks
      PROVE  (/\ IsFiniteSet(TempOf(c)) /\ IsFiniteSet(HandlesOf(c))
              /\ refs[c] = Cardinality(TempOf(c)) + Published(c)
                             + Cardinality(HandlesOf(c)))'
  <2>1. TempOf(c)' = TempOf(c) /\ Published(c)' = Published(c)
    BY <1>1, SameTemp DEF Published
  <2>. DEFINE in == h.blk = c
              S  == HandlesOf(c)
              R  == S \ {<<t, m>>}
              T  == HandlesOf(c)'
  <2>2. T = (R \ {<<t, n>>}) \cup (IF in THEN {<<t, n>>} ELSE {})
    BY <1>1, <1>2, <1>3 DEF HandlesOf
  <2>3. /\ <<t, n>> \notin R
        /\ <<t, m>> \in S <=> in
    BY <1>1, <1>2, <1>3 DEF HandlesOf
  <2>4. R = (S \ {<<t, m>>}) \cup (IF FALSE THEN {<<t, m>>} ELSE {})
    OBVIOUS
  <2>5. IsFiniteSet(S) /\ in \in BOOLEAN
    BY <1>5 DEF CountInv
  <2>. HIDE DEF S, R, T, in
  <2>6. /\ IsFiniteSet(R) /\ Cardinality(R) \in Nat /\ Cardinality(S) \in Nat
        /\ Cardinality(R) = Cardinality(S) - One(in) + 0
    <3>1. /\ IsFiniteSet(R) /\ Cardinality(R) \in Nat /\ Cardinality(S) \in Nat
          /\ Cardinality(R) = Cardinality(S) - One(<<t, m>> \in S) + One(FALSE)
      BY <2>4, <2>5, PutElement
    <3>. QED
      BY <2>3, <3>1 DEF One
  <2>7. /\ IsFiniteSet(T) /\ Cardinality(T) \in Nat
        /\ Cardinality(T) = Cardinality(R) - 0 + One(in)
    <3>1. /\ IsFiniteSet(T) /\ Cardinality(T) \in Nat
          /\ Cardinality(T) = Cardinality(R) - One(<<t, n>> \in R) + One(in)
      BY <2>2, <2>5, <2>6, PutElement
    <3>. QED
      BY <2>3, <3>1 DEF One
  <2>8. Cardinality(T) = Cardinality(S)
    BY <2>6, <2>7 DEF One
  <2>. QED
    BY <1>5, <1>1, <2>1, <2>7, <2>8, CountType DEF S, T, CountInv
<1>6. QuietInv'
  <2>. SUFFICES ASSUME ~ raced PROVE QuietInv'
    BY <1>0 DEF QuietInv
  <2>1. \A u \in Threads, k \in Names :
          handle'[u][k] = None \/ \E l \in Names : handle'[u][k] = handle[u][l]
    BY <1>1
  <2>2. \A u \in Threads, k \in Names :
          /\ Uncounted(u, k)' => handle'[u][k].blk = block
          /\ handle'[u][k].kind = "control" => refs[handle'[u][k].blk] = 1
    BY <1>3, <2>1 DEF QuietInv, Uncounted
  <2>. QED
    BY <1>1, <2>2 DEF QuietInv
<1>. QED
  BY <1>0, <1>4, <1>5, <1>6 DEF CountInv

\* A control writes to a block nobody else counts.
LEMMA DropWriteStep ==
  ASSUME IInv, CountsInv, QuietInv, mode = "Drop",
         NEW t \in Threads, NEW n \in Names, Write(t, n)
  PROVE  CountsInv' /\ QuietInv'
<1>. USE DEF CountsInv
<1>0. ~ raced' => ~ raced
  BY DEF Write, store
<1>1. UNCHANGED <<mode, block, refs, handle, pc, temp, seen>>
  BY DEF Write, store
<1>2. HandleInv'
  BY <1>1, WriteContent DEF HandleInv, Uncounted
<1>3. \A c \in Blocks : TempOf(c)' = TempOf(c) /\ HandlesOf(c)' = HandlesOf(c)
                          /\ Published(c)' = Published(c)
  BY <1>1, SameHandles, SameTemp DEF Published
<1>4. CountInv'
  BY <1>0, <1>1, <1>3 DEF CountInv
<1>5. QuietInv'
  BY <1>0, <1>1 DEF QuietInv, Uncounted
<1>. QED
  BY <1>2, <1>4, <1>5

\* Every step keeps the whole invariant.
LEMMA FullStep == FullInv /\ [Next]_vars => FullInv'
<1>. SUFFICES ASSUME FullInv, [Next]_vars PROVE FullInv'
  OBVIOUS
<1>. USE DEF FullInv
<1>1. IInv'
  BY InvStep
<1>2. CASE UNCHANGED vars
  <2>1. \A b \in Blocks : TempOf(b)' = TempOf(b) /\ HandlesOf(b)' = HandlesOf(b)
                            /\ Published(b)' = Published(b)
    BY <1>2, SameHandles, SameTemp DEF vars, Published
  <2>2. CountInv'
    BY <1>2, <2>1 DEF vars, CountsInv, CountInv
  <2>3. ExactInv'
    BY <1>2 DEF vars, ExactInv, MayWrite, Watching
  <2>4. HandleInv' /\ QuietInv'
    BY <1>2 DEF vars, CountsInv, HandleInv, QuietInv, Uncounted
  <2>. QED
    BY <1>1, <2>2, <2>3, <2>4 DEF CountsInv
<1>3. ASSUME NEW t \in Threads, Step(t), mode \in LockModes PROVE FullInv'
  <2>1. ExactInv' /\ CountsInv'
    BY <1>1, <1>3, LockStep
  <2>2. UNCHANGED mode
    BY <1>3 DEF Step, WatchLock, WatchTrylock, ControlLock, ReleaseWatch,
       ReleaseControl, ControlDrop, WatchLoad, WatchCount, Reset, Publish,
       Write, Move, Store, LetGo
  <2>3. QuietInv'
    BY <1>1, <1>3, <2>2 DEF QuietInv, IInv, MutexInv, LockModes
  <2>. QED
    BY <1>1, <2>1, <2>3
<1>4. ASSUME NEW t \in Threads, Step(t), mode = "Drop" PROVE FullInv'
  <2>1. CountsInv' /\ QuietInv'
    BY <1>4, ControlDropStep, WatchLoadStep, WatchCountStep, ResetStep,
       PublishStep, StoreStep, LetGoStep, DropMoveStep, DropWriteStep
       DEF Step, WatchLock, WatchTrylock, ControlLock, ReleaseWatch,
           ReleaseControl, LockModes
  <2>2. UNCHANGED mode /\ UNCHANGED <<readers, writer, forgot>>
    <3>1. ASSUME NEW m \in Names, NEW n \in Names, Move(t, m, n)
          PROVE  UNCHANGED <<mode, readers, writer, forgot>>
      BY <1>4, <3>1 DEF Move, Moved
    <3>. QED
      BY <1>4, <3>1 DEF Step, WatchLock, WatchTrylock, ControlLock, ReleaseWatch,
         ReleaseControl, LockModes, ControlDrop, WatchLoad, WatchCount, Reset,
         Publish, Write, Store, LetGo, shared
  <2>3. ExactInv'
    BY <1>4, <2>2 DEF ExactInv, LockModes
  <2>. QED
    BY <1>1, <2>1, <2>3
<1>5. mode \in LockModes \/ mode = "Drop"
  BY DispenserAssumption DEF IInv, ShapeInv, LockModes
<1>. QED
  BY <1>2, <1>3, <1>4, <1>5 DEF Next

\* The whole invariant holds in every behaviour.
LEMMA SpecFull == Spec => []FullInv
<1>1. Init => FullInv
  BY InvInit, FullInit DEF FullInv
<1>. QED
  BY <1>1, FullStep, PTL DEF Spec

-----------------------------------------------------------------------------

\* Every variable keeps to the values the code gives it.
THEOREM TypeCorrect == Spec => []TypeOK
<1>1. FullInv => TypeOK
  <2>1. FullInv => mode \in LockModes \/ mode = "Drop"
    BY DispenserAssumption DEF FullInv, IInv, ShapeInv, LockModes
  <2>. QED
    BY <2>1 DEF FullInv, IInv, ShapeInv, ExactInv, CountsInv, HandleInv, TypeOK
<1>. QED
  BY <1>1, SpecFull, PTL

\* The mutex is held for the handles that hold it and, in Trylock, for the
\* watches that were moved while they held it, and for nothing else; and as long
\* as no store of the block has overlapped an access, each owner of a block is
\* counted, however handles are moved (dispenser.hpp:264-357).
THEOREM NothingLeaksAlways == Spec => []NothingLeaks
<1>1. FullInv => NothingLeaks
  <2>. SUFFICES ASSUME FullInv PROVE NothingLeaks
    OBVIOUS
  <2>1. mode \in LockModes =>
          /\ readers = Sharers \cup forgot
          /\ writer = {t \in Threads : \E n \in Names :
                         handle[t][n].kind = "control"}
    BY DEF FullInv, IInv, MutexInv, ExactInv, MayWrite, Watching, Sharers
  <2>3. mode = "Lock" => forgot = {}
    BY DEF FullInv, ExactInv
  <2>2. ~ raced => \A b \in Blocks :
          refs[b] = Cardinality(TempOf(b)) + (IF block = b THEN 1 ELSE 0)
                      + Cardinality(HandlesOf(b))
    BY DEF FullInv, CountsInv, CountInv, Published
  <2>. QED
    BY <2>1, <2>2, <2>3 DEF NothingLeaks, TempOf, HandlesOf
<1>. QED
  BY <1>1, SpecFull, PTL

\* As long as no store of the block has overlapped a load or another store, no
\* thread stands on a block that has been freed.  The condition is a history of
\* the execution, not an assumption on the threads: nothing in the code keeps
\* it (dispenser.hpp:208, :307).
THEOREM OnlyRacesDangleAlways == Spec => []OnlyRacesDangle
<1>1. FullInv => OnlyRacesDangle
  <2>. SUFFICES ASSUME FullInv, ~ raced PROVE NeverDangling
    BY DEF OnlyRacesDangle
  <2>. USE DEF FullInv
  <2>1. ASSUME block # NoBlock PROVE refs[block] > 0
    <3>1. block \in Blocks /\ Published(block) = 1
      BY <2>1 DEF IInv, ShapeInv, Published
    <3>. QED
      BY <3>1, CountType DEF CountsInv
  <2>2. ASSUME NEW t \in Threads, NEW n \in Names, handle[t][n].blk # NoBlock
        PROVE  refs[handle[t][n].blk] > 0
    <3>. DEFINE b == handle[t][n].blk
    <3>1. mode = "Drop"
      BY <2>2, DispenserAssumption
         DEF IInv, ShapeInv, CountsInv, HandleInv, LockModes
    <3>2. b \in Blocks /\ handle[t][n].kind # "none"
      BY <2>2, <3>1, DropFacts DEF None
    <3>3. CASE handle[t][n].holds
      <4>1. <<t, n>> \in HandlesOf(b) /\ IsFiniteSet(HandlesOf(b))
        BY <3>2, <3>3 DEF HandlesOf, CountsInv, CountInv
      <4>2. Cardinality(HandlesOf(b)) # 0
        BY <4>1, FS_EmptySet
      <4>. HIDE DEF b
      <4>3. refs[b] > 0
        BY <3>2, <4>2, CountType DEF CountsInv
      <4>. QED
        BY <4>3 DEF b
    <3>4. CASE ~ handle[t][n].holds
      <4>1. Uncounted(t, n)
        BY <3>1, <3>2, <3>4, DropFacts DEF Uncounted
      <4>2. b = block
        BY <3>1, <4>1 DEF QuietInv
      <4>. QED
        BY <2>1, <2>2, <4>2
    <3>. QED
      BY <3>3, <3>4
  <2>. QED
    BY <2>1, <2>2 DEF NeverDangling
<1>. QED
  BY <1>1, SpecFull, PTL

\* What a held watch shows stays what it is: in Lock and Trylock always, in Drop
\* up to the first overlap of a store with an access (dispenser.hpp:7-15).
THEOREM WatchStable == Spec => WatchIsStable
<1>1. FullInv /\ [Next]_vars =>
        [(mode \in LockModes \/ ~ raced) => \A t \in Threads, n \in Names :
           LET h == handle[t][n] IN
           (h.kind = "watch" /\ h.holds /\ handle'[t][n] = h /\ Object(h) # NoBlock)
             => content'[Object(h)] = content[Object(h)]]_vars
  <2>. SUFFICES ASSUME FullInv, Next, mode \in LockModes \/ ~ raced,
                       NEW t \in Threads, NEW n \in Names,
                       handle[t][n].kind = "watch", handle[t][n].holds,
                       handle'[t][n] = handle[t][n],
                       Object(handle[t][n]) # NoBlock
                PROVE  content'[Object(handle[t][n])]
                         = content[Object(handle[t][n])]
    OBVIOUS
  <2>. USE DEF FullInv
  <2>. DEFINE o == Object(handle[t][n])
  <2>1. o \in Blocks
    BY DEF Object, IInv, ShapeInv, AllHandles
  <2>2. ASSUME NEW u \in Threads, NEW m \in Names, Write(u, m)
        PROVE  content'[o] = content[o]
    <3>1. handle[u][m].kind = "control"
      BY <2>2 DEF Write
    <3>2. mode \notin LockModes
      BY <3>1 DEF IInv, MutexInv, MayWrite, Holding
    <3>3. mode = "Drop"
      BY <3>2, DispenserAssumption DEF IInv, ShapeInv, LockModes
    <3>4. refs[handle[u][m].blk] = 1 /\ ~ raced
      BY <3>1, <3>2, <3>3 DEF QuietInv
    <3>5. handle[t][n].blk # handle[u][m].blk
      BY <3>1, <3>3, <3>4, Sole
    <3>6. o # Object(handle[u][m])
      BY <3>3, <3>5 DEF Object
    <3>. HIDE DEF o
    <3>. QED
      BY <2>1, <2>2, <3>6, WriteContent DEF CountsInv
  <2>3. ASSUME NEW u \in Threads, NEW m \in Names, ControlDrop(u, m)
        PROVE  content'[o] = content[o]
    <3>1. PICK b \in Blocks : refs[b] = 0 /\ content' = [content EXCEPT ![b] = 0]
      BY <2>3 DEF ControlDrop
    <3>2. o = handle[t][n].blk /\ ~ raced
      BY <2>3 DEF ControlDrop, Object, LockModes
    <3>3. <<t, n>> \in HandlesOf(o) /\ IsFiniteSet(HandlesOf(o))
      BY <2>1, <3>2 DEF HandlesOf, CountsInv, CountInv
    <3>4. Cardinality(HandlesOf(o)) # 0
      BY <3>3, FS_EmptySet
    <3>. HIDE DEF o
    <3>5. o # b
      BY <2>1, <3>1, <3>2, <3>4, CountType DEF CountsInv
    <3>. QED
      BY <2>1, <3>1, <3>5 DEF CountsInv, HandleInv
  <2>4. ASSUME NEW u \in Threads, Step(u),
               \A m \in Names : ~ Write(u, m) /\ ~ ControlDrop(u, m)
        PROVE  UNCHANGED content
    BY <2>4 DEF Step, WatchLock, WatchTrylock, ControlLock, ReleaseWatch,
       ReleaseControl, WatchLoad, WatchCount, Reset, Publish, Move, Store, LetGo,
       heap
  <2>. QED
    BY <2>2, <2>3, <2>4 DEF Next
<1>. QED
  BY <1>1, SpecFull, PTL DEF Spec, WatchIsStable
=============================================================================
