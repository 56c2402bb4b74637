----------------------------- MODULE PortsProofs -----------------------------
(* Theorems of Ports for any sockets, poll threads and numbers: what an      *)
(* object holds is its own, a number is lost by an overwrite only, and poll  *)
(* loops end with the open that made them.                                   *)
EXTENDS Ports, FiniteSetTheorems, WellFoundedInduction, TLAPS

\* Whether a socket holds a number is known of the unmade ones: they have none.
UnmadeInv == \A o \in Sockets \ life : sock[o] = NoFd

\* _poll_th has the loops that are about: one, but within open, which stops
\* the one that was there and joins it.
LoopsInv ==
  /\ \A l \in Loops : l \in current <=> loop[l].pc # "off"
  /\ spc # "join" => \A l, m \in current : l = m
  /\ \A l, m \in current : ~loop[l].stop /\ ~loop[m].stop => l = m
  /\ spc = "gone" => current = {}

\* A call under which _bytes_cb was assigned is of a loop that open joins.
TornInv ==
  \A l \in Loops : loop[l].torn =>
    /\ l \in current
    /\ spc \in {"start", "join"}
    /\ spc = "join" => loop[l].stop

NumbersInv == OneOwner /\ UnmadeInv

IInv == TypeOK /\ NumbersInv /\ LoopsInv /\ TornInv

-----------------------------------------------------------------------------
(* The numbers the kernel gives. *)

\* There is a lowest free number, if there is a free one.
LEMMA LowestIsFree ==
  ASSUME Free # {}
  PROVE  Lowest \in Fds /\ table[Lowest] = "free"
<1>1. Free \in SUBSET Nat
  BY PortsAssumption DEF Free
<1>. DEFINE Less == {p \in Nat \X Nat : p[1] < p[2]}
<1>2. IsWellFoundedOn(Less, Nat)
  BY NatLessThanWellFounded, Zenon DEF OpToRel
<1>3. \A m, n \in Nat : m < n => <<m, n>> \in Less
  OBVIOUS
<1>. HIDE DEF Less
<1>4. PICK n \in Free : \A m \in Free : ~ (<<m, n>> \in Less)
  BY <1>1, <1>2, WFMin
<1>5. \A m \in Free : n <= m
  <2>1. SUFFICES ASSUME NEW m \in Free PROVE n <= m
    OBVIOUS
  <2>2. n \in Nat /\ m \in Nat /\ ~ (m < n)
    BY <1>1, <1>3, <1>4
  <2>. QED
    BY <2>2
<1>6. Lowest \in Free
  BY <1>5 DEF Lowest
<1>. QED
  BY <1>6 DEF Free

\* What the table is after a number was given, and after one was taken back.
LEMMA TakesTable ==
  ASSUME TypeOK, NEW kind \in {"tty", "sock"}, Takes(kind)
  PROVE  /\ Lowest \in Fds
         /\ table[Lowest] = "free"
         /\ table' \in [Fds -> {"free", "tty", "sock"}]
         /\ table'[Lowest] = kind
         /\ \A n \in Fds \ {Lowest} : table'[n] = table[n]
BY LowestIsFree DEF Takes, TypeOK

\* A number given back is free, and nothing else changes in the table.
LEMMA FreesTable ==
  ASSUME TypeOK, NEW n \in Fds, Frees(n)
  PROVE  /\ table' \in [Fds -> {"free", "tty", "sock"}]
         /\ table'[n] = "free"
         /\ \A m \in Fds \ {n} : table'[m] = table[m]
BY DEF Frees, TypeOK

\* A step of a poll loop changes this loop's place and number alone.
LEMMA LoopStep ==
  ASSUME TypeOK, NEW l \in Loops, LoopSteps(l)
  PROVE  /\ loop' \in [Loops -> [pc : {"off", "begin", "head", "poll", "read",
                                       "callback", "ended"},
                                 fd : Fds \union {NoFd},
                                 stop : BOOLEAN, torn : BOOLEAN]]
         /\ loop[l].pc # "off" /\ loop'[l].pc # "off"
         /\ loop'[l].stop = loop[l].stop /\ (loop'[l].torn => loop[l].torn)
         /\ \A m \in Loops \ {l} : loop'[m] = loop[m]
         /\ UNCHANGED <<table, port, spc, current, closeFailed, sockets>>
<1>. USE DEF TypeOK, Goto
<1>1. CASE LoopBegin(l)
  BY <1>1 DEF LoopBegin
<1>2. CASE LoopHead(l)
  BY <1>2 DEF LoopHead
<1>3. CASE Poll(l)
  BY <1>3 DEF Poll
<1>4. CASE Read(l)
  BY <1>4 DEF Read
<1>5. CASE Callback(l)
  BY <1>5 DEF Callback
<1>. QED
  BY <1>1, <1>2, <1>3, <1>4, <1>5 DEF LoopSteps

-----------------------------------------------------------------------------
(* The invariant holds at first, and each step keeps it. *)

\* No number is held and no poll loop runs at first.
LEMMA InitInv == Init => IInv
<1>. SUFFICES ASSUME Init PROVE IInv
  OBVIOUS
<1>1. TypeOK
  BY DEF Init, TypeOK, NoLoop
<1>2. NumbersInv
  BY DEF Init, NumbersInv, OneOwner, UnmadeInv
<1>3. LoopsInv /\ TornInv
  BY DEF Init, LoopsInv, TornInv, NoLoop
<1>. QED
  BY <1>1, <1>2, <1>3 DEF IInv

\* A close of the serial port takes its own number from the table and no other;
\* if ::close reports an error, closeFailed remembers it.
LEMMA SerialClosedNumbers ==
  ASSUME TypeOK, NumbersInv, port # NoFd, UNCHANGED sockets,
         NEW next, NEW failed, SerialClosed(next, failed)
  PROVE  /\ table' \in [Fds -> {"free", "tty", "sock"}]
         /\ port' \in Fds \union {NoFd} /\ closeFailed' \in BOOLEAN
         /\ spc' \in {next, failed}
         /\ NumbersInv'
<1>1. port \in Fds /\ Frees(port)
  BY DEF SerialClosed, TypeOK
<1>2. /\ table' \in [Fds -> {"free", "tty", "sock"}]
      /\ \A n \in Fds \ {port} : table'[n] = table[n]
  BY <1>1, FreesTable
<1>3. \/ port' = NoFd /\ spc' = next /\ closeFailed' = closeFailed
      \/ port' = port /\ spc' = failed /\ closeFailed' = TRUE
  BY DEF SerialClosed
<1>4. OneOwner'
  <2>1. CASE closeFailed'
    BY <2>1 DEF OneOwner
  <2>2. CASE ~closeFailed'
    <3>1. ~closeFailed /\ port' = NoFd
      BY <1>3, <2>2
    <3>2. ASSUME NEW o \in Sockets, sock[o] # NoFd
          PROVE  table'[sock[o]] = "sock"
      <4>1. sock[o] \in Fds /\ table[sock[o]] = "sock" /\ table[port] = "tty"
        BY <3>1, <3>2 DEF NumbersInv, OneOwner, TypeOK
      <4>. QED
        BY <1>2, <4>1
    <3>. QED
      BY <3>1, <3>2 DEF NumbersInv, OneOwner, sockets
  <2>. QED
    BY <2>1, <2>2
<1>5. UnmadeInv'
  BY DEF NumbersInv, UnmadeInv, sockets
<1>. QED
  BY <1>1, <1>2, <1>3, <1>4, <1>5 DEF TypeOK, NumbersInv

\* Nothing the numbers are about is changed.
LEMMA NumbersStay ==
  ASSUME NumbersInv, UNCHANGED <<table, port, closeFailed, sockets>>
  PROVE  NumbersInv'
BY DEF NumbersInv, OneOwner, UnmadeInv, sockets

\* The loops and _poll_th are as they were, and no call of open is in its join.
LEMMA LoopsStay ==
  ASSUME LoopsInv, TornInv, UNCHANGED <<loop, current>>,
         spc \notin {"start", "join"}, spc' = "gone" => current = {}
  PROVE  LoopsInv' /\ TornInv'
BY DEF LoopsInv, TornInv

\* The calls of the serial port.
LEMMA ClientStep ==
  ASSUME IInv, ClientSteps
  PROVE  IInv'
<1>. USE DEF IInv
<1>1. CASE Close
  <2>1. UNCHANGED <<loop, current, sockets>> /\ spc = "idle"
    BY <1>1 DEF Close
  <2>2. /\ table' \in [Fds -> {"free", "tty", "sock"}]
        /\ port' \in Fds \union {NoFd} /\ closeFailed' \in BOOLEAN
        /\ spc' = "idle" /\ NumbersInv'
    BY <1>1, SerialClosedNumbers DEF Close
  <2>3. TypeOK'
    BY <2>1, <2>2 DEF TypeOK, sockets
  <2>. QED
    BY <2>1, <2>2, <2>3, LoopsStay
<1>2. CASE OpenBegin
  <2>1. UNCHANGED <<loop, current, sockets>> /\ spc = "idle"
    BY <1>2 DEF OpenBegin
  <2>2. /\ table' \in [Fds -> {"free", "tty", "sock"}]
        /\ port' \in Fds \union {NoFd} /\ closeFailed' \in BOOLEAN
        /\ spc' \in {"open", "idle"} /\ NumbersInv'
    <3>1. CASE port = NoFd
      <4>1. UNCHANGED <<table, port, closeFailed>> /\ spc' = "open"
        BY <1>2, <3>1 DEF OpenBegin
      <4>. QED
        BY <2>1, <4>1, NumbersStay DEF TypeOK
    <3>2. CASE port # NoFd
      <4>1. SerialClosed("open", "idle")
        BY <1>2, <3>2 DEF OpenBegin
      <4>. QED
        BY <2>1, <3>2, <4>1, SerialClosedNumbers
    <3>. QED
      BY <3>1, <3>2
  <2>3. TypeOK'
    BY <2>1, <2>2 DEF TypeOK, sockets
  <2>. QED
    BY <2>1, <2>2, <2>3, LoopsStay
<1>3. CASE OpenFails
  <2>1. /\ UNCHANGED <<table, port, loop, current, closeFailed, sockets>>
        /\ spc = "open" /\ spc' = "idle"
    BY <1>3 DEF OpenFails
  <2>2. TypeOK'
    BY <2>1 DEF TypeOK, sockets
  <2>. QED
    BY <2>1, <2>2, NumbersStay, LoopsStay
<1>4. CASE OpenDone
  <2>1. /\ UNCHANGED <<loop, current, closeFailed, sockets>>
        /\ spc = "open" /\ spc' = "assign" /\ port' = Lowest /\ Takes("tty")
    BY <1>4 DEF OpenDone
  <2>2. /\ Lowest \in Fds /\ table[Lowest] = "free"
        /\ table' \in [Fds -> {"free", "tty", "sock"}]
        /\ table'[Lowest] = "tty"
        /\ \A n \in Fds \ {Lowest} : table'[n] = table[n]
    BY <2>1, TakesTable
  <2>3. TypeOK'
    BY <2>1, <2>2 DEF TypeOK, sockets
  <2>4. OneOwner'
    <3>1. ASSUME NEW o \in Sockets, sock[o] # NoFd, ~closeFailed
          PROVE  table'[sock[o]] = "sock"
      BY <2>2, <3>1 DEF NumbersInv, OneOwner, TypeOK
    <3>. QED
      BY <2>1, <2>2, <3>1 DEF NumbersInv, OneOwner, sockets
  <2>5. UnmadeInv'
    BY <2>1 DEF NumbersInv, UnmadeInv, sockets
  <2>. QED
    BY <2>1, <2>3, <2>4, <2>5, LoopsStay DEF NumbersInv
<1>5. CASE StartLoop
  <2>1. /\ UNCHANGED <<table, port, closeFailed, sockets>>
        /\ spc = "start" /\ spc' = "join"
    BY <1>5 DEF StartLoop
  <2>2. PICK l \in Loops :
          /\ loop[l].pc = "off"
          /\ loop' = [StopLoops(loop) EXCEPT
                        ![l] = [NoLoop EXCEPT !.pc = "begin"]]
          /\ current' = current \union {l}
    BY <1>5 DEF StartLoop
  <2>3. TypeOK'
    BY <2>1, <2>2 DEF TypeOK, StopLoops, NoLoop, sockets
  <2>4. /\ loop'[l].pc = "begin" /\ ~loop'[l].stop /\ ~loop'[l].torn
        /\ \A m \in Loops \ {l} : /\ loop'[m].pc = loop[m].pc
                                  /\ loop'[m].torn = loop[m].torn
        /\ \A m \in current : m # l /\ loop'[m].stop
    BY <2>2 DEF TypeOK, StopLoops, NoLoop, LoopsInv
  <2>5. LoopsInv' /\ TornInv'
    BY <2>1, <2>2, <2>4 DEF TypeOK, LoopsInv, TornInv
  <2>. QED
    BY <2>1, <2>3, <2>5, NumbersStay
<1>6. CASE Join
  <2>1. /\ UNCHANGED <<table, port, closeFailed, sockets>>
        /\ spc = "join" /\ spc' = "idle"
        /\ current' = {l \in current : ~loop[l].stop}
        /\ loop' = [l \in Loops |-> IF l \in current /\ loop[l].stop THEN NoLoop
                                    ELSE loop[l]]
    BY <1>6 DEF Join
  <2>2. TypeOK'
    BY <2>1 DEF TypeOK, NoLoop, sockets
  <2>3. LoopsInv' /\ TornInv'
    BY <2>1 DEF TypeOK, LoopsInv, TornInv, NoLoop
  <2>. QED
    BY <2>1, <2>2, <2>3, NumbersStay
<1>7. CASE Destroy
  <2>1. /\ UNCHANGED <<table, port, current, closeFailed, sockets>>
        /\ spc = "idle" /\ spc' = "unmake" /\ loop' = StopLoops(loop)
    BY <1>7 DEF Destroy
  <2>2. TypeOK'
    BY <2>1 DEF TypeOK, StopLoops, sockets
  <2>3. LoopsInv' /\ TornInv'
    BY <2>1 DEF TypeOK, LoopsInv, TornInv, StopLoops
  <2>. QED
    BY <2>1, <2>2, <2>3, NumbersStay
<1>8. CASE DestroyJoin
  <2>1. /\ UNCHANGED sockets
        /\ loop' = [l \in Loops |-> NoLoop] /\ current' = {}
    BY <1>8 DEF DestroyJoin
  <2>2. /\ table' \in [Fds -> {"free", "tty", "sock"}]
        /\ port' \in Fds \union {NoFd} /\ closeFailed' \in BOOLEAN
        /\ spc' = "gone" /\ NumbersInv'
    <3>1. CASE port = NoFd
      <4>1. UNCHANGED <<table, port, closeFailed>> /\ spc' = "gone"
        BY <1>8, <3>1 DEF DestroyJoin
      <4>. QED
        BY <2>1, <4>1, NumbersStay DEF TypeOK
    <3>2. CASE port # NoFd
      <4>1. SerialClosed("gone", "gone")
        BY <1>8, <3>2 DEF DestroyJoin
      <4>. QED
        BY <2>1, <3>2, <4>1, SerialClosedNumbers
    <3>. QED
      BY <3>1, <3>2
  <2>3. TypeOK'
    BY <2>1, <2>2 DEF TypeOK, NoLoop, sockets
  <2>4. LoopsInv' /\ TornInv'
    BY <2>1 DEF LoopsInv, TornInv, NoLoop
  <2>. QED
    BY <2>2, <2>3, <2>4
<1>9. CASE AssignCallback
  <2>1. /\ UNCHANGED <<table, port, current, closeFailed, sockets>>
        /\ spc = "assign" /\ spc' = "start"
        /\ loop' = [l \in Loops |->
                      [loop[l] EXCEPT !.torn = loop[l].pc = "callback"]]
    BY <1>9 DEF AssignCallback
  <2>2. TypeOK'
    BY <2>1 DEF TypeOK, sockets
  <2>3. LoopsInv' /\ TornInv'
    BY <2>1 DEF TypeOK, LoopsInv, TornInv
  <2>. QED
    BY <2>1, <2>2, <2>3, NumbersStay
<1>. QED
  BY <1>1, <1>2, <1>3, <1>4, <1>5, <1>6, <1>7, <1>8, <1>9 DEF ClientSteps

\* A socket is given a number of its own, whatever it had before.
LEMMA Opened ==
  ASSUME TypeOK, NumbersInv, NEW o \in life,
         Takes("sock"), sock' = [sock EXCEPT ![o] = Lowest],
         UNCHANGED <<port, closeFailed, life>>
  PROVE  /\ table' \in [Fds -> {"free", "tty", "sock"}]
         /\ sock' \in [Sockets -> Fds \union {NoFd}]
         /\ NumbersInv'
<1>1. /\ Lowest \in Fds /\ table[Lowest] = "free"
      /\ table' \in [Fds -> {"free", "tty", "sock"}]
      /\ table'[Lowest] = "sock"
      /\ \A n \in Fds \ {Lowest} : table'[n] = table[n]
  BY TakesTable
<1>2. /\ sock' \in [Sockets -> Fds \union {NoFd}]
      /\ o \in Sockets /\ sock'[o] = Lowest
      /\ \A p \in Sockets \ {o} : sock'[p] = sock[p]
  BY <1>1 DEF TypeOK
<1>3. OneOwner'
  <2>. SUFFICES ASSUME ~closeFailed PROVE OneOwner'
    BY DEF OneOwner
  <2>1. port # NoFd => port \in Fds /\ port # Lowest /\ table[port] = "tty"
    BY <1>1 DEF NumbersInv, OneOwner, TypeOK
  <2>2. \A p \in Sockets \ {o} : sock[p] # NoFd =>
          sock[p] \in Fds /\ sock[p] # Lowest /\ table[sock[p]] = "sock"
    BY <1>1 DEF NumbersInv, OneOwner, TypeOK
  <2>. QED
    BY <1>1, <1>2, <2>1, <2>2 DEF NumbersInv, OneOwner
<1>4. UnmadeInv'
  BY <1>2 DEF NumbersInv, UnmadeInv, TypeOK
<1>. QED
  BY <1>1, <1>2, <1>3, <1>4 DEF NumbersInv

\* A socket gives its number back, if it has one.
LEMMA GivenBack ==
  ASSUME TypeOK, NumbersInv, NEW o \in Sockets, Disconnected(o),
         life' \in {life, life \ {o}}, UNCHANGED serial
  PROVE  TypeOK' /\ NumbersInv'
<1>1. /\ sock' = [sock EXCEPT ![o] = NoFd]
      /\ alive' = [alive EXCEPT ![o] = FALSE]
      /\ UNCHANGED <<port, spc, loop, current, closeFailed>>
  BY DEF Disconnected, serial
<1>2. CASE sock[o] = NoFd
  <2>1. UNCHANGED <<table, anyAddr>>
    BY <1>2 DEF Disconnected
  <2>. QED
    BY <1>1, <1>2, <2>1 DEF TypeOK, NumbersInv, OneOwner, UnmadeInv
<1>3. CASE sock[o] # NoFd
  <2>1. /\ sock[o] \in Fds /\ Frees(sock[o])
        /\ anyAddr' = [anyAddr EXCEPT ![o] = TRUE]
    BY <1>3 DEF Disconnected, TypeOK
  <2>2. /\ table' \in [Fds -> {"free", "tty", "sock"}]
        /\ \A n \in Fds \ {sock[o]} : table'[n] = table[n]
    BY <2>1, FreesTable
  <2>3. TypeOK'
    BY <1>1, <2>1, <2>2 DEF TypeOK
  <2>4. OneOwner'
    <3>. SUFFICES ASSUME ~closeFailed PROVE OneOwner'
      BY <1>1 DEF OneOwner
    <3>1. port # NoFd => port \in Fds /\ port # sock[o] /\ table[port] = "tty"
      BY <1>3 DEF NumbersInv, OneOwner, TypeOK
    <3>2. \A p \in Sockets \ {o} : sock[p] # NoFd =>
            sock[p] \in Fds /\ sock[p] # sock[o] /\ table[sock[p]] = "sock"
      BY <1>3 DEF NumbersInv, OneOwner, TypeOK
    <3>3. sock'[o] = NoFd /\ \A p \in Sockets \ {o} : sock'[p] = sock[p]
      BY <1>1 DEF TypeOK
    <3>. QED
      BY <1>1, <2>2, <3>1, <3>2, <3>3 DEF NumbersInv, OneOwner
  <2>5. UnmadeInv'
    BY <1>1 DEF NumbersInv, UnmadeInv, TypeOK
  <2>. QED
    BY <2>3, <2>4, <2>5 DEF NumbersInv
<1>. QED
  BY <1>2, <1>3

\* The calls of a socket leave the serial port and its loops alone.
LEMMA SocketStep ==
  ASSUME IInv, NEW o \in Sockets, SocketSteps(o)
  PROVE  IInv'
<1>. USE DEF IInv
<1>1. UNCHANGED serial
  BY DEF SocketSteps, Make, Connect, Listen, Disconnect, Unmake, Bind, Accept,
     Move
<1>2. LoopsInv' /\ TornInv'
  BY <1>1 DEF LoopsInv, TornInv, serial
<1>3. TypeOK' /\ NumbersInv'
  <2>1. CASE Make(o)
    BY <2>1 DEF Make, TypeOK, NumbersInv, OneOwner, UnmadeInv, serial
  <2>2. ASSUME NEW any \in BOOLEAN, Bind(o, any) PROVE TypeOK' /\ NumbersInv'
    BY <2>2 DEF Bind, TypeOK, NumbersInv, OneOwner, UnmadeInv, serial
  <2>3. CASE Connect(o)
    <3>1. /\ o \in life /\ Takes("sock") /\ sock' = [sock EXCEPT ![o] = Lowest]
          /\ alive' = [alive EXCEPT ![o] = TRUE]
          /\ UNCHANGED <<serial, life, anyAddr>>
      BY <2>3 DEF Connect
    <3>. QED
      BY <3>1, Opened DEF TypeOK, serial
  <2>4. CASE Listen(o)
    <3>1. /\ o \in life /\ Takes("sock") /\ sock' = [sock EXCEPT ![o] = Lowest]
          /\ UNCHANGED <<serial, life, alive, anyAddr>>
      BY <2>4 DEF Listen
    <3>. QED
      BY <3>1, Opened DEF TypeOK, serial
  <2>5. ASSUME NEW p \in Sockets, Accept(o, p) PROVE TypeOK' /\ NumbersInv'
    <3>1. /\ p \in life /\ Takes("sock") /\ sock' = [sock EXCEPT ![p] = Lowest]
          /\ alive' = [alive EXCEPT ![p] = TRUE]
          /\ anyAddr' = [anyAddr EXCEPT ![p] = FALSE]
          /\ UNCHANGED <<serial, life>>
      BY <2>5 DEF Accept
    <3>. QED
      BY <3>1, Opened DEF TypeOK, serial
  <2>6. CASE Disconnect(o)
    BY <2>6, GivenBack DEF Disconnect
  <2>7. CASE Unmake(o)
    BY <2>7, GivenBack DEF Unmake
  <2>8. ASSUME NEW p \in Sockets, Move(o, p) PROVE TypeOK' /\ NumbersInv'
    <3>1. /\ o \in life /\ p \notin life /\ life' = life \union {p}
          /\ sock' = [sock EXCEPT ![p] = sock[o], ![o] = NoFd]
          /\ alive' = [alive EXCEPT ![p] = alive[o], ![o] = FALSE]
          /\ anyAddr' = [anyAddr EXCEPT ![p] = anyAddr[o]]
          /\ UNCHANGED <<table, serial>>
      BY <2>8 DEF Move
    <3>2. TypeOK'
      BY <3>1 DEF TypeOK, serial
    <3>3. /\ sock'[o] = NoFd /\ sock'[p] = sock[o]
          /\ \A q \in Sockets \ {o, p} : sock'[q] = sock[q]
      BY <3>1 DEF TypeOK
    <3>4. p # o /\ port' = port /\ closeFailed' = closeFailed
      BY <3>1 DEF serial
    <3>5. UnmadeInv'
      BY <3>1, <3>3 DEF NumbersInv, UnmadeInv
    <3>6. OneOwner'
      <4>. SUFFICES ASSUME ~closeFailed PROVE OneOwner'
        BY <3>4 DEF OneOwner
      <4>1. port' # NoFd => table'[port'] = "tty"
        BY <3>1, <3>4 DEF NumbersInv, OneOwner
      <4>2. ASSUME NEW q \in Sockets, sock'[q] # NoFd
            PROVE  /\ table'[sock'[q]] = "sock"
                   /\ \A r \in Sockets \ {q} : sock'[r] # sock'[q]
        <5>1. \A a \in Sockets : sock[a] # NoFd =>
                /\ table[sock[a]] = "sock"
                /\ \A b \in Sockets \ {a} : sock[b] # sock[a]
          BY DEF NumbersInv, OneOwner
        <5>2. table' = table /\ q # o /\ o \in Sockets
          BY <3>1, <3>3, <4>2
        <5>3. CASE q = p
          <6>1. sock'[q] = sock[o] /\ sock[o] # NoFd
            BY <3>3, <4>2, <5>3
          <6>2. ASSUME NEW r \in Sockets \ {q} PROVE sock'[r] # sock[o]
            BY <3>3, <5>1, <5>3, <6>1, <6>2
          <6>. QED
            BY <5>1, <5>2, <6>1, <6>2
        <5>4. CASE q # p
          <6>1. sock'[q] = sock[q] /\ sock[q] # NoFd
            BY <3>3, <4>2, <5>2, <5>4
          <6>2. ASSUME NEW r \in Sockets \ {q} PROVE sock'[r] # sock[q]
            <7>1. sock'[r] \in {sock[r], NoFd} \/ (r = p /\ sock'[r] = sock[o])
              BY <3>3
            <7>. QED
              BY <5>1, <5>2, <6>1, <7>1
          <6>. QED
            BY <5>1, <5>2, <6>1, <6>2
        <5>. QED
          BY <5>3, <5>4
      <4>. QED
        BY <4>1, <4>2 DEF OneOwner
    <3>. QED
      BY <3>2, <3>5, <3>6 DEF NumbersInv
  <2>. QED
    BY <2>1, <2>2, <2>3, <2>4, <2>5, <2>6, <2>7, <2>8 DEF SocketSteps
<1>. QED
  BY <1>2, <1>3

\* Every step keeps the invariant.
LEMMA StepInv == IInv /\ [Next]_vars => IInv'
<1>. SUFFICES ASSUME IInv, [Next]_vars PROVE IInv'
  OBVIOUS
<1>1. CASE ClientSteps
  BY <1>1, ClientStep
<1>2. ASSUME NEW l \in Loops, LoopSteps(l) PROVE IInv'
  <2>1. TypeOK'
    BY <1>2, LoopStep DEF IInv, TypeOK, sockets
  <2>2. NumbersInv'
    BY <1>2, LoopStep, NumbersStay DEF IInv
  <2>3. LoopsInv' /\ TornInv'
    BY <1>2, LoopStep DEF IInv, TypeOK, LoopsInv, TornInv
  <2>. QED
    BY <2>1, <2>2, <2>3 DEF IInv
<1>3. ASSUME NEW o \in Sockets, SocketSteps(o) PROVE IInv'
  BY <1>3, SocketStep
<1>4. CASE UNCHANGED vars
  BY <1>4 DEF vars, serial, sockets, IInv, TypeOK, NumbersInv, OneOwner,
     UnmadeInv, LoopsInv, TornInv
<1>. QED
  BY <1>1, <1>2, <1>3, <1>4 DEF Next

\* The invariant holds in every behaviour of the ports.
LEMMA SpecInv == Spec => []IInv
BY InitInv, StepInv, PTL DEF Spec

-----------------------------------------------------------------------------

\* Every variable keeps to the values the code gives it.
THEOREM TypeCorrect == Spec => []TypeOK
<1>1. IInv => TypeOK
  BY DEF IInv
<1>. QED
  BY <1>1, SpecInv, PTL

\* Unless ::close has failed once under the serial port, a number that an
\* object holds is open, on what the object opened, and held by no other
\* (IO_serial.cpp:268-274, IO_sockets.cpp:251-378, IO_sockets.hpp:72-79).
THEOREM OneOwnerAlways == Spec => []OneOwner
<1>1. IInv => OneOwner
  BY DEF IInv, NumbersInv
<1>. QED
  BY <1>1, SpecInv, PTL

\* Outside a call of open one poll loop is about at most, no call goes on
\* under which _bytes_cb was assigned, and no loop is left after the end of
\* the port (IO_serial.cpp:392-394, :352-380).
THEOREM LoopsEndAlways == Spec => []LoopsEndWithTheirOpen
<1>1. IInv => LoopsEndWithTheirOpen
  <2>. SUFFICES ASSUME IInv PROVE LoopsEndWithTheirOpen
    OBVIOUS
  <2>1. Running \subseteq current
    BY DEF IInv, TypeOK, LoopsInv, Running
  <2>2. \A l \in Loops : loop[l].torn => spc \in {"start", "join"}
    BY DEF IInv, TornInv
  <2>3. CASE spc = "join"
    BY <2>3, <2>2 DEF LoopsEndWithTheirOpen
  <2>4. CASE spc # "join"
    <3>1. CASE Running = {}
      BY <2>2, <3>1, FS_EmptySet DEF LoopsEndWithTheirOpen
    <3>2. CASE Running # {}
      <4>1. PICK l \in Running : TRUE
        BY <3>2
      <4>2. Running = {l} /\ spc # "gone"
        BY <2>1, <2>4, <4>1 DEF IInv, LoopsInv
      <4>3. Cardinality(Running) = 1
        BY <4>2, FS_Singleton
      <4>. QED
        BY <2>2, <4>2, <4>3 DEF LoopsEndWithTheirOpen
    <3>. QED
      BY <3>1, <3>2
  <2>. QED
    BY <2>3, <2>4
<1>. QED
  BY <1>1, SpecInv, PTL

\* A number is lost only by a step of a socket, which had it and has another
\* now, or forgot it in bind.
LEMMA LostStep ==
  IInv /\ [Next]_vars =>
    [\A n \in Lost' \ Lost :
       \E o \in life : /\ sock[o] = n /\ o \in life'
                       /\ sock'[o] # NoFd \/ ~alive[o]]_vars
<1>. SUFFICES ASSUME IInv, Next, NEW n \in Lost' \ Lost
              PROVE  \E o \in life : /\ sock[o] = n /\ o \in life'
                                     /\ sock'[o] # NoFd \/ ~alive[o]
  BY DEF vars
<1>. USE DEF IInv, TypeOK
<1>1. n \in Fds /\ table'[n] = "sock" /\ \A o \in Sockets : sock'[o] # n
  BY DEF Lost
<1>2. table[n] = "sock" => \E o \in Sockets : sock[o] = n
  BY DEF Lost
<1>3. CASE ClientSteps
  <2>1. sock' = sock
    BY <1>3 DEF ClientSteps, Close, OpenBegin, OpenFails, OpenDone,
       AssignCallback, StartLoop, Join, Destroy, DestroyJoin, sockets
  <2>2. table[n] = "sock"
    <3>1. CASE UNCHANGED table
      BY <1>1, <3>1
    <3>2. CASE Takes("tty")
      BY <1>1, <3>2, TakesTable
    <3>3. CASE port # NoFd /\ Frees(port)
      <4>1. port \in Fds
        BY <3>3
      <4>. QED
        BY <1>1, <3>3, <4>1, FreesTable
    <3>. QED
      BY <1>3, <3>1, <3>2, <3>3 DEF ClientSteps, Close, OpenBegin, OpenFails,
         OpenDone, AssignCallback, StartLoop, Join, Destroy, DestroyJoin,
         SerialClosed
  <2>. QED
    BY <1>1, <1>2, <2>1, <2>2
<1>4. ASSUME NEW l \in Loops, LoopSteps(l) PROVE FALSE
  <2>1. UNCHANGED <<table, sockets>>
    BY <1>4, LoopStep
  <2>. QED
    BY <1>1, <1>2, <2>1 DEF sockets
<1>5. ASSUME NEW o \in Sockets, SocketSteps(o)
      PROVE  \E q \in life : /\ sock[q] = n /\ q \in life'
                             /\ sock'[q] # NoFd \/ ~alive[q]
  <2>1. CASE Make(o)
    BY <1>1, <1>2, <2>1 DEF Make
  <2>2. ASSUME NEW any \in BOOLEAN, Bind(o, any)
        PROVE  sock[o] = n /\ o \in life /\ o \in life' /\ ~alive[o]
    BY <1>1, <1>2, <2>2 DEF Bind
  <2>3. ASSUME NEW q \in life, Takes("sock"), life' = life,
               sock' = [sock EXCEPT ![q] = Lowest]
        PROVE  sock[q] = n /\ q \in life' /\ sock'[q] # NoFd
    <3>1. /\ Lowest \in Fds
          /\ \A m \in Fds \ {Lowest} : table'[m] = table[m]
      BY <2>3, TakesTable
    <3>2. sock'[q] = Lowest /\ \A r \in Sockets \ {q} : sock'[r] = sock[r]
      BY <2>3, <3>1
    <3>3. n # Lowest /\ table[n] = "sock"
      BY <1>1, <3>1, <3>2
    <3>. QED
      BY <1>1, <1>2, <2>3, <3>1, <3>2, <3>3, PortsAssumption
  <2>4. CASE Connect(o)
    <3>1. o \in life /\ sock[o] = n /\ o \in life' /\ sock'[o] # NoFd
      BY <2>3, <2>4 DEF Connect
    <3>. QED
      BY <3>1
  <2>5. CASE Listen(o)
    <3>1. o \in life /\ sock[o] = n /\ o \in life' /\ sock'[o] # NoFd
      BY <2>3, <2>5 DEF Listen
    <3>. QED
      BY <3>1
  <2>6. ASSUME NEW p \in Sockets, Accept(o, p)
        PROVE  sock[p] = n /\ p \in life /\ p \in life' /\ sock'[p] # NoFd
    BY <2>3, <2>6 DEF Accept
  <2>7. ASSUME Disconnected(o) PROVE FALSE
    <3>1. sock'[o] = NoFd /\ \A q \in Sockets \ {o} : sock'[q] = sock[q]
      BY <2>7 DEF Disconnected
    <3>2. CASE sock[o] = NoFd
      <4>1. UNCHANGED table
        BY <2>7, <3>2 DEF Disconnected
      <4>. QED
        BY <1>1, <1>2, <3>1, <3>2, <4>1, PortsAssumption
    <3>3. CASE sock[o] # NoFd
      <4>1. sock[o] \in Fds /\ Frees(sock[o])
        BY <2>7, <3>3 DEF Disconnected
      <4>2. n # sock[o] /\ table[n] = "sock"
        BY <1>1, <4>1, FreesTable
      <4>. QED
        BY <1>1, <1>2, <3>1, <4>2
    <3>. QED
      BY <3>2, <3>3
  <2>8. ASSUME NEW p \in Sockets, Move(o, p) PROVE FALSE
    <3>1. /\ p # o /\ sock[p] = NoFd /\ UNCHANGED table
          /\ sock'[o] = NoFd /\ sock'[p] = sock[o]
          /\ \A q \in Sockets \ {o, p} : sock'[q] = sock[q]
      BY <2>8 DEF Move, NumbersInv, UnmadeInv
    <3>. QED
      BY <1>1, <1>2, <3>1, PortsAssumption
  <2>9. ~ Disconnect(o) /\ ~ Unmake(o)
    BY <2>7 DEF Disconnect, Unmake
  <2>10. ASSUME NEW any \in BOOLEAN, Bind(o, any)
         PROVE  \E q \in life : /\ sock[q] = n /\ q \in life'
                                /\ sock'[q] # NoFd \/ ~alive[q]
    BY <2>2, <2>10
  <2>11. ASSUME NEW p \in Sockets, Accept(o, p) \/ Move(o, p)
         PROVE  \E q \in life : /\ sock[q] = n /\ q \in life'
                                /\ sock'[q] # NoFd \/ ~alive[q]
    BY <2>6, <2>8, <2>11
  <2>. HIDE DEF IInv, TypeOK
  <2>. QED
    BY <1>5, <2>1, <2>4, <2>5, <2>9, <2>10, <2>11 DEF SocketSteps
<1>. QED
  BY <1>3, <1>4, <1>5 DEF Next

\* No failure, disconnect, move or destructor loses a descriptor: only a call
\* on an object that has one already does (IO_sockets.cpp:260, :293, :349,
\* :366).
THEOREM LostOnlyByOverwriteAlways == Spec => LostOnlyByOverwrite
BY SpecInv, LostStep, PTL DEF Spec, LostOnlyByOverwrite

=============================================================================
