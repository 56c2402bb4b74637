-------------------------------- MODULE Ports --------------------------------
(* The ports of osp that live on file descriptors: a Fasttrack_serial with   *)
(* its poll thread (IO_serial.hpp, IO_serial.cpp) and IPv4_TCP_socket        *)
(* objects (IO_sockets.hpp, IO_sockets.cpp), in one process and over one     *)
(* table of descriptors, whose numbers the kernel gives out again, the       *)
(* lowest free one first.                                                    *)
(*                                                                           *)
(* What is read and written is left out, and so are the termios settings.    *)
(* One client thread drives the serial port and others the sockets; a socket *)
(* call is one step, as nothing it shares is touched in between.             *)
EXTENDS Naturals, FiniteSets

CONSTANTS Fds,      \* the numbers the kernel may give, a set of naturals
          Sockets,  \* the IPv4_TCP_socket objects
          Loops,    \* the poll threads that may exist at a time
          NoFd      \* -1

ASSUME PortsAssumption == Fds \subseteq Nat /\ NoFd \notin Fds

VARIABLES table,   \* the kernel's: what each number is open on
          port,    \* _port of the serial port
          spc,     \* where its client is
          loop,    \* the poll threads: what each does, its pfd.fd, and, as
                   \* history, whether _bytes_cb was assigned under its call
          current, \* _poll_th
          closeFailed, \* history: ::close of the serial port has failed
          life,    \* the sockets that are constructed
          sock,    \* _sock
          alive,   \* _conn.alive
          anyAddr  \* _conn.addr is 0:0:0:0

serial  == <<port, spc, loop, current, closeFailed>>
sockets == <<life, sock, alive, anyAddr>>
vars    == <<table, serial, sockets>>

NoLoop == [pc |-> "off", fd |-> NoFd, stop |-> FALSE, torn |-> FALSE]

Init == /\ table = [n \in Fds |-> "free"]
        /\ port = NoFd /\ spc = "idle" /\ closeFailed = FALSE
        /\ loop = [l \in Loops |-> NoLoop]
        /\ current = {}
        /\ life = {}
        /\ sock = [o \in Sockets |-> NoFd]
        /\ alive = [o \in Sockets |-> FALSE]
        /\ anyAddr = [o \in Sockets |-> TRUE]

Free == {n \in Fds : table[n] = "free"}
Lowest == CHOOSE n \in Free : \A m \in Free : n <= m
Takes(kind) == /\ Free # {}
               /\ table' = [table EXCEPT ![Lowest] = kind]
Frees(n) == table' = [table EXCEPT ![n] = "free"]

-----------------------------------------------------------------------------
(* Fasttrack_serial: the client. *)

\* Serial::close on an open port.  The kernel frees the number even if it
\* reports an error, and then _port keeps it.
SerialClosed(next, failed) ==
  /\ Frees(port)
  /\ \/ port' = NoFd /\ spc' = next /\ closeFailed' = closeFailed
     \/ port' = port /\ spc' = failed /\ closeFailed' = TRUE

Close ==
  /\ spc = "idle"
  /\ port # NoFd
  /\ SerialClosed("idle", "idle")
  /\ UNCHANGED <<loop, current, sockets>>

\* Serial::open begins with the close of a port that is open, and gives up if
\* that fails.
OpenBegin ==
  /\ spc = "idle"
  /\ IF port = NoFd THEN spc' = "open" /\ UNCHANGED <<table, port, closeFailed>>
                    ELSE SerialClosed("open", "idle")
  /\ UNCHANGED <<loop, current, sockets>>

\* Bad argument, ::open, or the settings fail: the number is closed again.
OpenFails ==
  /\ spc = "open"
  /\ spc' = "idle"
  /\ UNCHANGED <<table, port, loop, current, closeFailed, sockets>>

OpenDone ==
  /\ spc = "open"
  /\ Takes("tty")
  /\ port' = Lowest
  /\ spc' = "assign"
  /\ UNCHANGED <<loop, current, closeFailed, sockets>>

\* _bytes_cb is assigned while the loop of an earlier open goes on, which may
\* be calling it.
AssignCallback ==
  /\ spc = "assign"
  /\ loop' = [l \in Loops |->
                [loop[l] EXCEPT !.torn = loop[l].pc = "callback"]]
  /\ spc' = "start"
  /\ UNCHANGED <<table, port, current, closeFailed, sockets>>

StopLoops(f) == [l \in Loops |-> IF l \in current
                                 THEN [f[l] EXCEPT !.stop = TRUE] ELSE f[l]]

\* The new jthread runs before it is moved into _poll_th, which stops and then
\* joins the one that was there.
StartLoop ==
  /\ spc = "start"
  /\ \E l \in Loops :
       /\ loop[l].pc = "off"
       /\ loop' = [StopLoops(loop) EXCEPT
                     ![l] = [NoLoop EXCEPT !.pc = "begin"]]
       /\ current' = current \union {l}
  /\ spc' = "join"
  /\ UNCHANGED <<table, port, closeFailed, sockets>>

\* Mutant: the thread that was there is not joined.
JoinNothing ==
  /\ spc = "join"
  /\ loop' = [l \in Loops |-> IF loop[l].pc = "ended" THEN NoLoop ELSE loop[l]]
  /\ current' = {l \in current : ~loop[l].stop}
  /\ spc' = "idle"
  /\ UNCHANGED <<table, port, closeFailed, sockets>>

Join ==
  /\ spc = "join"
  /\ \A l \in current : loop[l].stop => loop[l].pc = "ended"
  /\ loop' = [l \in Loops |-> IF l \in current /\ loop[l].stop THEN NoLoop
                              ELSE loop[l]]
  /\ current' = {l \in current : ~loop[l].stop}
  /\ spc' = "idle"
  /\ UNCHANGED <<table, port, closeFailed, sockets>>

\* The destructor: the members of Fasttrack_serial go first, so the thread is
\* stopped and joined, and then ~Serial closes the port.
Destroy ==
  /\ spc = "idle"
  /\ loop' = StopLoops(loop)
  /\ spc' = "unmake"
  /\ UNCHANGED <<table, port, current, closeFailed, sockets>>

DestroyJoin ==
  /\ spc = "unmake"
  /\ \A l \in current : loop[l].pc = "ended"
  /\ loop' = [l \in Loops |-> NoLoop]
  /\ current' = {}
  /\ IF port = NoFd THEN spc' = "gone" /\ UNCHANGED <<table, port, closeFailed>>
                    ELSE SerialClosed("gone", "gone")
  /\ UNCHANGED sockets

-----------------------------------------------------------------------------
(* _poll_loop. *)

Goto(l, step) == loop' = [loop EXCEPT ![l].pc = step]

\* pfd.fd is copied once.
LoopBegin(l) ==
  /\ loop[l].pc = "begin"
  /\ loop' = [loop EXCEPT ![l].pc = "head", ![l].fd = port]
  /\ UNCHANGED <<table, port, spc, current, closeFailed, sockets>>

LoopHead(l) ==
  /\ loop[l].pc = "head"
  /\ Goto(l, IF loop[l].stop THEN "ended" ELSE "poll")
  /\ UNCHANGED <<table, port, spc, current, closeFailed, sockets>>

\* Mutant: the poll waits for bytes for ever.
PollForever(l) ==
  /\ loop[l].pc = "poll"
  /\ loop[l].fd # NoFd
  /\ table[loop[l].fd] # "free"
  /\ Goto(l, "read")
  /\ UNCHANGED <<table, port, spc, current, closeFailed, sockets>>

\* A timeout after 500 ms, or POLLNVAL for a number that is not open, and the
\* loop goes round; bytes to read; or a hangup or an error, which ends it.
Poll(l) ==
  /\ loop[l].pc = "poll"
  /\ \/ Goto(l, "head")
     \/ /\ loop[l].fd # NoFd
        /\ table[loop[l].fd] # "free"
        /\ Goto(l, "read") \/ Goto(l, "ended")
  /\ UNCHANGED <<table, port, spc, current, closeFailed, sockets>>

\* The bytes are read from _port, whatever was polled; none, and no callback,
\* if it is closed.
Read(l) ==
  /\ loop[l].pc = "read"
  /\ Goto(l, IF port = NoFd THEN "head" ELSE "callback")
  /\ UNCHANGED <<table, port, spc, current, closeFailed, sockets>>

Callback(l) ==
  /\ loop[l].pc = "callback"
  /\ loop' = [loop EXCEPT ![l].pc = "head", ![l].torn = FALSE]
  /\ UNCHANGED <<table, port, spc, current, closeFailed, sockets>>

-----------------------------------------------------------------------------
(* IPv4_TCP_socket. *)

Make(o) ==
  /\ o \notin life
  /\ life' = life \union {o}
  /\ UNCHANGED <<table, serial, sock, alive, anyAddr>>

\* bind drops whatever descriptor there is, unless the socket is connected.
Bind(o, any) ==
  /\ o \in life
  /\ ~alive[o]
  /\ sock' = [sock EXCEPT ![o] = NoFd]
  /\ anyAddr' = [anyAddr EXCEPT ![o] = any]
  /\ UNCHANGED <<table, serial, life, alive>>

\* Mutant: a connect that fails keeps its descriptor.
ConnectLeaks(o) ==
  /\ o \in life
  /\ Takes("sock")
  /\ \/ sock' = [sock EXCEPT ![o] = Lowest] /\ alive' = [alive EXCEPT ![o] = TRUE]
     \/ UNCHANGED <<sock, alive>>
  /\ UNCHANGED <<serial, life, anyAddr>>

\* A connect that fails closes the descriptor it made: nothing changes.
Connect(o) ==
  /\ o \in life
  /\ Takes("sock")
  /\ sock' = [sock EXCEPT ![o] = Lowest]
  /\ alive' = [alive EXCEPT ![o] = TRUE]
  /\ UNCHANGED <<serial, life, anyAddr>>

Listen(o) ==
  /\ o \in life
  /\ anyAddr[o]
  /\ Takes("sock")
  /\ sock' = [sock EXCEPT ![o] = Lowest]
  /\ UNCHANGED <<serial, life, alive, anyAddr>>

\* accept on o into p; it fails unless o listens.
Accept(o, p) ==
  /\ {o, p} \subseteq life
  /\ sock[o] # NoFd /\ ~alive[o]
  /\ Takes("sock")
  /\ sock' = [sock EXCEPT ![p] = Lowest]
  /\ alive' = [alive EXCEPT ![p] = TRUE]
  /\ anyAddr' = [anyAddr EXCEPT ![p] = FALSE]
  /\ UNCHANGED <<serial, life>>

\* disconnect, as a call or in the destructor.
Disconnected(o) ==
  /\ alive' = [alive EXCEPT ![o] = FALSE]
  /\ sock' = [sock EXCEPT ![o] = NoFd]
  /\ IF sock[o] = NoFd
     THEN UNCHANGED <<table, anyAddr>>
     ELSE Frees(sock[o]) /\ anyAddr' = [anyAddr EXCEPT ![o] = TRUE]

Disconnect(o) ==
  /\ o \in life
  /\ Disconnected(o)
  /\ UNCHANGED <<serial, life>>

Unmake(o) ==
  /\ o \in life
  /\ life' = life \ {o}
  /\ Disconnected(o)
  /\ UNCHANGED serial

\* Mutant: the descriptor is copied, not exchanged.
MoveCopies(o, p) ==
  /\ o \in life /\ p \notin life
  /\ life' = life \union {p}
  /\ sock' = [sock EXCEPT ![p] = sock[o]]
  /\ alive' = [alive EXCEPT ![p] = alive[o], ![o] = FALSE]
  /\ anyAddr' = [anyAddr EXCEPT ![p] = anyAddr[o]]
  /\ UNCHANGED <<table, serial>>

\* p is constructed from o, which keeps its address.
Move(o, p) ==
  /\ o \in life /\ p \notin life
  /\ life' = life \union {p}
  /\ sock' = [sock EXCEPT ![p] = sock[o], ![o] = NoFd]
  /\ alive' = [alive EXCEPT ![p] = alive[o], ![o] = FALSE]
  /\ anyAddr' = [anyAddr EXCEPT ![p] = anyAddr[o]]
  /\ UNCHANGED <<table, serial>>

-----------------------------------------------------------------------------

ClientSteps == \/ Close \/ OpenBegin \/ OpenFails \/ OpenDone \/ AssignCallback
               \/ StartLoop \/ Join \/ Destroy \/ DestroyJoin
LoopSteps(l) == \/ LoopBegin(l) \/ LoopHead(l) \/ Poll(l) \/ Read(l)
                \/ Callback(l)
SocketSteps(o) == \/ Make(o) \/ Connect(o) \/ Listen(o)
                  \/ Disconnect(o) \/ Unmake(o)
                  \/ \E any \in BOOLEAN : Bind(o, any)
                  \/ \E p \in Sockets : Accept(o, p) \/ Move(o, p)

Next == \/ ClientSteps
        \/ \E l \in Loops : LoopSteps(l)
        \/ \E o \in Sockets : SocketSteps(o)

\* The poll threads are scheduled, and a thread that has begun to wait in a
\* join goes on when it may.
Fairness == /\ \A l \in Loops : WF_vars(LoopSteps(l))
            /\ WF_vars(Join \/ DestroyJoin)

Spec == Init /\ [][Next]_vars /\ Fairness

-----------------------------------------------------------------------------

TypeOK ==
  /\ table \in [Fds -> {"free", "tty", "sock"}]
  /\ port \in Fds \union {NoFd}
  /\ spc \in {"idle", "open", "assign", "start", "join", "unmake", "gone"}
  /\ loop \in [Loops -> [pc : {"off", "begin", "head", "poll", "read",
                               "callback", "ended"},
                         fd : Fds \union {NoFd},
                         stop : BOOLEAN, torn : BOOLEAN]]
  /\ current \subseteq Loops
  /\ closeFailed \in BOOLEAN
  /\ life \subseteq Sockets
  /\ sock \in [Sockets -> Fds \union {NoFd}]
  /\ alive \in [Sockets -> BOOLEAN]
  /\ anyAddr \in [Sockets -> BOOLEAN]

\* Every number an object holds is open and on what the object opened, and no
\* two objects hold the same, through every order of calls and moves and with
\* the kernel giving numbers out again; unless ::close has failed once under
\* the serial port, which then keeps a number it no longer owns
\* (IO_serial.cpp:268-274, IO_sockets.cpp:251-378, IO_sockets.hpp:72-79).
OneOwner ==
  closeFailed \/
    /\ port # NoFd => table[port] = "tty"
    /\ \A o \in Sockets : sock[o] # NoFd =>
         /\ table[sock[o]] = "sock"
         /\ \A p \in Sockets \ {o} : sock[p] # sock[o]

Lost == {n \in Fds : table[n] = "sock" /\ \A o \in Sockets : sock[o] # n}

\* A descriptor is lost, open with no object to close it, only by a call on
\* an object that has one already: bind on one that is not connected, or
\* connect, listen or accept over it.  No failure, disconnect, move or
\* destructor loses one (IO_sockets.cpp:260, :293, :349, :366).
LostOnlyByOverwrite ==
  [][\A n \in Lost' \ Lost :
       \E o \in life : /\ sock[o] = n /\ o \in life'
                       /\ sock'[o] # NoFd \/ ~alive[o]]_vars

Running == {l \in Loops : loop[l].pc \notin {"off", "ended"}}

\* What an open over an open port brings about stays inside that open.  The
\* loop it replaces goes on until the join: it may be inside the callback
\* when _bytes_cb is assigned, and call the new one beside the new loop.  But
\* when open returns, the call the assignment ran into is over and one loop
\* alone is left; and none is once the port is destroyed.  A close leaves the
\* loop polling (IO_serial.cpp:392-394, :352-380, IO_serial.hpp:127-128).
LoopsEndWithTheirOpen ==
  /\ Cardinality(Running) > 1 => spc = "join"
  /\ \A l \in Loops : loop[l].torn => spc \in {"start", "join"}
  /\ spc = "gone" => Running = {}

\* An open that replaces a poll loop, and the destructor, return: the loop
\* they wait for sees its stop token, whatever it polls
\* (IO_serial.cpp:352-353, :394).
StopIsSeen == spc \in {"join", "unmake"} ~> spc \in {"idle", "gone"}
=============================================================================
