----------------------------- MODULE BoardDaemons -----------------------------
(* The two daemons of an ESP32 board (ucp/ino/wifi_daemon.hpp and            *)
(* thingsboard_daemon.hpp), with the FreeRTOS task of the second             *)
(* (Dynamic_task, ucp/core.hpp).  Module Daemon knows their hooks as one     *)
(* step that acquires everything or lets go of it; here the hooks are the    *)
(* calls they make, each of which may fail, and res only remembers what the  *)
(* hook has told its caller.                                                 *)
(*                                                                           *)
(* The WiFi library, the MQTT device _dev and the kernel are modelled as the *)
(* daemons use them.  send_attr and send_tlmtr are called by loop_cb alone,  *)
(* and no callback of the task calls back into its own daemon.               *)
EXTENDS Daemon

CONSTANTS Wifi, Tbd,  \* WiFi_Daemon and Thingsboard_Daemon
          VrfCnt      \* vrf_cnt: the attempts of a WiFi start

ASSUME BoardAssumption ==
  Daemons = {Wifi, Tbd} /\ Wifi # Tbd /\ VrfCnt \in Nat

VARIABLES net,      \* the station: "off", "joining" or "up"
          attempt,  \* the attempts of the WiFi start that runs
          link,     \* _dev.connected()
          subs,     \* whose callbacks _rpc and _sattr_update hold
          handle,   \* _tsk_main._handle is not null
          exit,     \* the exit bit of its _flags
          task,     \* where the task is, "none" when there is none
          mark      \* _fota_mark

station == <<net, attempt>>
device  == <<link, subs>>
tasks   == <<handle, exit, task>>
bvars   == <<vars, station, device, tasks, mark>>

BoardInit == /\ Init
             /\ net = "off" /\ attempt = 0
             /\ link = FALSE /\ subs = {}
             /\ handle = FALSE /\ exit = FALSE /\ task = "none"
             /\ mark = TRUE

-----------------------------------------------------------------------------
(* The hooks: a step of one leaves state and the locals of the call alone.   *)

At(c, d, step) == pc[c] = step /\ dmn[c] = d /\ UNCHANGED <<state, locals>>

Proceed(c, step) == Goto(c, step) /\ UNCHANGED res

Acquired(c) == /\ res' = [res EXCEPT ![dmn[c]] = "all"]
               /\ Goto(c, "set_started")

Failed(c) == /\ res' = [res EXCEPT ![dmn[c]] = "part"]
             /\ Goto(c, "fail_stopping")

\* _daemon_stop is called after a start that failed, or by daemon_stop.
Released(c) == /\ res' = [res EXCEPT ![dmn[c]] = "none"]
               /\ Goto(c, IF res[dmn[c]] = "part" THEN "fail_stopped"
                                                  ELSE "set_stopped")

StopBegins(c) == pc[c] \in {"stop_hook", "fail_hook"}

-----------------------------------------------------------------------------
(* WiFi_daemon. *)

WifiBegin(c) ==
  /\ At(c, Wifi, "start_hook")
  /\ \/ Failed(c) /\ UNCHANGED station
     \/ Proceed(c, "wifi_verify") /\ net' = "joining" /\ attempt' = 0
  /\ UNCHANGED <<device, tasks, mark>>

\* The attempts are counted before the connection is looked at.
WifiVerify(c) ==
  /\ At(c, Wifi, "wifi_verify")
  /\ attempt' = attempt + 1
  /\ IF attempt' >= VrfCnt THEN Failed(c)
     ELSE IF net = "up"    THEN Acquired(c)
                           ELSE Proceed(c, "wifi_verify")
  /\ UNCHANGED <<net, device, tasks, mark>>

WifiStop(c) ==
  /\ StopBegins(c)
  /\ At(c, Wifi, pc[c])
  /\ net' = "off"
  /\ Released(c)
  /\ UNCHANGED <<attempt, device, tasks, mark>>

\* The access point is found, or lost: the station reconnects by itself.
Air == /\ \/ net = "joining" /\ net' = "up"
          \/ net = "up" /\ net' = "joining"
       /\ UNCHANGED <<vars, attempt, device, tasks, mark>>

-----------------------------------------------------------------------------
(* Thingsboard_daemon::_daemon_start. *)

\* No dridge, or credentials that are missing.
TbdArgs(c) ==
  /\ At(c, Tbd, "start_hook")
  /\ Failed(c) \/ Proceed(c, "tbd_connect")
  /\ UNCHANGED <<station, device, tasks, mark>>

TbdConnect(c) ==
  /\ At(c, Tbd, "tbd_connect")
  /\ \/ Failed(c) /\ UNCHANGED link
     \/ net = "up" /\ Proceed(c, "tbd_rpc") /\ link' = TRUE
  /\ UNCHANGED <<station, subs, tasks, mark>>

\* Neither list of callbacks is empty.
TbdRpc(c) ==
  /\ At(c, Tbd, "tbd_rpc")
  /\ \/ Failed(c) /\ UNCHANGED subs
     \/ Proceed(c, "tbd_attrs") /\ subs' = subs \cup {"rpc"}
  /\ UNCHANGED <<station, link, tasks, mark>>

\* The request may fail with the subscription made.
TbdAttrs(c) ==
  /\ At(c, Tbd, "tbd_attrs")
  /\ \/ Failed(c) /\ subs' \in {subs, subs \cup {"sattr"}}
     \/ Proceed(c, "tbd_fota") /\ subs' = subs \cup {"sattr"}
  /\ UNCHANGED <<station, link, tasks, mark>>

TbdFota(c) ==
  /\ At(c, Tbd, "tbd_fota")
  /\ \/ Failed(c) /\ UNCHANGED subs
     \/ Proceed(c, "tbd_launch") /\ subs' = subs \cup {"fota"}
  /\ UNCHANGED <<station, link, tasks, mark>>

\* Dynamic_task::launch: the task may run before its handle is stored.
TbdLaunch(c) ==
  /\ At(c, Tbd, "tbd_launch")
  /\ IF handle
     THEN Failed(c) /\ UNCHANGED tasks
     ELSE /\ exit' = FALSE
          /\ UNCHANGED handle
          /\ \/ Failed(c) /\ UNCHANGED task
             \/ Proceed(c, "tbd_handle") /\ task' = "main"
  /\ UNCHANGED <<station, device, mark>>

TbdHandle(c) ==
  /\ At(c, Tbd, "tbd_handle")
  /\ handle' = TRUE
  /\ Acquired(c)
  /\ UNCHANGED <<station, device, exit, task, mark>>

-----------------------------------------------------------------------------
(* Thingsboard_daemon::_daemon_stop. *)

\* Mutant: the task is asked, and not waited for.
TbdWaitExitAsks(c) ==
  /\ StopBegins(c)
  /\ At(c, Tbd, pc[c])
  /\ exit' = handle
  /\ Proceed(c, "tbd_disconnect")
  /\ UNCHANGED <<station, device, handle, task, mark>>

\* Mutant: the task is waited for, and not asked.
TbdWaitExitWaits(c) ==
  /\ StopBegins(c)
  /\ At(c, Tbd, pc[c])
  /\ Proceed(c, IF handle THEN "tbd_join" ELSE "tbd_disconnect")
  /\ UNCHANGED <<station, device, tasks, mark>>

\* Mutant: with no task there is nothing to stop.
TbdWaitExitLeaves(c) ==
  /\ StopBegins(c)
  /\ At(c, Tbd, pc[c])
  /\ exit' = handle
  /\ Proceed(c, IF handle THEN "tbd_join" ELSE "set_stopped")
  /\ UNCHANGED <<station, device, handle, task, mark>>

\* Dynamic_task::wait_exit.
TbdWaitExit(c) ==
  /\ StopBegins(c)
  /\ At(c, Tbd, pc[c])
  /\ IF handle
     THEN exit' = TRUE /\ Proceed(c, "tbd_join")
     ELSE UNCHANGED exit /\ Proceed(c, "tbd_disconnect")
  /\ UNCHANGED <<station, device, handle, task, mark>>

TbdJoin(c) ==
  /\ At(c, Tbd, "tbd_join")
  /\ ~ handle
  /\ Proceed(c, "tbd_disconnect")
  /\ UNCHANGED <<station, device, tasks, mark>>

TbdDisconnect(c) ==
  /\ At(c, Tbd, "tbd_disconnect")
  /\ link' = FALSE
  /\ Proceed(c, "tbd_cleanup")
  /\ UNCHANGED <<station, subs, tasks, mark>>

\* Mutant: the subscriptions are kept for the next start.
TbdCleanupNothing(c) ==
  /\ At(c, Tbd, "tbd_cleanup")
  /\ Released(c)
  /\ UNCHANGED <<station, device, tasks, mark>>

TbdCleanup(c) ==
  /\ At(c, Tbd, "tbd_cleanup")
  /\ subs' = {}
  /\ Released(c)
  /\ UNCHANGED <<station, link, tasks, mark>>

Hooks(c) ==
  \/ WifiBegin(c) \/ WifiVerify(c) \/ WifiStop(c)
  \/ TbdArgs(c) \/ TbdConnect(c) \/ TbdRpc(c) \/ TbdAttrs(c) \/ TbdFota(c)
  \/ TbdLaunch(c) \/ TbdHandle(c)
  \/ TbdWaitExit(c) \/ TbdJoin(c) \/ TbdDisconnect(c) \/ TbdCleanup(c)

-----------------------------------------------------------------------------
(* The task: Dynamic_task::_main, and the code of the daemon within it.      *)

Step(from, to) == task = from /\ task' = to /\ UNCHANGED <<vars, station>>

Main == /\ Step("main", IF exit THEN "ended" ELSE "code")
        /\ UNCHANGED <<device, handle, exit, mark>>

\* should_return and daemon_is_positive, then the delay.
Code ==
  /\ Step("code", IF exit \/ state[Tbd] \notin {"STARTED", "STARTING"}
                  THEN "main" ELSE "connected")
  /\ UNCHANGED <<device, handle, exit, mark>>

\* Both loads come at once: the mark is only written by this task.
Connected ==
  /\ Step("connected", IF ~ link THEN "code" ELSE IF mark THEN "update" ELSE "loop")
  /\ UNCHANGED <<device, handle, exit, mark>>

\* Start_Firmware_Update, whatever it answers, and then the mark goes.
Update == /\ Step("update", "loop")
          /\ mark' = FALSE
          /\ UNCHANGED <<device, handle, exit>>

Announced == mark' \in IF "fota" \in subs THEN {mark, TRUE} ELSE {mark}

\* _dev.loop() runs the callbacks of what has come in, among them the one of
\* a new firmware.
Loop == /\ Step("loop", "callback")
        /\ Announced
        /\ UNCHANGED <<device, handle, exit>>

\* Mutant: the mark goes when the iteration ends.
CallbackUnmarks == /\ Step("callback", "code")
                   /\ mark' = FALSE
                   /\ UNCHANGED <<device, handle, exit>>

\* loop_cb sends, and then loops the device itself.
Callback == /\ Step("callback", "code")
            /\ Announced
            /\ UNCHANGED <<device, handle, exit>>

Ended == /\ Step("ended", "none")
         /\ handle' = FALSE
         /\ UNCHANGED <<device, exit, mark>>

TaskSteps == \/ Main \/ Code \/ Connected \/ Update \/ Loop
             \/ Callback \/ Ended

\* The server, or the station, loses the connection.
Drop == /\ link
        /\ link' = FALSE
        /\ UNCHANGED <<vars, station, subs, tasks, mark>>

-----------------------------------------------------------------------------

\* What module Daemon says of a call, its hooks excepted.
Control(c) ==
  /\ \/ StartCas(c) \/ StartRefused(c) \/ SetStarted(c) \/ StartProc(c)
     \/ FailStopping(c) \/ FailStopped(c)
     \/ StopCas(c) \/ StopRefused(c) \/ SetStopped(c) \/ StopProc(c)
  /\ UNCHANGED <<station, device, tasks, mark>>

\* The threads start, stop and restart; waiting is left to module Daemon.
BoardCall(c) ==
  /\ \E d \in Daemons : \/ CallStart(c, d)
                       \/ \E restart \in BOOLEAN : CallStop(c, d, restart)
  /\ UNCHANGED <<station, device, tasks, mark>>

BoardNext == \/ \E c \in Callers : BoardCall(c) \/ Control(c) \/ Hooks(c)
             \/ TaskSteps \/ Air \/ Drop

\* Once daemon_stop has made its CAS, and until it has set the exit bit, the
\* task goes round without a delay, at the highest priority there is.
Spins == task \in {"main", "code"} /\ ~ exit
           /\ state[Tbd] \notin {"STARTED", "STARTING"}

(* The task is scheduled: nothing has a higher priority.  A call that has    *)
(* begun goes on, as its library calls return, but while the task spins it   *)
(* may be kept off its core.                                                 *)
BoardFairness ==
  /\ WF_bvars(TaskSteps)
  /\ \A c \in Callers : WF_bvars(~ Spins /\ (Control(c) \/ Hooks(c)))

BoardSpec == BoardInit /\ [][BoardNext]_bvars /\ BoardFairness

-----------------------------------------------------------------------------

BoardSteps == {"wifi_verify", "tbd_connect", "tbd_rpc", "tbd_attrs", "tbd_fota",
               "tbd_launch", "tbd_handle", "tbd_join", "tbd_disconnect",
               "tbd_cleanup"}

BoardTypeOK ==
  /\ state \in [Daemons -> States]
  /\ pc \in [Callers -> Steps \cup BoardSteps]
  /\ net \in {"off", "joining", "up"}
  /\ attempt \in Nat
  /\ link \in BOOLEAN /\ handle \in BOOLEAN /\ exit \in BOOLEAN
  /\ mark \in BOOLEAN
  /\ subs \subseteq {"rpc", "sattr", "fota"}
  /\ task \in {"none", "main", "code", "connected", "update", "loop",
               "callback", "ended"}

\* The hook a caller is in.
HookOf(c) ==
  CASE pc[c] \in {"wifi_verify", "tbd_connect", "tbd_rpc", "tbd_attrs",
                  "tbd_fota", "tbd_launch", "tbd_handle"} -> "start_hook"
    [] pc[c] \in {"tbd_join", "tbd_disconnect", "tbd_cleanup"} ->
         IF res[dmn[c]] = "part" THEN "fail_hook" ELSE "stop_hook"
    [] OTHER -> pc[c]

\* The service as Daemon promises it: what its hooks do is one step each.
Service == INSTANCE Daemon WITH pc <- [c \in Callers |-> HookOf(c)]

\* The board implements the daemons of module Daemon: every step of a hook,
\* of the task or of the air is one of its steps or none of them
\* (daemon.hpp:76-108).
ImplementsDaemon == Service!Init /\ [][Service!Next]_(Service!vars)

Holding == handle \/ task # "none" \/ link \/ subs # {}

\* STARTED and STOPPED tell what the board really holds.  A daemon that is
\* STARTED has its task and its subscriptions or its station; one that is
\* STOPPED has no task, connection, subscription or station left, whichever
\* call of the start had failed (thingsboard_daemon.hpp:138-253,
\* wifi_daemon.hpp:50-83).
StateTellsBoard ==
  /\ state[Tbd] = "STARTED" => handle /\ task # "none" /\ "fota" \in subs
  /\ state[Tbd] = "STOPPED" => ~ Holding
  /\ state[Wifi] = "STARTED" => net # "off"
  /\ state[Wifi] = "STOPPED" => net = "off"

CallerUses(c) == pc[c] \in {"tbd_connect", "tbd_rpc", "tbd_attrs", "tbd_fota",
                            "tbd_disconnect", "tbd_cleanup"}
TaskUses == task \in {"connected", "update", "loop", "callback"}

\* _dev has no lock, and yet no two threads are in it: a start subscribes
\* before it launches the task, and a stop disconnects after the task has
\* ended (thingsboard_daemon.hpp:208, :247-250).
OneUsesDevice ==
  \A c \in Callers : CallerUses(c) =>
    ~ TaskUses /\ \A e \in Callers \ {c} : ~ CallerUses(e)

\* The task spins, and who would set its exit bit has not come to it.
Starved == Spins /\ \E c \in Callers : dmn[c] = Tbd /\ StopBegins(c)

\* Every start and every stop of the Thingsboard daemon ends, also the stop
\* that waits for the task to see its exit bit, however threads interleave --
\* unless the spinning task keeps the stop from ever setting that bit, which
\* the code does not rule out (core.hpp:78-86, :100-101,
\* thingsboard_daemon.hpp:210).
TbdSettles ==
  [](state[Tbd] \in {"STARTING", "STOPPING"} =>
       <>(state[Tbd] \in {"STARTED", "STOPPED"} \/ []Starved))

\* A firmware that was announced is asked for, unless the connection or the
\* daemon goes first; an announcement that comes while the last one is dealt
\* with is not lost (thingsboard_daemon.hpp:196, :215-232).
AnnouncedIsTried == mark ~> (task = "update" \/ ~ link \/ state[Tbd] # "STARTED")
=============================================================================
