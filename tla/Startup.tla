------------------------------ MODULE Startup ------------------------------
(* The life of the server's process: amora_context_new with each of its     *)
(* failures, the D-Bus watch that it registers with the event loop, the     *)
(* loop as far as it serves that watch and one phone, and the end, in the   *)
(* command line program (main.c) and in the applet, whose main thread may   *)
(* end it while the server's own thread runs.                               *)
(*                                                                          *)
(* Descriptors are what the parts have in common: open() and socket() take  *)
(* the lowest free one, and whoever closes the wrong number closes a part   *)
(* of somebody else's.                                                      *)
EXTENDS Integers, FiniteSets

CONSTANTS
    NULL,
    FD_SETSIZE,    \* bound: there are descriptors enough for all that is opened
    Programs,      \* which programs to look at, of "command_line" and "applet"
    HciArgs,       \* what the option -i may say; without it, -1
    Routes,        \* the adapters that hci_get_route may find
    Failures,      \* the calls that may fail, of FailureNames
    SelectMayFail

FailureNames == {"log", "device", "display", "sd", "hci", "socket", "bus", "filter", "match", "listen", "accept"}
Field == {"log", "display", "session", "device_socket", "server_socket", "conn"}
Standard == {"stdin", "stdout", "stderr"}
Kind == Field \cup Standard \cup {"client"}     \* what a descriptor may refer to
Callback == {"server_socket_cb", "client_socket_cb", "dispatch"}
NoFd  == -1     \* NULL, or never opened
Freed == -2     \* released, and the field not reset

(* What the bus may bring: the removal of the server's own adapter or of    *)
(* another one, or a call that libdbus answers by itself.                   *)
Message == {"removed", "other_removed", "ping"}

ASSUME FailureAssumption == Failures \subseteq FailureNames
ASSUME ArgsAssumption == HciArgs \subseteq Nat /\ Routes \subseteq Nat
ASSUME NullAssumption == NULL \notin Kind \cup Callback
ASSUME LoopAssumption == FD_SETSIZE \in Nat \ {0} /\ SelectMayFail \in BOOLEAN

VARIABLES
    readfds, callback, nfds, context, ready, i, ret, pc,   \* the event loop
    args,            \* program, log file and -i, as they were asked for
    at,              \* where the thread of the server is
    owner,           \* the kernel's table: what each descriptor refers to
    fd,              \* the descriptor behind each field of the context, and conn
    hci_id,          \* sd->hci_id
    task,            \* where the running callback is
    bus,             \* messages that wait on the bus connection
    inbox,           \* messages that libdbus has read and not dispatched
    dongle_removed,
    deleted,         \* how far amora_context_delete is: 0, 1 or 2
    phone

loopVars == <<readfds, callback, nfds, context, ready, i, ret, pc>>
tableVars == <<owner, fd, hci_id>>
busVars == <<inbox, dongle_removed>>
world == <<bus, phone>>
vars == <<loopVars, args, at, tableVars, task, busVars, deleted, world>>

Fd == 0 .. FD_SETSIZE - 1

(* What select() would report. *)
Readable ==
    {f \in Fd : \/ owner[f] = "conn" /\ bus # {}
                \/ owner[f] = "server_socket" /\ phone = "calling"
                \/ owner[f] = "client" /\ phone = "gone"}

Loop == INSTANCE EventLoop WITH
    Context  <- {"amora"},
    io <- Readable

Lowest(f) == owner[f] = NULL /\ \A g \in Fd : owner[g] = NULL => f <= g

Opened(r) ==
    \E f \in Fd :
        /\ Lowest(f)
        /\ owner' = [owner EXCEPT ![f] = r]
        /\ fd' = [fd EXCEPT ![r] = f]

(* Fields are closed and keep their value. *)
Closed(R) ==
    LET open == {r \in R : fd[r] # NoFd}
    IN  /\ owner' = [f \in Fd |-> IF \E r \in open : fd[r] = f THEN NULL ELSE owner[f]]
        /\ fd' = [r \in Field |-> IF r \in open THEN Freed ELSE fd[r]]

----------------------------------------------------------------------------
(* amora_context_new.                                                       *)

(* Mutant of After: the socket is registered before the bus is set up. *)
AfterSocketFirst ==
    [log |-> "device", device |-> "display", display |-> "sd", sd |-> "hci", hci |-> "socket",
     socket |-> "register", register |-> "bus", bus |-> "start"]

After ==
    [log |-> "device", device |-> "display", display |-> "sd", sd |-> "hci", hci |-> "socket",
     socket |-> "bus", bus |-> "register", register |-> "start"]

Done(step) == at = step /\ at' = After[step]
Fails(step, call, to) == at = step /\ call \in Failures /\ at' = to

Building == UNCHANGED <<args, task, busVars, deleted, world>>
Elsewhere == Building /\ UNCHANGED loopVars

(* log_build_resources; without a file name the log stays NULL. *)
BuildLog ==
    /\ \/ Done("log") /\ args.logfile /\ Opened("log")
       \/ Done("log") /\ ~args.logfile /\ UNCHANGED <<owner, fd>>
       \/ Fails("log", "log", "cleanup") /\ args.logfile /\ UNCHANGED <<owner, fd>>
    /\ Elsewhere /\ UNCHANGED hci_id

CheckDevice ==
    /\ Done("device") \/ Fails("device", "device", "cleanup")
    /\ Elsewhere /\ UNCHANGED tableVars

ConstructDisplay ==
    /\ \/ Done("display") /\ Opened("display")
       \/ Fails("display", "display", "cleanup") /\ UNCHANGED <<owner, fd>>
    /\ Elsewhere /\ UNCHANGED hci_id

(* build_sd and describe_service.  The connection to the SDP daemon is kept *)
(* when only the registration fails, and destroy_sd closes it.              *)
DescribeService ==
    /\ \/ Done("sd") /\ Opened("session")
       \/ Fails("sd", "sd", "destroy") /\ Opened("session")
       \/ Fails("sd", "sd", "destroy") /\ UNCHANGED <<owner, fd>>
    /\ Elsewhere /\ UNCHANGED hci_id

(* build_bluetooth_socket, to hci_close_dev(sd->hci_id), which is close():  *)
(* it closes the descriptor whose number is that of the adapter.            *)
OpenDevice ==
    /\ \/ /\ Done("hci")
          /\ hci_id' \in IF args.hci = -1 THEN Routes ELSE {args.hci}
          /\ \E f \in Fd :
              /\ Lowest(f)
              /\ fd' = [fd EXCEPT !["device_socket"] = f]
              /\ owner' = [g \in Fd |-> IF g = hci_id' THEN NULL ELSE IF g = f THEN "device_socket" ELSE owner[g]]
       \/ Fails("hci", "hci", "destroy") /\ UNCHANGED tableVars
    /\ Elsewhere

(* Mutant of BuildSocket: what bind() refuses is closed, and still returned. *)
BuildSocketClosed ==
    /\ \/ Done("socket") /\ Opened("server_socket")
       \/ /\ Done("socket") /\ "socket" \in Failures
          /\ \E f \in Fd : Lowest(f) /\ fd' = [fd EXCEPT !["server_socket"] = f]
          /\ UNCHANGED owner
    /\ Elsewhere /\ UNCHANGED hci_id

(* build_bluetooth_socket, from socket(): what bind() refuses is closed.    *)
BuildSocket ==
    /\ \/ Done("socket") /\ Opened("server_socket")
       \/ Fails("socket", "socket", "destroy") /\ UNCHANGED <<owner, fd>>
    /\ Elsewhere /\ UNCHANGED hci_id

(* libdbus adds a watch for reading, enabled, and one for writing, disabled, *)
(* of the same descriptor; add_watch registers the first, with no context.  *)
add_watch(f) == Loop!Add(f, NULL, "dispatch")

(* dbus_init.  Without memory for the filter it returns 0 and has no watch; *)
(* a match rule refused by the bus is an error, and leaves the watch.       *)
DbusInit ==
    /\ \/ /\ Done("bus") \/ Fails("bus", "match", "destroy")
          /\ \E f \in Fd : Lowest(f) /\ add_watch(f)
          /\ Opened("conn")
       \/ Done("bus") /\ "filter" \in Failures /\ Opened("conn") /\ UNCHANGED loopVars
       \/ Fails("bus", "bus", "destroy") /\ UNCHANGED <<owner, fd, loopVars>>
    /\ Building /\ UNCHANGED hci_id

RegisterServer ==
    /\ Done("register")
    /\ Loop!Add(fd["server_socket"], "amora", "server_socket_cb")
    /\ Building /\ UNCHANGED tableVars

(* The label destroy: the sockets and the connection to the bus stay open.  *)
Destroy ==
    /\ at = "destroy"
    /\ at' = "cleanup"
    /\ Closed({"display", "session", "log"})
    /\ Elsewhere /\ UNCHANGED hci_id

(* The label cleanup: there is no context, and both programs exit.          *)
Cleanup ==
    /\ at = "cleanup"
    /\ at' = "exited"
    /\ Elsewhere /\ UNCHANGED tableVars

ContextNew ==
    \/ BuildLog \/ CheckDevice \/ ConstructDisplay \/ DescribeService \/ OpenDevice \/ BuildSocket
    \/ DbusInit \/ RegisterServer \/ Destroy \/ Cleanup

(* log_message with both destinations: what it writes to, if there is a log. *)
log_message == IF fd["log"] = NoFd THEN {} ELSE {owner[f] : f \in Fd \cap {fd["log"], 1}}

----------------------------------------------------------------------------
(* amora_start and the loop.                                                *)

Start ==
    /\ at = "start"
    /\ \/ at' = "loop" /\ Loop!Enter
       \/ at' = "ended" /\ "listen" \in Failures /\ UNCHANGED loopVars
    /\ Building /\ UNCHANGED tableVars

LoopStep ==
    /\ at = "loop"
    /\ Loop!Select \/ Loop!SelectFails \/ Loop!Dispatch \/ Loop!LeaveWhenEmpty \/ Loop!NextPass
    /\ at' = IF pc' = "stopped" THEN "ended" ELSE "loop"
    /\ Building /\ UNCHANGED tableVars

In(cb, t) == at = "loop" /\ pc = "callback" /\ task = t /\ (t = "idle" => callback[i] = cb)

(* dispatch: all that has come is read. *)
ReadBus ==
    /\ In("dispatch", "idle")
    /\ bus # {}
    /\ task' = "dispatching"
    /\ inbox' = bus
    /\ bus' = {}
    /\ UNCHANGED <<loopVars, args, at, tableVars, dongle_removed, deleted, phone>>

(* The watch for writing is enabled when there is an answer to send, and    *)
(* disabled when it is sent.  toggle_watch takes the first for a request to *)
(* remove, by descriptor, and add_watch does not take the second.           *)
toggle_watch == Loop!Remove(fd["conn"])

(* Mutant of signal_handler: the last signal decides. *)
signal_handler_last(m) == dongle_removed' = (m = "removed")

signal_handler(m) == dongle_removed' = (dongle_removed \/ m = "removed")

DispatchMessage ==
    /\ In("dispatch", "dispatching")
    /\ \E m \in inbox :
        /\ inbox' = inbox \ {m}
        /\ IF m = "ping" THEN toggle_watch /\ UNCHANGED dongle_removed
                         ELSE signal_handler(m) /\ UNCHANGED loopVars
    /\ UNCHANGED <<args, at, tableVars, task, deleted, world>>

LeaveWith(r) ==
    /\ Loop!Return(r)
    /\ task' = "idle"
    /\ at' = IF r < 0 THEN "ended" ELSE "loop"
    /\ UNCHANGED <<args, tableVars, busVars, deleted, world>>

DispatchReturns ==
    /\ In("dispatch", "dispatching")
    /\ inbox = {}
    /\ LeaveWith(IF dongle_removed THEN -1 ELSE 0)

(* server_socket_cb.  accept() waits when the phone has given up since       *)
(* select() reported it.                                                    *)
InAccept      == In("server_socket_cb", "idle") /\ owner[i] = "server_socket"
WaitsForPhone == InAccept /\ phone = "away"

Accept ==
    /\ InAccept
    /\ phone = "calling"
    /\ \E f \in Fd :
        /\ Lowest(f)
        /\ owner' = [owner EXCEPT ![f] = "client"]
        /\ Loop!Add(f, context, "client_socket_cb")
    /\ task' = "done"
    /\ phone' = "connected"
    /\ UNCHANGED <<args, at, fd, hci_id, busVars, deleted, bus>>

(* It fails by itself, or because Quit has closed the socket.               *)
AcceptFails ==
    /\ In("server_socket_cb", "idle")
    /\ InAccept => "accept" \in Failures
    /\ LeaveWith(-1)

(* Mutant of Dropped: the descriptor is closed and stays in the set. *)
DroppedStillWatched(f) == UNCHANGED loopVars

Dropped(f) == Loop!Remove(f)

(* client_socket_cb at the end of the connection. *)
CloseClient ==
    /\ In("client_socket_cb", "idle")
    /\ Dropped(i)
    /\ owner' = [owner EXCEPT ![i] = NULL]
    /\ task' = "done"
    /\ phone' = "away"
    /\ UNCHANGED <<args, at, fd, hci_id, busVars, deleted, bus>>

(* Mutant of CallbackReturns: the callback returns its descriptor. *)
CallbackReturnsFd == In("any", "done") /\ LeaveWith(i)

CallbackReturns == In("any", "done") /\ LeaveWith(0)

----------------------------------------------------------------------------
(* The end: amora_context_delete.  main() calls it when amora_start has     *)
(* returned; in the applet the thread just ends then (its exit(0) is that   *)
(* of QThread), and the user's Quit calls it, whatever the thread is doing. *)

DeleteContext ==
    /\ deleted = 0
    /\ \/ at = "ended"
       \/ args.program = "applet" /\ at \in {"start", "loop"}
    /\ Closed({"display", "session", "server_socket"})
    /\ deleted' = 1
    /\ UNCHANGED <<loopVars, args, at, hci_id, task, busVars, world>>

(* "Done, we are closing now." is logged, and the log is closed.            *)
CloseLog ==
    /\ deleted = 1
    /\ Closed({"log"})
    /\ deleted' = 2
    /\ UNCHANGED <<loopVars, args, at, hci_id, task, busVars, world>>

Exit ==
    /\ deleted = 2
    /\ at # "exited"
    /\ at' = "exited"
    /\ UNCHANGED <<loopVars, args, tableVars, task, busVars, deleted, world>>

(* The bus, from the moment that dbus_init is through, and a phone that     *)
(* comes, is accepted, leaves and comes again.                              *)
Signal ==
    /\ at \in {"register", "start", "loop"}
    /\ fd["conn"] # NoFd
    /\ \E m \in Message \ bus : bus' = bus \cup {m}
    /\ UNCHANGED <<loopVars, args, at, tableVars, task, busVars, deleted, phone>>

(* A phone may give up before it is accepted; then it can call again.       *)
PhoneMoves ==
    /\ at = "loop"
    /\ \/ phone = "away" /\ phone' = "calling"
       \/ phone = "calling" /\ phone' = "away"
       \/ phone = "connected" /\ phone' = "gone"
    /\ UNCHANGED <<loopVars, args, at, tableVars, task, busVars, deleted, bus>>

ServerStep ==
    \/ ContextNew \/ Start \/ LoopStep
    \/ ReadBus \/ DispatchMessage \/ DispatchReturns
    \/ Accept \/ AcceptFails \/ CloseClient \/ CallbackReturns

End == DeleteContext \/ CloseLog \/ Exit

Init ==
    /\ Loop!LoopInit
    /\ args \in [program : Programs, logfile : BOOLEAN, hci : HciArgs \cup {-1}]
    /\ at = "log"
    /\ owner = [f \in Fd |-> CASE f = 0 -> "stdin" [] f = 1 -> "stdout" [] f = 2 -> "stderr" [] OTHER -> NULL]
    /\ fd = [r \in Field |-> NoFd]
    /\ hci_id = -1
    /\ task = "idle"
    /\ bus = {} /\ inbox = {}
    /\ dongle_removed = FALSE
    /\ deleted = 0
    /\ phone = "away"

Next == ServerStep \/ End \/ Signal \/ PhoneMoves

Spec == Init /\ [][Next]_vars

CallFails == at' = "ended" /\ (pc = "select" \/ InAccept)

(* The server's thread runs, and main() goes on when it is the same thread. *)
(* A select() or accept() that waits need not fail, and nothing is asked of *)
(* the bus, the phone or the user of the applet.                            *)
FairSpec == Spec /\ WF_vars((ServerStep /\ ~CallFails) \/ (args.program = "command_line" /\ End))

----------------------------------------------------------------------------
(* Properties.                                                              *)

(* Types; of the loop's part, TypeOK of EventLoop.                          *)
TypeOK ==
    /\ Loop!TypeOK
    /\ at \in {"log", "device", "display", "sd", "hci", "socket", "bus", "register", "destroy", "cleanup",
               "start", "loop", "ended", "exited"}
    /\ owner \in [Fd -> Kind \cup {NULL}]
    /\ fd \in [Field -> Fd \cup {NoFd, Freed}]
    /\ hci_id \in Routes \cup HciArgs \cup {-1}
    /\ task \in {"idle", "dispatching", "done"}
    /\ bus \subseteq Message /\ inbox \subseteq Message
    /\ dongle_removed \in BOOLEAN
    /\ deleted \in 0 .. 2
    /\ phone \in {"away", "calling", "connected", "gone"}

(* Whatever fails on the way, a descriptor in the context refers to what    *)
(* was opened for it: nobody has closed it, and no later socket() or        *)
(* accept() has taken its number.  (With hci0; hci_close_dev closes the     *)
(* standard input then.)                                                    *)
OwnDescriptors == \A r \in Field : fd[r] \in Fd => owner[fd[r]] = r

CallbackOf(r) ==
    CASE r = "conn" -> "dispatch" [] r = "server_socket" -> "server_socket_cb" [] r = "client" -> "client_socket_cb"

(* Numbers are used again, by accept() above all: a watched descriptor has  *)
(* the callback of what it refers to now, as long as the context lives.     *)
RightCallback ==
    deleted = 0 => \A f \in readfds :
        owner[f] \in {"conn", "server_socket", "client"} /\ callback[f] = CallbackOf(owner[f])

(* The loop has one context for all.  D-Bus registers with NULL, and may    *)
(* drop its watch at any time, but no callback that uses the context is     *)
(* given anything but the server's.                                         *)
ContextIsServer ==
    (pc = "callback" /\ callback[i] \in {"server_socket_cb", "client_socket_cb"}) => context = "amora"

(* "Shall never block, I hope" (dbus.c): dispatch waits for the bus without *)
(* a timeout, in the only thread, so there must still be something to read. *)
(* This is about the bus alone; of accept() see WaitsForPhone.              *)
DispatchNeverBlocks == In("dispatch", "idle") => bus # {}

(* OUT is the standard output (log.h): log_message writes to its descriptor *)
(* and to the log's, whatever they refer to.                                *)
OutIsStdout ==
    (at \notin {"cleanup", "exited"} /\ deleted = 0) => log_message \subseteq {"log", "stdout"}

Watched == fd["conn"] \in readfds

(* When the adapter is removed while the bus is watched the server leaves   *)
(* its loop, and the command line program ends, whatever else the bus and   *)
(* the phone are doing.  There are two exceptions: toggle_watch, which      *)
(* drops the watch when libdbus has an answer to send, and an accept() that *)
(* waits for a phone which has given up.                                    *)
RemovalEndsServer ==
    (at = "loop" /\ "removed" \in bus /\ Watched)
        ~> (at = "exited" \/ (args.program = "applet" /\ at = "ended") \/ ~Watched \/ WaitsForPhone)
=============================================================================
