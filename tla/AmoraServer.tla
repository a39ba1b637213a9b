---------------------------- MODULE AmoraServer ----------------------------
(* The amora server and the phones that control it: amora.c on top of the   *)
(* event loop, from the listening socket to the lines it treats, and the    *)
(* phones as far as they decide what the server is sent.                    *)
(*                                                                          *)
(* A connection is opened once; a phone that comes back is a new one.       *)
EXTENDS Session, Sequences, FiniteSets, Functions

CONSTANTS
    Conn,          \* the connections that phones may make
    NoConn,
    NULL,
    FD_SETSIZE,
    SERVER_FD,     \* the listening socket; those below it are not sockets
    Greetings,     \* what a phone says first, of GreetingNames
    Gestures,      \* what users may do, of GestureNames
    MaxGestures,   \* bound: gestures of one connection after its greeting
    MaxBatch,      \* bound: lines that one read() returns
    Overlap,       \* whether a phone connects while another one is served
    Rude,          \* whether a phone may vanish without its CONN_CLOSE
    Faults         \* what may go wrong, of FaultNames

FaultNames == {"select", "accept", "shot", "tmp", "eof", "withdraw"}

ASSUME ServerFdAssumption == FD_SETSIZE \in Nat /\ SERVER_FD \in 0 .. FD_SETSIZE - 1
ASSUME BoundAssumption    == MaxGestures \in Nat /\ MaxBatch \in Nat \ {0}
ASSUME ModeAssumption     == Overlap \in BOOLEAN /\ Rude \in BOOLEAN /\ Faults \subseteq FaultNames
ASSUME ConnAssumption     == IsFiniteSet(Conn) /\ NoConn \notin Conn
ASSUME CallbackAssumption == NULL \notin {"server_socket_cb", "client_socket_cb"}

VARIABLES
    readfds, callback, nfds, context, ready, i, ret, pc,   \* the event loop
    server,       \* the life of the process
    peer,         \* the connection behind each open descriptor
    backlog,      \* connections that wait for accept()
    inq,          \* lines that a phone sent and the server has not read
    withdrawn,    \* history: connections that left the backlog, unaccepted,
                  \* since select() last returned
    task,         \* where the running callback is
    batch,        \* lines of the buffer of process_events still to be treated
    result,       \* result of process_events so far
    st,           \* the statics of treat_events and treat_command
    out,          \* the effect of the line just treated
    client_name,  \* amora->client_name
    phones,       \* the applet's list of the connected phones
    phone,        \* the state of each phone
    todo,         \* the lines that the phone has still to send
    count         \* gestures that the phone began

loopVars   == <<readfds, callback, nfds, context, ready, i, ret, pc>>
taskVars   == <<task, batch, result, st, out>>
noticeVars == <<client_name, phones>>
netVars    == <<peer, backlog, inq, withdrawn>>
phoneVars  == <<phone, todo, count>>
vars == <<loopVars, server, taskVars, noticeVars, netVars, phoneVars>>

----------------------------------------------------------------------------
(* Descriptors.                                                             *)

Fd    == 0 .. FD_SETSIZE - 1
AnyFd == SERVER_FD + 1 .. SERVER_FD + Cardinality(Conn)   \* enough for every connection

IsOpen(c)   == \E f \in AnyFd : peer[f] = c
IsLinked(c) == IsOpen(c) \/ c \in Range(backlog)
IsGone(c)   == phone[c] = "gone"

(* What select() would report: a connection to accept, a line to read, or   *)
(* the end of a connection.                                                 *)
Readable ==
    {f \in {SERVER_FD} : backlog # <<>>}
        \cup {f \in AnyFd \cap Fd : peer[f] # NoConn /\ (inq[peer[f]] # <<>> \/ IsGone(peer[f]))}

Loop == INSTANCE EventLoop WITH
    Callback <- {"server_socket_cb", "client_socket_cb"},
    Context  <- {"amora"},
    SelectMayFail <- "select" \in Faults,
    io <- Readable

(* accept() returns the lowest free descriptor. *)
IsNext(f) == f \in AnyFd /\ peer[f] = NoConn /\ \A g \in AnyFd : peer[g] = NoConn => f <= g

----------------------------------------------------------------------------
(* The phones (amora-client/pys60): what their users do, as lines.          *)

Text(code, of)   == [cmd |-> code, n |-> Zero, of |-> of]
Number(axis, of) == [cmd |-> "NONE", n |-> <<of, axis>>, of |-> of]

(* A click with the select key is followed by a screenshot when the user    *)
(* asked for that; the key 1 holds the left button down or lets it go.      *)
GestureNames == {"key", "move", "left", "hold", "release", "right", "scroll", "shot", "rotated_shot",
                 "click_shot", "rotated_click_shot"}
GreetingNames == {"screen_on", "screen_off"}

ASSUME GestureAssumption == Greetings \subseteq GreetingNames /\ Gestures \subseteq GestureNames

(* otherkeys_process, __take_screenshot, __connect and __reset. *)
LinesOf(of) ==
    LET T(code) == Text(code, of)
        N(axis) == Number(axis, of)
    IN  CASE of[3] = "key"    -> <<T("ENTER")>>
          [] of[3] = "scroll" -> <<T("MOUSE_SCROLL_UP")>>
          [] of[3] = "move"   -> <<T("MOUSE_MOVE"), N("x"), N("y")>>
          [] of[3] = "left"   -> <<T("MOUSE_BUTTON_LEFT"), T("MOUSE_BUTTON_PRESS"), T("MOUSE_BUTTON_RELEASE")>>
          [] of[3] = "hold"    -> <<T("MOUSE_BUTTON_LEFT"), T("MOUSE_BUTTON_PRESS")>>
          [] of[3] = "release" -> <<T("MOUSE_BUTTON_LEFT"), T("MOUSE_BUTTON_RELEASE")>>
          [] of[3] = "right"  -> <<T("MOUSE_BUTTON_RIGHT"), T("MOUSE_BUTTON_PRESS"), T("MOUSE_BUTTON_RELEASE")>>
          [] of[3] = "shot"   -> <<T("SCREEN_NORMAL"), T("SCREEN_TAKE")>>
          [] of[3] = "rotated_shot" -> <<T("SCREEN_ROTATE"), T("SCREEN_TAKE")>>
          [] of[3] = "click_shot" ->
                <<T("MOUSE_BUTTON_LEFT"), T("MOUSE_BUTTON_PRESS"), T("MOUSE_BUTTON_RELEASE"),
                  T("SCREEN_NORMAL"), T("SCREEN_TAKE")>>
          [] of[3] = "rotated_click_shot" ->
                <<T("MOUSE_BUTTON_LEFT"), T("MOUSE_BUTTON_PRESS"), T("MOUSE_BUTTON_RELEASE"),
                  T("SCREEN_ROTATE"), T("SCREEN_TAKE")>>
          [] of[3] = "screen_on"    -> <<T("SCREEN_MODE_ON"), T("SCREEN_RESOLUTION"), N("w"), N("h")>>
          [] of[3] = "screen_off"   -> <<T("SCREEN_MODE_OFF")>>
          [] of[3] = "close"        -> <<T("CONN_CLOSE")>>

Gesture == Conn \X (0 .. MaxGestures + 1) \X (Gestures \cup Greetings \cup {"close"})
Line == UNION {Range(LinesOf(of)) : of \in Gesture}

(* __connect: the link is made, then the greeting is sent. *)
Connect(c) ==
    /\ server = "running"
    /\ phone[c] = "idle"
    /\ Overlap \/ \A d \in Conn : ~IsLinked(d)
    /\ backlog' = Append(backlog, c)
    /\ phone' = [phone EXCEPT ![c] = "connected"]
    /\ \E g \in Greetings : todo' = [todo EXCEPT ![c] = LinesOf(<<c, 0, g>>)]
    /\ UNCHANGED <<loopVars, server, taskVars, noticeVars, peer, inq, withdrawn, count>>

Begin(c) ==
    /\ phone[c] = "connected"
    /\ todo[c] = <<>>
    /\ count[c] < MaxGestures
    /\ count' = [count EXCEPT ![c] = @ + 1]
    /\ \E g \in Gestures : todo' = [todo EXCEPT ![c] = LinesOf(<<c, count'[c], g>>)]
    /\ UNCHANGED <<loopVars, server, taskVars, noticeVars, netVars, phone>>

(* write_line; after SCREEN_TAKE the phone waits for the picture. *)
Send(c) ==
    /\ phone[c] = "connected"
    /\ todo[c] # <<>>
    /\ IsLinked(c)
    /\ inq' = [inq EXCEPT ![c] = Append(@, Head(todo[c]))]
    /\ todo' = [todo EXCEPT ![c] = Tail(@)]
    /\ phone' = [phone EXCEPT ![c] = IF Head(todo[c]).cmd = "SCREEN_TAKE" THEN "asking" ELSE @]
    /\ UNCHANGED <<loopVars, server, taskVars, noticeVars, peer, backlog, withdrawn, count>>

(* __reset, quit: CONN_CLOSE is sent and the socket closed. *)
HangUp(c) ==
    /\ phone[c] = "connected"
    /\ todo[c] = <<>>
    /\ IsLinked(c)
    /\ inq' = [inq EXCEPT ![c] = @ \o LinesOf(<<c, MaxGestures + 1, "close">>)]
    /\ phone' = [phone EXCEPT ![c] = "gone"]
    /\ UNCHANGED <<loopVars, server, taskVars, noticeVars, peer, backlog, withdrawn, todo, count>>

(* Out of range, battery, crash: at any moment and in any gesture. *)
Vanish(c) ==
    /\ Rude
    /\ phone[c] \in {"connected", "asking"}
    /\ phone' = [phone EXCEPT ![c] = "gone"]
    /\ todo' = [todo EXCEPT ![c] = <<>>]
    /\ UNCHANGED <<loopVars, server, taskVars, noticeVars, netVars, count>>

Without(q, k) == SubSeq(q, 1, k - 1) \o SubSeq(q, k + 1, Len(q))

(* The RFCOMM layer drops a phone that is gone from the accept queue, with  *)
(* what it sent.  That may be after select() has reported it.               *)
Withdraw(c) ==
    /\ "withdraw" \in Faults
    /\ IsGone(c)
    /\ \E k \in DOMAIN backlog :
        /\ backlog[k] = c
        /\ backlog' = Without(backlog, k)
    /\ inq' = [inq EXCEPT ![c] = <<>>]
    /\ withdrawn' = withdrawn \cup {c}
    /\ UNCHANGED <<loopVars, server, taskVars, noticeVars, peer, phoneVars>>

(* "Connection is over, server down!": the server closed the connection. *)
Notice(c) ==
    /\ phone[c] \in {"connected", "asking"}
    /\ ~IsLinked(c)
    /\ phone' = [phone EXCEPT ![c] = "gone"]
    /\ todo' = [todo EXCEPT ![c] = <<>>]
    /\ UNCHANGED <<loopVars, server, taskVars, noticeVars, netVars, count>>

PhoneStep(c) ==
    Connect(c) \/ Begin(c) \/ Send(c) \/ HangUp(c) \/ Vanish(c) \/ Withdraw(c) \/ Notice(c)

----------------------------------------------------------------------------
(* The process: amora_context_new, amora_start and amora_context_delete.    *)

NotInCallback == UNCHANGED <<taskVars, noticeVars>>

ContextNew ==
    /\ server = "new"
    /\ Loop!Add(SERVER_FD, "amora", "server_socket_cb")
    /\ server' = "ready"
    /\ NotInCallback
    /\ UNCHANGED <<netVars, phoneVars>>

Start ==
    /\ server = "ready"
    /\ Loop!Enter
    /\ server' = "running"
    /\ NotInCallback
    /\ UNCHANGED <<netVars, phoneVars>>

(* The steps of loop() outside the callbacks. *)
LoopStep ==
    /\ server = "running"
    /\ \/ Loop!Select /\ withdrawn' = {}
       \/ /\ Loop!SelectFails \/ Loop!Dispatch \/ Loop!LeaveWhenEmpty \/ Loop!NextPass
          /\ UNCHANGED withdrawn
    /\ NotInCallback
    /\ UNCHANGED <<server, peer, backlog, inq, phoneVars>>

(* The process ends, and its sockets are closed. *)
Exit ==
    /\ server' = "exited"
    /\ peer' = [f \in AnyFd |-> NoConn]
    /\ backlog' = <<>>
    /\ inq' = [c \in Conn |-> <<>>]
    /\ withdrawn' = {}

(* loop() has returned. *)
ContextDelete ==
    /\ server = "running"
    /\ pc = "stopped"
    /\ Exit
    /\ UNCHANGED <<loopVars, taskVars, noticeVars, phoneVars>>

----------------------------------------------------------------------------
(* server_socket_cb.                                                        *)

InServerCb == server = "running" /\ pc = "callback" /\ i = SERVER_FD
InClientCb == server = "running" /\ pc = "callback" /\ i # SERVER_FD
InAccept   == InServerCb /\ task = "idle" /\ backlog = <<>>

(* A connection is accepted and announced.  Whether loop_add took the       *)
(* descriptor is not looked at.  With no connection left in the backlog the *)
(* socket blocks: there is no step until a phone connects.                  *)
Accept ==
    /\ InServerCb
    /\ task = "idle"
    /\ backlog # <<>>
    /\ \E f \in AnyFd :
        /\ IsNext(f)
        /\ peer' = [peer EXCEPT ![f] = Head(backlog)]
        /\ Loop!Add(f, "amora", "client_socket_cb")
    /\ backlog' = Tail(backlog)
    /\ client_name' = Head(backlog)
    /\ phones' = phones \cup {Head(backlog)}
    /\ task' = "done"
    /\ UNCHANGED <<server, batch, result, st, out, inq, withdrawn, phoneVars>>

(* accept() fails: so does the callback, and with it the loop. *)
AcceptFails ==
    /\ "accept" \in Faults
    /\ InServerCb
    /\ task = "idle"
    /\ Loop!Return(-1)
    /\ NotInCallback
    /\ UNCHANGED <<server, netVars, phoneVars>>

----------------------------------------------------------------------------
(* client_socket_cb.                                                        *)

Client == peer[i]

(* process_events reads what the socket has, some whole lines here; how     *)
(* read_socket deals with the rest is the subject of ReadSocket.            *)
ReadLines ==
    /\ InClientCb
    /\ task = "idle"
    /\ \E k \in 1 .. MaxBatch :
        /\ k <= Len(inq[Client])
        /\ batch' = SubSeq(inq[Client], 1, k)
        /\ inq' = [inq EXCEPT ![Client] = SubSeq(@, k + 1, Len(@))]
    /\ result' = "-1"
    /\ task' = "lines"
    /\ UNCHANGED <<loopVars, server, st, out, noticeVars, peer, backlog, withdrawn, phoneVars>>

AtEnd == InClientCb /\ task = "idle" /\ inq[Client] = <<>> /\ IsGone(Client)

(* read() reports the lost connection: process_events returns -1. *)
ReadFails ==
    /\ AtEnd
    /\ result' = "-1"
    /\ task' = "lines"
    /\ UNCHANGED <<loopVars, server, batch, st, out, noticeVars, netVars, phoneVars>>

(* read() reports the end of the stream: read_socket never comes back. *)
ReadSpins ==
    /\ "eof" \in Faults
    /\ AtEnd
    /\ task' = "spinning"
    /\ UNCHANGED <<loopVars, server, batch, result, st, out, noticeVars, netVars, phoneVars>>

(* What can become of the picture that this line asks for, if it does and   *)
(* treat_command returns; where it does not, ShotCrashes.                   *)
ShotOf(l) ==
    {shot \in Shots :
        IF IsTake(st, l)
        THEN \/ shot = "sent"
             \/ shot = "not_sent" /\ IsGone(Client)
             \/ shot = "not_made" /\ "shot" \in Faults
        ELSE shot = "not_made"}

(* treat_events on the next line; its result replaces that of the line      *)
(* before.  The picture sent ends the phone's wait.                         *)
TreatLine ==
    /\ InClientCb
    /\ task = "lines"
    /\ batch # <<>>
    /\ \E shot \in ShotOf(Head(batch)) :
        /\ st' = AfterEvent(st, Head(batch), shot)
        /\ result' = EventResult(st, Head(batch), shot)
        /\ out' = Effect(st, Head(batch), shot)
    /\ batch' = Tail(batch)
    /\ phone' = [phone EXCEPT ![Client] = IF out'.kind = "image" /\ @ = "asking" THEN "connected" ELSE @]
    /\ UNCHANGED <<loopVars, server, task, noticeVars, netVars, todo, count>>

(* The picture's directory cannot be made, or it or its file cannot be      *)
(* removed: the message for perror() is written over a string literal, and  *)
(* the process is killed.  The line is never done with, so out is that of   *)
(* the line before; the picture itself has been sent if it is the removal   *)
(* that failed.                                                             *)
ShotCrashes ==
    /\ "tmp" \in Faults
    /\ InClientCb
    /\ task = "lines"
    /\ batch # <<>>
    /\ IsTake(st, Head(batch))
    /\ Exit
    /\ phone' \in {phone, [phone EXCEPT ![Client] = IF @ = "asking" THEN "connected" ELSE @]}
    /\ UNCHANGED <<loopVars, taskVars, noticeVars, todo, count>>

(* Mutants of Dropped: the descriptor is closed and left in the set; the    *)
(* phone is not announced as gone; another descriptor leaves the set.       *)
DroppedStillWatched(f) ==
    /\ peer' = [peer EXCEPT ![f] = NoConn]
    /\ phones' = phones \ {client_name}
    /\ UNCHANGED <<loopVars, client_name>>

DroppedQuietly(f) ==
    /\ Loop!Remove(f)
    /\ peer' = [peer EXCEPT ![f] = NoConn]
    /\ UNCHANGED <<phones, client_name>>

DroppedHighest(f) ==
    /\ Loop!Removed(nfds)
    /\ peer' = [peer EXCEPT ![f] = NoConn]
    /\ phones' = phones \ {client_name}
    /\ UNCHANGED <<ready, i, ret, pc, client_name>>

(* exit_close: the name announced is that of the last phone accepted. *)
Dropped(f) ==
    /\ Loop!Remove(f)
    /\ peer' = [peer EXCEPT ![f] = NoConn]
    /\ phones' = phones \ {client_name}
    /\ UNCHANGED client_name

(* Mutant of Closing: an error of the read does not end the connection. *)
ClosingWhenAsked == result = "CONN_CLOSE"

Closing == result \in {"CONN_CLOSE", "-1"}

(* The lines are treated: the connection goes on or is closed. *)
FinishLines ==
    /\ InClientCb
    /\ task = "lines"
    /\ batch = <<>>
    /\ IF Closing
       THEN Dropped(i)
       ELSE UNCHANGED <<loopVars, peer, noticeVars>>
    /\ task' = "done"
    /\ UNCHANGED <<server, batch, result, st, out, backlog, inq, withdrawn, phoneVars>>

(* Mutant of ReturnZero: the callback of a phone that died returns -1. *)
ReturnDied ==
    /\ InServerCb \/ InClientCb
    /\ task = "done"
    /\ Loop!Return(IF result = "-1" THEN -1 ELSE 0)
    /\ task' = "idle"
    /\ result' = "none"
    /\ out' = Nothing
    /\ UNCHANGED <<server, batch, st, noticeVars, netVars, phoneVars>>

(* Either callback returns 0. *)
ReturnZero ==
    /\ InServerCb \/ InClientCb
    /\ task = "done"
    /\ Loop!Return(0)
    /\ task' = "idle"
    /\ result' = "none"
    /\ out' = Nothing
    /\ UNCHANGED <<server, batch, st, noticeVars, netVars, phoneVars>>

ServerStep ==
    \/ ContextNew \/ Start \/ LoopStep \/ ContextDelete
    \/ Accept \/ AcceptFails
    \/ ReadLines \/ ReadFails \/ ReadSpins \/ TreatLine \/ ShotCrashes \/ FinishLines \/ ReturnZero

(* Every connection has been made and ended, and the server sleeps in       *)
(* select() or accept(); or it is no more, and no phone is connected.       *)
AtRest ==
    /\ \/ /\ \A c \in Conn : IsGone(c)
          /\ (pc = "select" /\ Readable = {}) \/ InAccept
       \/ server = "exited" /\ \A c \in Conn : phone[c] \in {"idle", "gone"}
    /\ UNCHANGED vars

Init ==
    /\ Loop!LoopInit
    /\ server = "new"
    /\ peer = [f \in AnyFd |-> NoConn]
    /\ backlog = <<>>
    /\ inq = [c \in Conn |-> <<>>]
    /\ withdrawn = {}
    /\ task = "idle"
    /\ batch = <<>>
    /\ result = "none"
    /\ st = Statics
    /\ out = Nothing
    /\ client_name = NoConn
    /\ phones = {}
    /\ phone = [c \in Conn |-> "idle"]
    /\ todo = [c \in Conn |-> <<>>]
    /\ count = [c \in Conn |-> 0]

Next == ServerStep \/ (\E c \in Conn : PhoneStep(c)) \/ AtRest

Spec == Init /\ [][Next]_vars

CallFails == (pc = "select" \/ InServerCb) /\ pc' = "stopped"

(* The server's one thread keeps running, as long as it has anything to do: *)
(* a select() or accept() that waits need not fail.  Nothing is asked of    *)
(* the phones, except that one notices when its connection is closed.       *)
FairSpec == Spec /\ WF_vars(ServerStep /\ ~CallFails) /\ \A c \in Conn : WF_vars(Notice(c))

----------------------------------------------------------------------------
(* Properties.                                                              *)

Numbers == Gesture \X {"x", "y", "w", "h"}

(* What the statics can hold. *)
SessionState ==
    [mouse_event : BOOLEAN, times : {0, 1}, x_mouse : Numbers \cup {Zero},
     button : Buttons \cup {"NONE"}, screen_rotate : BOOLEAN,
     width : Numbers \cup {W176, W320}, height : Numbers \cup {H208, H240},
     flag : BOOLEAN, dim_times : {0, 1}]

ASSUME SessionAssumption == NoConn \notin SessionState

(* Types; of the loop's part, TypeOK of EventLoop: however many phones      *)
(* come, no descriptor that select() cannot hold gets into the set.         *)
TypeOK ==
    /\ Loop!TypeOK
    /\ server \in {"new", "ready", "running", "exited"}
    /\ peer \in [AnyFd -> Conn \cup {NoConn}]
    /\ backlog \in Seq(Conn)
    /\ inq \in [Conn -> Seq(Line)]
    /\ withdrawn \subseteq Conn
    /\ task \in {"idle", "lines", "spinning", "done"}
    /\ batch \in Seq(Line)
    /\ result \in MouseEvents \cup Keys \cup Commands \cup {"none", "-1", "NONE", "moved"}
    /\ st \in SessionState
    /\ client_name \in Conn \cup {NoConn}
    /\ phones \subseteq Conn
    /\ phone \in [Conn -> {"idle", "connected", "asking", "gone"}]
    /\ todo \in [Conn -> Seq(Line)]
    /\ count \in [Conn -> 0 .. MaxGestures]

(* The server uses the loop as the loop expects to be used: every step of   *)
(* the callbacks is one that EventLoop allows them, so what is proved of    *)
(* EventLoop holds of the loop in the server.                               *)
LoopContract == Loop!Spec

(* The loop watches the listening socket and every open connection whose    *)
(* descriptor it can hold, and no descriptor that has been closed.          *)
WatchedIsOpen ==
    server \in {"ready", "running"} =>
        readfds = {SERVER_FD} \cup {f \in AnyFd \cap Fd : peer[f] # NoConn}

(* A callback is only called with something to do, so the blocking read()   *)
(* that it begins with does not block: nothing that happened between        *)
(* select() and the callback took the reason for it away.  For accept() one *)
(* thing can: a connection that the RFCOMM layer withdrew since that very   *)
(* select(); the socket is not set non-blocking, and the one thread then    *)
(* waits for the next phone.                                                *)
NoBlockingRead ==
    (server = "running" /\ pc = "callback" /\ task = "idle") =>
        IF i = SERVER_FD THEN backlog # <<>> \/ withdrawn # {}
        ELSE peer[i] # NoConn /\ (inq[peer[i]] # <<>> \/ IsGone(peer[i]))

(* A running server comes to its end in three ways only, and whatever the   *)
(* phones send and whenever they vanish, each takes a fault of the system:  *)
(* select() fails; accept() fails, which is the one callback to return -1;  *)
(* or a screenshot is asked for and its temporary directory or file cannot  *)
(* be made or removed, which kills the process.  No callback of a phone     *)
(* returns -1, and the set of descriptors never looks empty to loop().      *)
EndsByFault ==
    [][/\ pc # "stopped" /\ pc' = "stopped" =>
            \/ pc = "select" /\ "select" \in Faults
            \/ InServerCb /\ "accept" \in Faults
       /\ server = "running" /\ server' # "running" =>
            \/ pc = "stopped"
            \/ InClientCb /\ IsTake(st, Head(batch)) /\ "tmp" \in Faults]_vars

(* The pointer is moved by the two numbers of one gesture. *)
WarpIsOneGesture == out.kind = "warp" => out.x = <<out.of, "x">> /\ out.y = <<out.of, "y">>

ButtonOf == [left |-> 1, hold |-> 1, release |-> 1, click_shot |-> 1, rotated_click_shot |-> 1,
             right |-> 3, scroll |-> 4]

RotatedShots == {"rotated_shot", "rotated_click_shot"}

(* A gesture that clicks presses and releases the button it is about,       *)
(* whichever button this phone or an earlier one left selected.             *)
ClickIsOwnButton ==
    out.kind = "click" => \A e \in Range(out.events) : e[1] = ButtonOf[out.of[3]]

(* The picture a gesture asked for is turned as it said, and has one of the *)
(* default sizes or that of its own phone's screen: never a width or height *)
(* that another phone has told, nor one taken for the other.                *)
PictureIsOwn ==
    out.kind = "image" =>
        /\ out.rotate <=> out.of[3] \in RotatedShots
        /\ out.width \notin {W176, W320} => out.width[1][1] = out.of[1] /\ out.width[2] = "w"
        /\ out.height \notin {H208, H240} => out.height[1][1] = out.of[1] /\ out.height[2] = "h"

Remote == INSTANCE RemoteSession WITH
    sess <- [c \in Conn |-> IF IsOpen(c) THEN st ELSE NoConn],
    NoSession <- NoConn

(* The server, with its one record of statics, keeps the promise of         *)
(* RemoteSession as long as phones take turns and say good-bye.             *)
OneSessionEach == Remote!Spec

(* The applet shows the phones that are connected, whenever no callback is  *)
(* at work.                                                                 *)
PhonesAreShown == pc = "select" => phones = {c \in Conn : IsOpen(c)}

(* The connection of a phone that left is closed in the end, unless the     *)
(* server comes to wait in accept() for a phone that was withdrawn.         *)
GoneIsClosed == \A c \in Conn : IsGone(c) ~> ~IsLinked(c) \/ InAccept

(* What a phone sent is read in the end, with the same exception.           *)
LinesAreRead == \A c \in Conn : inq[c] # <<>> ~> inq[c] = <<>> \/ InAccept

(* A phone that asked for the screen does not wait for ever. *)
ShotIsAnswered == \A c \in Conn : phone[c] = "asking" ~> phone[c] # "asking"
=============================================================================
