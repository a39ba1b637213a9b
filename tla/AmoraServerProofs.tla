------------------------- MODULE AmoraServerProofs -------------------------
(* Proofs about the server, for every finite set of connections, every     *)
(* number of gestures and every set of faults.                             *)
(*                                                                         *)
(* The inductive invariant is ServerInv. Two of its parts carry the        *)
(* argument: OnePlace, each connection is in at most one place (a          *)
(* descriptor, or the backlog), without which close() would close another  *)
(* phone; and StillReadable, what select() reported stays readable until   *)
(* its callback has run, because only that callback reads or closes it,    *)
(* and a phone only adds.                                                  *)
(*                                                                         *)
(* The server runs the loop of EventLoop: UsesLoop shows that its steps    *)
(* keep the contract EventLoop asks of its callers, so what                *)
(* EventLoopProofs says of the loop holds here.                            *)
EXTENDS AmoraServer, SequenceTheorems, FiniteSetTheorems, TLAPS

LoopProofs == INSTANCE EventLoopProofs WITH
    Callback <- {"server_socket_cb", "client_socket_cb"},
    Context  <- {"amora"},
    SelectMayFail <- "select" \in Faults,
    io <- Readable

----------------------------------------------------------------------------
(* The inductive invariant.                                                 *)

(* What is still to do when: no descriptor before the start, nothing runs   *)
(* when the loop has stopped, no task outside a callback, and reading only  *)
(* from a connection.                                                       *)
Lifecycle ==
    /\ server # "running" => pc = "stopped" \/ (server = "exited" /\ pc = "callback")
    /\ server = "new" => readfds = {} /\ peer = [f \in AnyFd |-> NoConn]
    /\ pc # "callback" => task = "idle"
    /\ server = "running" /\ task \in {"lines", "spinning"} => i \in AnyFd /\ peer[i] # NoConn

(* A connection is at one descriptor or once in the backlog, and one that   *)
(* has not been made is in neither.                                         *)
OnePlace ==
    /\ \A f, g \in AnyFd : peer[f] = peer[g] /\ peer[f] # NoConn => f = g
    /\ \A j, k \in 1 .. Len(backlog) : backlog[j] = backlog[k] => j = k
    /\ \A f \in AnyFd, k \in 1 .. Len(backlog) : peer[f] # backlog[k]
    /\ \A c \in Conn : phone[c] = "idle" =>
          (\A f \in AnyFd : peer[f] # c) /\ (\A k \in 1 .. Len(backlog) : backlog[k] # c)

(* What select() reported is there to be read, or is the listening socket   *)
(* and a connection has been withdrawn from it.                             *)
Reported(f) == f \in Readable \/ (f = SERVER_FD /\ withdrawn # {})

(* So is what the scan has still to visit, and what its callback has not    *)
(* yet read.                                                                *)
StillReadable ==
    server = "running" =>
        /\ pc \in {"scan", "callback"} => \A f \in ready : f >= Loop!NextToScan => Reported(f)
        /\ pc = "callback" /\ task = "idle" => Reported(i)

ServerInv == TypeOK /\ Lifecycle /\ OnePlace /\ WatchedIsOpen /\ StillReadable

----------------------------------------------------------------------------
(* The server and the contract of the event loop.                           *)

LEMMA DescriptorFacts ==
    /\ FD_SETSIZE \in Nat \ {0}
    /\ SERVER_FD \in Fd
    /\ Fd \subseteq Nat
    /\ AnyFd \subseteq Nat
    /\ SERVER_FD \notin AnyFd
  <1>1. Cardinality(Conn) \in Nat
    BY ConnAssumption, FS_CardinalityType
  <1>. QED
    BY <1>1, ServerFdAssumption DEF Fd, AnyFd

LEMMA ReadableIsFd == Readable \subseteq Fd
  BY DescriptorFacts DEF Readable

LEMMA InitLoop == Init => Loop!Init
  BY ReadableIsFd DEF Init, Loop!Init, Loop!Fd, Fd

LEMMA ServerStepLoop ==
    ASSUME ServerStep PROVE Loop!LoopNext
  <1>1. CASE ContextNew
    BY <1>1, DescriptorFacts DEF ContextNew, Loop!LoopNext, Loop!Registering, Fd
  <1>2. CASE Start
    BY <1>2 DEF Start, Loop!LoopNext
  <1>3. CASE LoopStep
    BY <1>3 DEF LoopStep, Loop!LoopNext, Loop!Looping
  <1>4. CASE Accept
    <2>1. PICK f \in AnyFd : Loop!Add(f, "amora", "client_socket_cb")
      BY <1>4 DEF Accept
    <2>2. CASE f \in -1 .. FD_SETSIZE
      BY <2>1, <2>2 DEF Loop!LoopNext, Loop!Registering
    <2>3. CASE f \notin -1 .. FD_SETSIZE
      <3>1. f \notin Loop!Fd
        BY <2>3, DescriptorFacts DEF Loop!Fd
      <3>2. UNCHANGED Loop!loopVars
        BY <2>1, <3>1 DEF Loop!Add, Loop!Added, Loop!NotAdded, Loop!loopVars
      <3>. QED
        BY <3>2 DEF Loop!LoopNext
    <2>. QED
      BY <2>2, <2>3
  <1>5. CASE AcceptFails
    BY <1>5 DEF AcceptFails, Loop!LoopNext, Loop!Looping
  <1>6. CASE ReturnZero
    BY <1>6 DEF ReturnZero, Loop!LoopNext, Loop!Looping
  <1>7. CASE FinishLines
    <2>1. CASE Loop!Remove(i)
      <3>1. i \in Loop!Fd
        BY <2>1 DEF Loop!Remove, Loop!Removed
      <3>. QED
        BY <2>1, <3>1 DEF Loop!LoopNext, Loop!Registering
    <2>2. CASE UNCHANGED loopVars
      BY <2>2 DEF loopVars, Loop!LoopNext, Loop!loopVars, Loop!loop_set, Loop!locals
    <2>. QED
      BY <1>7, <2>1, <2>2 DEF FinishLines, Dropped
  <1>8. CASE ContextDelete \/ ReadLines \/ ReadFails \/ ReadSpins \/ TreatLine \/ ShotCrashes
    <2>1. UNCHANGED loopVars
      BY <1>8 DEF ContextDelete, ReadLines, ReadFails, ReadSpins, TreatLine, ShotCrashes
    <2>. QED
      BY <2>1 DEF loopVars, Loop!LoopNext, Loop!loopVars, Loop!loop_set, Loop!locals
  <1>. QED
    BY <1>1, <1>2, <1>3, <1>4, <1>5, <1>6, <1>7, <1>8 DEF ServerStep

LEMMA NextLoop == [Next]_vars => [Loop!Next]_(Loop!vars)
<1>. SUFFICES ASSUME [Next]_vars PROVE [Loop!Next]_(Loop!vars)
  OBVIOUS
<1>1. Readable' \in SUBSET Loop!Fd
  BY DescriptorFacts DEF Loop!Fd, Fd, Readable
<1>2. CASE ServerStep
  BY <1>1, <1>2, ServerStepLoop DEF Loop!Next
<1>3. CASE UNCHANGED loopVars
  BY <1>1, <1>3 DEF loopVars, Loop!Next, Loop!LoopNext, Loop!loopVars, Loop!loop_set, Loop!locals
<1>4. ASSUME NEW c \in Conn, PhoneStep(c) PROVE UNCHANGED loopVars
  BY <1>4 DEF PhoneStep, Connect, Begin, Send, HangUp, Vanish, Withdraw, Notice
<1>5. CASE AtRest \/ UNCHANGED vars
  BY <1>3, <1>5 DEF AtRest, vars
<1>. QED
  BY <1>2, <1>3, <1>4, <1>5 DEF Next

(* Every step of the server that touches the registry is one the event     *)
(* loop allows its callers: a callback removes no descriptor but its own,  *)
(* and adds only from accept().                                            *)
THEOREM KeepsLoopContract == Spec => LoopContract
  BY InitLoop, NextLoop, PTL DEF Spec, LoopContract, Loop!Spec

(* What is proved of the event loop holds of the loop of the server.        *)
LEMMA UsesLoop == Spec => LoopProofs!Spec
  <1>1. Init => LoopProofs!Init
    BY InitLoop DEF Loop!Init, Loop!LoopInit, Loop!Fd, LoopProofs!Init, LoopProofs!LoopInit, LoopProofs!Fd
  <1>2. [Next]_vars => [LoopProofs!Next]_(LoopProofs!vars)
    BY NextLoop
    DEF Loop!Next, LoopProofs!Next, Loop!LoopNext, LoopProofs!LoopNext, Loop!Enter,
        LoopProofs!Enter, Loop!SelectFails, LoopProofs!SelectFails, Loop!Looping,
        LoopProofs!Looping, Loop!Select, LoopProofs!Select, Loop!Dispatch,
        LoopProofs!Dispatch, Loop!Return, LoopProofs!Return, Loop!LeaveWhenEmpty,
        LoopProofs!LeaveWhenEmpty, Loop!NextPass, LoopProofs!NextPass, Loop!Registering,
        LoopProofs!Registering, Loop!Add, LoopProofs!Add, Loop!Added, LoopProofs!Added,
        Loop!NotAdded, LoopProofs!NotAdded, Loop!Remove, LoopProofs!Remove, Loop!Removed,
        LoopProofs!Removed, Loop!Removable, LoopProofs!Removable, Loop!CallerRuns,
        LoopProofs!CallerRuns, Loop!IsHighest, LoopProofs!IsHighest, Loop!Pending,
        LoopProofs!Pending, Loop!EndOfPass, LoopProofs!EndOfPass, Loop!IsEmpty,
        LoopProofs!IsEmpty, Loop!Fd, LoopProofs!Fd, Loop!loop_set, LoopProofs!loop_set,
        Loop!locals, LoopProofs!locals, Loop!loopVars, LoopProofs!loopVars, Loop!vars,
        LoopProofs!vars, Loop!Readable, LoopProofs!Readable
  <1>. QED
    BY <1>1, <1>2, PTL DEF Spec, LoopProofs!Spec

LEMMA LoopInvariant == Spec => []LoopProofs!LoopInv
  <1>1. FD_SETSIZE \in Nat \ {0} /\ NULL \notin {"server_socket_cb", "client_socket_cb"}
        /\ ("select" \in Faults) \in BOOLEAN
    BY DescriptorFacts, CallbackAssumption
  <1>. QED
    BY <1>1, UsesLoop, LoopProofs!LoopInvariant, PTL

(* loop() calls loop_set.callback[fd] without a test: in the server it is  *)
(* never called through a pointer that was not set.                        *)
THEOREM ServerNeverNull == Spec => LoopProofs!NoNullDispatch
  <1>1. FD_SETSIZE \in Nat \ {0} /\ NULL \notin {"server_socket_cb", "client_socket_cb"}
        /\ ("select" \in Faults) \in BOOLEAN
    BY DescriptorFacts, CallbackAssumption
  <1>. QED
    BY <1>1, UsesLoop, LoopProofs!NeverNull, PTL

(* A phone whose lines select() reported is served in that pass, whatever  *)
(* phones before it do: that client_socket_cb removes them, and nfds       *)
(* shrinks, skips nobody.                                                  *)
THEOREM ServerServesAll == Spec => LoopProofs!PassServesAllReady
  <1>1. FD_SETSIZE \in Nat \ {0} /\ NULL \notin {"server_socket_cb", "client_socket_cb"}
        /\ ("select" \in Faults) \in BOOLEAN
    BY DescriptorFacts, CallbackAssumption
  <1>. QED
    BY <1>1, UsesLoop, LoopProofs!ServesAllReady, PTL

----------------------------------------------------------------------------
(* Lines and statics: their types.                                         *)

(* A set of records that holds every line: its parts are at hand, where    *)
(* those of Line are hidden in sequences.                                  *)
LineType == [cmd : Keys \cup MouseEvents \cup Commands \cup {"NONE"},
             n : Numbers \cup {Zero}, of : Gesture]

LEMMA GestureType ==
    ASSUME NEW of \in Gesture
    PROVE  /\ LinesOf(of) \in Seq(LineType)
           /\ LinesOf(of) # <<>>
  <1>. DEFINE T(code) == Text(code, of)
              N(axis) == Number(axis, of)
  <1>1. \A code \in Keys \cup MouseEvents \cup Commands : T(code) \in LineType
    BY DEF Text, LineType
  <1>2. \A axis \in {"x", "y", "w", "h"} : N(axis) \in LineType
    BY DEF Number, LineType, Numbers
  <1>3. of[3] \in GestureNames \cup GreetingNames \cup {"close"}
    BY GestureAssumption DEF Gesture
  <1>. HIDE DEF T, N
  <1>4. \/ LinesOf(of) = <<T("ENTER")>>
        \/ LinesOf(of) = <<T("MOUSE_SCROLL_UP")>>
        \/ LinesOf(of) = <<T("MOUSE_MOVE"), N("x"), N("y")>>
        \/ LinesOf(of) = <<T("MOUSE_BUTTON_LEFT"), T("MOUSE_BUTTON_PRESS"), T("MOUSE_BUTTON_RELEASE")>>
        \/ LinesOf(of) = <<T("MOUSE_BUTTON_RIGHT"), T("MOUSE_BUTTON_PRESS"), T("MOUSE_BUTTON_RELEASE")>>
        \/ LinesOf(of) = <<T("MOUSE_BUTTON_LEFT"), T("MOUSE_BUTTON_PRESS")>>
        \/ LinesOf(of) = <<T("MOUSE_BUTTON_LEFT"), T("MOUSE_BUTTON_RELEASE")>>
        \/ LinesOf(of) = <<T("MOUSE_BUTTON_LEFT"), T("MOUSE_BUTTON_PRESS"), T("MOUSE_BUTTON_RELEASE"),
                           T("SCREEN_NORMAL"), T("SCREEN_TAKE")>>
        \/ LinesOf(of) = <<T("MOUSE_BUTTON_LEFT"), T("MOUSE_BUTTON_PRESS"), T("MOUSE_BUTTON_RELEASE"),
                           T("SCREEN_ROTATE"), T("SCREEN_TAKE")>>
        \/ LinesOf(of) = <<T("SCREEN_NORMAL"), T("SCREEN_TAKE")>>
        \/ LinesOf(of) = <<T("SCREEN_ROTATE"), T("SCREEN_TAKE")>>
        \/ LinesOf(of) = <<T("SCREEN_MODE_ON"), T("SCREEN_RESOLUTION"), N("w"), N("h")>>
        \/ LinesOf(of) = <<T("SCREEN_MODE_OFF")>>
        \/ LinesOf(of) = <<T("CONN_CLOSE")>>
    BY <1>3 DEF LinesOf, T, N, GestureNames, GreetingNames
  <1>5. /\ T("ENTER") \in LineType /\ T("MOUSE_SCROLL_UP") \in LineType /\ T("MOUSE_MOVE") \in LineType
        /\ T("MOUSE_BUTTON_LEFT") \in LineType /\ T("MOUSE_BUTTON_RIGHT") \in LineType
        /\ T("MOUSE_BUTTON_PRESS") \in LineType /\ T("MOUSE_BUTTON_RELEASE") \in LineType
    BY <1>1 DEF Keys, MouseEvents, Buttons, Scrolls, PressCodes
  <1>6. /\ T("SCREEN_NORMAL") \in LineType /\ T("SCREEN_ROTATE") \in LineType
        /\ T("SCREEN_TAKE") \in LineType /\ T("SCREEN_MODE_ON") \in LineType
        /\ T("SCREEN_MODE_OFF") \in LineType /\ T("SCREEN_RESOLUTION") \in LineType
        /\ T("CONN_CLOSE") \in LineType
    BY <1>1 DEF Commands
  <1>7. N("x") \in LineType /\ N("y") \in LineType /\ N("w") \in LineType /\ N("h") \in LineType
    BY <1>2
  <1>8. LinesOf(of) \in Seq(LineType)
    <2>1. /\ <<T("ENTER")>> \in Seq(LineType)
          /\ <<T("MOUSE_SCROLL_UP")>> \in Seq(LineType)
      BY <1>5
    <2>2. <<T("MOUSE_MOVE"), N("x"), N("y")>> \in Seq(LineType)
      BY <1>5, <1>7
    <2>3. /\ <<T("MOUSE_BUTTON_LEFT"), T("MOUSE_BUTTON_PRESS"), T("MOUSE_BUTTON_RELEASE")>> \in Seq(LineType)
          /\ <<T("MOUSE_BUTTON_RIGHT"), T("MOUSE_BUTTON_PRESS"), T("MOUSE_BUTTON_RELEASE")>> \in Seq(LineType)
          /\ <<T("MOUSE_BUTTON_LEFT"), T("MOUSE_BUTTON_PRESS")>> \in Seq(LineType)
          /\ <<T("MOUSE_BUTTON_LEFT"), T("MOUSE_BUTTON_RELEASE")>> \in Seq(LineType)
      BY <1>5
    <2>4. /\ <<T("SCREEN_NORMAL"), T("SCREEN_TAKE")>> \in Seq(LineType)
          /\ <<T("SCREEN_ROTATE"), T("SCREEN_TAKE")>> \in Seq(LineType)
      BY <1>6
    <2>7. /\ <<T("MOUSE_BUTTON_LEFT"), T("MOUSE_BUTTON_PRESS"), T("MOUSE_BUTTON_RELEASE"),
               T("SCREEN_NORMAL"), T("SCREEN_TAKE")>> \in Seq(LineType)
          /\ <<T("MOUSE_BUTTON_LEFT"), T("MOUSE_BUTTON_PRESS"), T("MOUSE_BUTTON_RELEASE"),
               T("SCREEN_ROTATE"), T("SCREEN_TAKE")>> \in Seq(LineType)
      BY <1>5, <1>6
    <2>5. <<T("SCREEN_MODE_ON"), T("SCREEN_RESOLUTION"), N("w"), N("h")>> \in Seq(LineType)
      BY <1>6, <1>7
    <2>6. /\ <<T("SCREEN_MODE_OFF")>> \in Seq(LineType)
          /\ <<T("CONN_CLOSE")>> \in Seq(LineType)
      BY <1>6
    <2>. QED
      BY <1>4, <2>1, <2>2, <2>3, <2>4, <2>5, <2>6, <2>7, Zenon
  <1>9. LinesOf(of) # <<>>
    BY <1>4
  <1>. QED
    BY <1>8, <1>9

LEMMA LineIsTyped == Line \subseteq LineType
  BY GestureType DEF Line, Range

LEMMA GestureIsLines == ASSUME NEW of \in Gesture PROVE LinesOf(of) \in Seq(Line)
  <1>1. LinesOf(of) \in Seq(LineType)
    BY GestureType
  <1>2. \A k \in 1 .. Len(LinesOf(of)) : LinesOf(of)[k] \in Line
    BY <1>1 DEF Line, Range
  <1>. QED
    BY <1>1, <1>2

(* What treat_events leaves in the statics keeps their types. *)
LEMMA AfterEventType ==
    ASSUME NEW s \in SessionState, NEW l \in LineType, NEW shot
    PROVE  AfterEvent(s, l, shot) \in SessionState
  <1>1. NoMove(s) \in SessionState
    BY DEF NoMove, SessionState
  <1>2. AfterCommand(s, l) \in SessionState
    <2>1. Closed(s) \in SessionState
      BY DEF Closed, SessionState
    <2>2. ASSUME l.n \in Numbers \cup {Zero} PROVE Dimension(s, l.n) \in SessionState
      BY <2>2 DEF Dimension, SessionState
    <2>3. /\ [s EXCEPT !.screen_rotate = TRUE] \in SessionState
          /\ [s EXCEPT !.screen_rotate = FALSE] \in SessionState
          /\ [s EXCEPT !.flag = TRUE] \in SessionState
      BY DEF SessionState
    <2>4. l.n \in Numbers \cup {Zero}
      BY DEF LineType
    <2>. QED
      BY <2>1, <2>2, <2>3, <2>4 DEF AfterCommand
  <1>3. NoMove(AfterCommand(s, l)) \in SessionState
    BY <1>2 DEF NoMove, SessionState
  <1>4. [s EXCEPT !.mouse_event = TRUE] \in SessionState
    BY DEF SessionState
  <1>5. l.cmd \in Buttons => [s EXCEPT !.button = l.cmd] \in SessionState
    BY DEF SessionState
  <1>6. [s EXCEPT !.x_mouse = l.n, !.times = 1] \in SessionState
    BY DEF SessionState, LineType
  <1>. QED
    BY <1>1, <1>2, <1>3, <1>4, <1>5, <1>6 DEF AfterEvent

LEMMA EventResultType ==
    ASSUME NEW s \in SessionState, NEW l \in LineType, NEW shot
    PROVE  EventResult(s, l, shot) \in MouseEvents \cup Keys \cup Commands \cup {"NONE", "moved"}
  <1>1. CommandResult(s, l, shot) \in Commands \cup {"NONE"}
    BY DEF CommandResult, protocol_command, Commands
  <1>2. ~IsX(s, l) /\ ~IsY(s, l) /\ ~IsCommand(s, l) => l.cmd \in Keys \cup MouseEvents
    BY DEF IsX, IsY, IsCommand, IsOther, ecell_button_ewindow, ecell_mouse_ewindow, SessionState
  <1>. QED
    BY <1>1, <1>2 DEF EventResult

----------------------------------------------------------------------------
(* What each step keeps.                                                   *)

(* The loop's own invariants, stated by the instance of AmoraServer.       *)
LEMMA LoopFacts ==
    ASSUME LoopProofs!LoopInv
    PROVE  /\ Loop!TypeOK
           /\ Loop!LoopSetOK
           /\ Loop!PendingIsWatched
  BY DEF LoopProofs!LoopInv, LoopProofs!TypeOK, LoopProofs!LoopSetOK, LoopProofs!PendingIsWatched,
         LoopProofs!Fd, LoopProofs!IsHighest, LoopProofs!NextToScan,
         Loop!TypeOK, Loop!LoopSetOK, Loop!PendingIsWatched, Loop!Fd, Loop!IsHighest, Loop!NextToScan

(* Where the callback of a phone is when it begins: at a connection. *)
LEMMA ReadableIsPeer ==
    ASSUME TypeOK, Reported(i), i # SERVER_FD
    PROVE  i \in AnyFd /\ i \in Fd /\ Client \in Conn /\ (inq[Client] # <<>> \/ IsGone(Client))
  BY DEF TypeOK, Reported, Readable, Client

(* One connection is taken out of the backlog. *)
LEMMA WithoutIs ==
    ASSUME NEW S, NEW q \in Seq(S), NEW k \in 1 .. Len(q)
    PROVE  /\ Without(q, k) \in Seq(S)
           /\ Len(Without(q, k)) = Len(q) - 1
           /\ \A j \in 1 .. Len(q) - 1 : Without(q, k)[j] = IF j < k THEN q[j] ELSE q[j + 1]
  <1>. DEFINE a == SubSeq(q, 1, k - 1)
              b == SubSeq(q, k + 1, Len(q))
  <1>1. /\ a \in Seq(S) /\ Len(a) = k - 1
        /\ \A j \in 1 .. k - 1 : a[j] = q[j]
    OBVIOUS
  <1>2. /\ b \in Seq(S) /\ Len(b) = Len(q) - k
        /\ \A j \in 1 .. Len(q) - k : b[j] = q[k + j]
    OBVIOUS
  <1>. HIDE DEF a, b
  <1>3. a \o b \in Seq(S) /\ Len(a \o b) = Len(q) - 1
    BY <1>1, <1>2
  <1>4. ASSUME NEW j \in 1 .. Len(q) - 1 PROVE (a \o b)[j] = IF j < k THEN q[j] ELSE q[j + 1]
    <2>1. CASE j < k
      BY <1>1, <1>2, <2>1
    <2>2. CASE ~(j < k)
      <3>1. j - (k - 1) \in 1 .. Len(q) - k /\ k + (j - (k - 1)) = j + 1
        BY <2>2
      <3>2. (a \o b)[j] = b[j - (k - 1)]
        BY <1>1, <1>2, <2>2
      <3>. QED
        BY <1>2, <2>2, <3>1, <3>2
    <2>. QED
      BY <2>1, <2>2
  <1>. QED
    BY <1>3, <1>4 DEF Without, a, b

LEMMA WithdrawIs ==
    ASSUME TypeOK, NEW c \in Conn, Withdraw(c)
    PROVE  \E k \in 1 .. Len(backlog) :
             /\ backlog[k] = c
             /\ backlog' \in Seq(Conn)
             /\ Len(backlog') = Len(backlog) - 1
             /\ \A j \in 1 .. Len(backlog') : backlog'[j] = IF j < k THEN backlog[j] ELSE backlog[j + 1]
  <1>1. backlog \in Seq(Conn) /\ DOMAIN backlog = 1 .. Len(backlog)
    BY DEF TypeOK
  <1>2. PICK k \in 1 .. Len(backlog) : backlog[k] = c /\ backlog' = Without(backlog, k)
    BY <1>1 DEF Withdraw
  <1>. QED
    BY <1>1, <1>2, WithoutIs

LEMMA TypeStep ==
    ASSUME TypeOK, StillReadable, [Next]_vars, Loop!TypeOK'
    PROVE  TypeOK'
<1>. USE DEF TypeOK
<1>1. CASE UNCHANGED vars
  BY <1>1 DEF vars, loopVars, taskVars, noticeVars, netVars, phoneVars
<1>2. CASE ContextNew \/ Start \/ LoopStep \/ AtRest \/ AcceptFails
  BY <1>2 DEF ContextNew, Start, LoopStep, AtRest, AcceptFails, NotInCallback,
              vars, loopVars, taskVars, noticeVars, netVars, phoneVars
<1>3. CASE ContextDelete \/ ShotCrashes
  <2>1. /\ inq' \in [Conn -> Seq(Line)] /\ backlog' \in Seq(Conn) /\ peer' \in [AnyFd -> Conn \cup {NoConn}]
        /\ withdrawn' \subseteq Conn /\ server' = "exited"
    <3>1. Exit /\ <<>> \in Seq(Line) /\ <<>> \in Seq(Conn)
      BY <1>3 DEF ContextDelete, ShotCrashes
    <3>2. inq' = [d \in Conn |-> <<>>] /\ peer' = [f \in AnyFd |-> NoConn]
          /\ backlog' = <<>> /\ withdrawn' = {} /\ server' = "exited"
      BY <3>1 DEF Exit
    <3>. QED
      BY <3>1, <3>2
  <2>2. phone' \in [Conn -> {"idle", "connected", "asking", "gone"}]
    BY <1>3 DEF ContextDelete, ShotCrashes, phoneVars
  <2>. QED
    BY <1>3, <2>1, <2>2 DEF ContextDelete, ShotCrashes, loopVars, taskVars, noticeVars, phoneVars
<1>4. CASE Accept
  <2>1. Head(backlog) \in Conn /\ backlog' \in Seq(Conn)
    BY <1>4 DEF Accept
  <2>2. peer' \in [AnyFd -> Conn \cup {NoConn}]
    BY <1>4, <2>1 DEF Accept
  <2>. QED
    BY <1>4, <2>1, <2>2 DEF Accept, phoneVars
<1>5. CASE ReadLines
  <2>1. PICK k \in 1 .. MaxBatch :
          /\ k <= Len(inq[Client])
          /\ batch' = SubSeq(inq[Client], 1, k)
          /\ inq' = [inq EXCEPT ![Client] = SubSeq(@, k + 1, Len(@))]
    BY <1>5 DEF ReadLines
  <2>2. Client \in Conn
    BY <1>5, ReadableIsPeer DEF ReadLines, InClientCb, StillReadable
  <2>3. SubSeq(inq[Client], 1, k) \in Seq(Line)
    BY <2>1, <2>2, BoundAssumption
  <2>4. SubSeq(inq[Client], k + 1, Len(inq[Client])) \in Seq(Line)
    BY <2>1, <2>2, BoundAssumption
  <2>. QED
    BY <1>5, <2>1, <2>3, <2>4 DEF ReadLines, loopVars, noticeVars, phoneVars
<1>6. CASE ReadFails \/ ReadSpins
  BY <1>6 DEF ReadFails, ReadSpins, loopVars, noticeVars, netVars, phoneVars
<1>7. CASE TreatLine
  <2>1. PICK shot \in ShotOf(Head(batch)) :
          /\ st' = AfterEvent(st, Head(batch), shot)
          /\ result' = EventResult(st, Head(batch), shot)
    BY <1>7 DEF TreatLine
  <2>2. Head(batch) \in Line /\ batch' \in Seq(Line)
    BY <1>7 DEF TreatLine
  <2>3. st' \in SessionState
    BY <2>1, <2>2, LineIsTyped, AfterEventType
  <2>4. result' \in MouseEvents \cup Keys \cup Commands \cup {"NONE", "moved"}
    BY <2>1, <2>2, LineIsTyped, EventResultType
  <2>5. phone' \in [Conn -> {"idle", "connected", "asking", "gone"}]
    BY <1>7 DEF TreatLine
  <2>. QED
    BY <1>7, <2>2, <2>3, <2>4, <2>5 DEF TreatLine, loopVars, noticeVars, netVars
<1>8. CASE FinishLines
  BY <1>8 DEF FinishLines, Dropped, loopVars, noticeVars, phoneVars
<1>9. CASE ReturnZero
  BY <1>9 DEF ReturnZero, noticeVars, netVars, phoneVars
<1>10. ASSUME NEW c \in Conn, PhoneStep(c) PROVE TypeOK'
  <2>. USE DEF loopVars, taskVars, noticeVars, netVars
  <2>1. CASE Connect(c)
    <3>1. PICK g \in Greetings : todo' = [todo EXCEPT ![c] = LinesOf(<<c, 0, g>>)]
      BY <2>1 DEF Connect
    <3>2. <<c, 0, g>> \in Gesture
      BY BoundAssumption DEF Gesture
    <3>3. LinesOf(<<c, 0, g>>) \in Seq(Line)
      BY <3>2, GestureIsLines
    <3>4. backlog' \in Seq(Conn)
      BY <2>1 DEF Connect
    <3>. QED
      BY <2>1, <3>1, <3>3, <3>4 DEF Connect
  <2>2. CASE Begin(c)
    <3>1. PICK g \in Gestures : todo' = [todo EXCEPT ![c] = LinesOf(<<c, count'[c], g>>)]
      BY <2>2 DEF Begin
    <3>2. count' \in [Conn -> 0 .. MaxGestures]
      BY <2>2, BoundAssumption DEF Begin
    <3>3. <<c, count'[c], g>> \in Gesture
      BY <3>2, BoundAssumption DEF Gesture
    <3>4. LinesOf(<<c, count'[c], g>>) \in Seq(Line)
      BY <3>3, GestureIsLines
    <3>. QED
      BY <2>2, <3>1, <3>2, <3>4 DEF Begin
  <2>3. CASE Send(c)
    <3>1. Head(todo[c]) \in Line /\ Tail(todo[c]) \in Seq(Line)
      BY <2>3 DEF Send
    <3>2. Append(inq[c], Head(todo[c])) \in Seq(Line)
      BY <3>1
    <3>3. phone' \in [Conn -> {"idle", "connected", "asking", "gone"}]
      BY <2>3 DEF Send
    <3>. QED
      BY <2>3, <3>1, <3>2, <3>3 DEF Send
  <2>4. CASE HangUp(c)
    <3>1. <<c, MaxGestures + 1, "close">> \in Gesture
      BY BoundAssumption DEF Gesture
    <3>2. inq[c] \o LinesOf(<<c, MaxGestures + 1, "close">>) \in Seq(Line)
      BY <3>1, GestureIsLines
    <3>. QED
      BY <2>4, <3>2 DEF HangUp
  <2>5. CASE Vanish(c) \/ Notice(c)
    <3>1. /\ phone' = [phone EXCEPT ![c] = "gone"]
          /\ todo' = [todo EXCEPT ![c] = <<>>]
          /\ UNCHANGED <<loopVars, server, taskVars, noticeVars, netVars, count>>
      BY <2>5 DEF Vanish, Notice
    <3>2. todo' \in [Conn -> Seq(Line)] /\ phone' \in [Conn -> {"idle", "connected", "asking", "gone"}]
      BY <3>1
    <3>. QED
      BY <3>1, <3>2
  <2>6. CASE Withdraw(c)
    <3>1. inq' \in [Conn -> Seq(Line)] /\ withdrawn' \subseteq Conn
      BY <2>6 DEF Withdraw
    <3>2. backlog' \in Seq(Conn)
      BY <2>6, WithdrawIs
    <3>. QED
      BY <2>6, <3>1, <3>2 DEF Withdraw, phoneVars
  <2>. QED
    BY <1>10, <2>1, <2>2, <2>3, <2>4, <2>5, <2>6 DEF PhoneStep
<1>. HIDE DEF TypeOK
<1>. QED
  BY <1>1, <1>2, <1>3, <1>4, <1>5, <1>6, <1>7, <1>8, <1>9, <1>10 DEF Next, ServerStep

LEMMA LifecycleStep ==
    ASSUME TypeOK, Lifecycle, StillReadable, [Next]_vars
    PROVE  Lifecycle'
<1>. USE DEF Lifecycle
<1>1. CASE UNCHANGED <<loopVars, server, task, peer>>
  BY <1>1 DEF loopVars
<1>2. CASE ContextNew \/ Start
  <2>1. server' # "new" /\ task' = task /\ task = "idle" /\ (server' # "running" => pc' = "stopped")
    BY <1>2 DEF ContextNew, Start, NotInCallback, taskVars, Loop!Add, Loop!Enter, Loop!locals
  <2>. QED
    BY <2>1
<1>3. CASE LoopStep
  <2>1. server' = "running" /\ task' = task /\ pc # "callback"
    BY <1>3 DEF LoopStep, NotInCallback, taskVars, Loop!Select, Loop!SelectFails, Loop!Dispatch,
                Loop!LeaveWhenEmpty, Loop!NextPass, Loop!EndOfPass
  <2>. QED
    BY <2>1
<1>4. CASE ContextDelete \/ ShotCrashes
  BY <1>4 DEF ContextDelete, ShotCrashes, Exit, InClientCb, loopVars, taskVars
<1>5. CASE Accept \/ AcceptFails \/ ReturnZero
  <2>1. server = "running" /\ UNCHANGED server /\ task' \in {"idle", "done"}
        /\ (pc' # "callback" => task' = "idle")
    BY <1>5 DEF Accept, AcceptFails, ReturnZero, InServerCb, InClientCb, NotInCallback, taskVars,
                Loop!Add, Loop!Return
  <2>. QED
    BY <2>1
<1>6. CASE ReadLines \/ ReadFails \/ ReadSpins
  <2>1. InClientCb /\ task = "idle" /\ UNCHANGED <<server, loopVars, peer>> /\ task' \in {"lines", "spinning"}
    BY <1>6 DEF ReadLines, ReadFails, ReadSpins, AtEnd, netVars
  <2>2. i \in AnyFd /\ peer[i] # NoConn
    BY <2>1, ReadableIsPeer, ConnAssumption DEF StillReadable, InClientCb, Client
  <2>. QED
    BY <2>1, <2>2 DEF InClientCb, loopVars
<1>7. CASE FinishLines
  <2>1. InClientCb /\ UNCHANGED <<server, pc>> /\ task' = "done"
    BY <1>7 DEF FinishLines, Dropped, Loop!Remove, loopVars
  <2>. QED
    BY <2>1 DEF InClientCb
<1>8. CASE TreatLine \/ AtRest \/ UNCHANGED vars
  BY <1>1, <1>8 DEF TreatLine, AtRest, vars, taskVars, netVars
<1>9. ASSUME NEW c \in Conn, PhoneStep(c) PROVE Lifecycle'
  BY <1>1, <1>9 DEF PhoneStep, Connect, Begin, Send, HangUp, Vanish, Withdraw, Notice, netVars, taskVars
<1>. HIDE DEF Lifecycle
<1>. QED
  BY <1>2, <1>3, <1>4, <1>5, <1>6, <1>7, <1>8, <1>9 DEF Next, ServerStep

LEMMA WatchedStep ==
    ASSUME TypeOK, Lifecycle, WatchedIsOpen, [Next]_vars
    PROVE  WatchedIsOpen'
<1>. USE DescriptorFacts
<1>1. CASE UNCHANGED <<readfds, server, peer>>
  BY <1>1 DEF WatchedIsOpen
<1>2. CASE ContextNew
  <2>1. UNCHANGED peer /\ peer = [f \in AnyFd |-> NoConn] /\ readfds = {} /\ SERVER_FD \in Loop!Fd
    BY <1>2 DEF ContextNew, Lifecycle, netVars, Loop!Fd, Fd
  <2>2. readfds' = {SERVER_FD}
    BY <1>2, <2>1, CallbackAssumption DEF ContextNew, Loop!Add, Loop!Added, Loop!NotAdded
  <2>. QED
    BY <2>1, <2>2 DEF WatchedIsOpen
<1>3. CASE Start
  BY <1>3 DEF Start, WatchedIsOpen, Loop!Enter, Loop!loop_set, netVars
<1>4. CASE LoopStep \/ AcceptFails \/ ReturnZero
  BY <1>1, <1>4 DEF LoopStep, AcceptFails, ReturnZero, netVars, Loop!Select, Loop!SelectFails, Loop!Dispatch,
                    Loop!LeaveWhenEmpty, Loop!NextPass, Loop!Return, Loop!loop_set
<1>5. CASE ContextDelete \/ ShotCrashes
  BY <1>5 DEF ContextDelete, ShotCrashes, Exit, WatchedIsOpen
<1>6. CASE Accept
  <2>1. PICK f \in AnyFd :
          /\ IsNext(f)
          /\ peer' = [peer EXCEPT ![f] = Head(backlog)]
          /\ Loop!Add(f, "amora", "client_socket_cb")
    BY <1>6 DEF Accept
  <2>2. server = "running" /\ UNCHANGED server /\ Head(backlog) # NoConn /\ peer[f] = NoConn
    BY <1>6, <2>1, ConnAssumption DEF Accept, InServerCb, IsNext, TypeOK
  <2>3. f \notin readfds
    BY <2>2 DEF WatchedIsOpen
  <2>4. readfds' = IF f \in Fd THEN readfds \cup {f} ELSE readfds
    BY <2>1, <2>3, CallbackAssumption DEF Loop!Add, Loop!Added, Loop!NotAdded, Loop!loop_set, Loop!Fd, Fd
  <2>5. {g \in AnyFd \cap Fd : peer'[g] # NoConn}
          = {g \in AnyFd \cap Fd : peer[g] # NoConn} \cup ({f} \cap Fd)
    BY <2>1, <2>2 DEF TypeOK
  <2>. QED
    BY <2>2, <2>4, <2>5 DEF WatchedIsOpen
<1>7. CASE FinishLines
  <2>1. CASE Dropped(i)
    <3>1. i # SERVER_FD /\ server = "running" /\ UNCHANGED server
      BY <1>7 DEF FinishLines, InClientCb
    <3>2. readfds' = readfds \ {i} /\ peer' = [peer EXCEPT ![i] = NoConn]
      BY <2>1 DEF Dropped, Loop!Remove, Loop!Removed
    <3>3. {g \in AnyFd \cap Fd : peer'[g] # NoConn}
            = {g \in AnyFd \cap Fd : peer[g] # NoConn} \ {i}
      BY <3>2 DEF TypeOK
    <3>. QED
      BY <3>1, <3>2, <3>3 DEF WatchedIsOpen
  <2>. QED
    BY <1>1, <1>7, <2>1 DEF FinishLines, loopVars
<1>8. CASE ReadLines \/ ReadFails \/ ReadSpins \/ TreatLine \/ AtRest \/ UNCHANGED vars
  BY <1>1, <1>8 DEF ReadLines, ReadFails, ReadSpins, TreatLine, AtRest, vars, loopVars, netVars
<1>9. ASSUME NEW c \in Conn, PhoneStep(c) PROVE WatchedIsOpen'
  BY <1>1, <1>9 DEF PhoneStep, Connect, Begin, Send, HangUp, Vanish, Withdraw, Notice, netVars, loopVars
<1>. QED
  BY <1>2, <1>3, <1>4, <1>5, <1>6, <1>7, <1>8, <1>9 DEF Next, ServerStep

LEMMA OnePlaceStep ==
    ASSUME TypeOK, Lifecycle, OnePlace, [Next]_vars
    PROVE  OnePlace'
<1>1. CASE /\ UNCHANGED <<peer, backlog>>
           /\ \A c \in Conn : phone'[c] = "idle" => phone[c] = "idle"
  BY <1>1 DEF OnePlace
<1>2. CASE Accept
  <2>1. PICK f \in AnyFd : IsNext(f) /\ peer' = [peer EXCEPT ![f] = Head(backlog)]
    BY <1>2 DEF Accept
  <2>2. backlog # <<>> /\ backlog' = Tail(backlog) /\ UNCHANGED phone /\ backlog \in Seq(Conn)
    BY <1>2 DEF Accept, phoneVars, TypeOK
  <2>3. Head(backlog) = backlog[1] /\ Len(backlog') = Len(backlog) - 1 /\ Len(backlog) \in Nat \ {0}
        /\ \A k \in 1 .. Len(backlog') : backlog'[k] = backlog[k + 1] /\ k + 1 \in 1 .. Len(backlog)
    BY <2>2
  <2>4. \A g \in AnyFd : peer'[g] = IF g = f THEN backlog[1] ELSE peer[g]
    BY <2>1, <2>3 DEF TypeOK
  <2>5. \A g, h \in AnyFd : peer'[g] = peer'[h] /\ peer'[g] # NoConn => g = h
    BY <2>3, <2>4 DEF OnePlace
  <2>6. \A j, k \in 1 .. Len(backlog') : backlog'[j] = backlog'[k] => j = k
    BY <2>3 DEF OnePlace
  <2>7. \A g \in AnyFd, k \in 1 .. Len(backlog') : peer'[g] # backlog'[k]
    BY <2>3, <2>4 DEF OnePlace
  <2>8. \A c \in Conn : phone'[c] = "idle" =>
          (\A g \in AnyFd : peer'[g] # c) /\ (\A k \in 1 .. Len(backlog') : backlog'[k] # c)
    BY <2>2, <2>3, <2>4 DEF OnePlace
  <2>. QED
    BY <2>5, <2>6, <2>7, <2>8 DEF OnePlace
<1>3. CASE FinishLines /\ Dropped(i)
  <2>1. peer' = [peer EXCEPT ![i] = NoConn] /\ UNCHANGED <<backlog, phone>>
    BY <1>3 DEF FinishLines, Dropped, phoneVars
  <2>2. \A g \in AnyFd : peer'[g] = IF g = i THEN NoConn ELSE peer[g]
    BY <2>1 DEF TypeOK
  <2>3. \A k \in 1 .. Len(backlog) : backlog[k] # NoConn
    BY ConnAssumption DEF TypeOK
  <2>. QED
    BY <2>1, <2>2, <2>3, ConnAssumption DEF OnePlace
<1>4. CASE ContextDelete \/ ShotCrashes
  <2>1. Len(backlog') = 0 /\ \A g \in AnyFd : peer'[g] = NoConn
    BY <1>4 DEF ContextDelete, ShotCrashes, Exit
  <2>. QED
    BY <2>1, ConnAssumption DEF OnePlace
<1>5. ASSUME NEW c \in Conn, Connect(c) PROVE OnePlace'
  <2>1. /\ UNCHANGED peer /\ backlog' = Append(backlog, c) /\ phone[c] = "idle"
        /\ phone' = [phone EXCEPT ![c] = "connected"] /\ backlog \in Seq(Conn)
    BY <1>5 DEF Connect, TypeOK
  <2>2. /\ Len(backlog') = Len(backlog) + 1 /\ Len(backlog) \in Nat
        /\ \A k \in 1 .. Len(backlog') : backlog'[k] = IF k <= Len(backlog) THEN backlog[k] ELSE c
    BY <2>1
  <2>3. \A d \in Conn : phone'[d] = "idle" => phone[d] = "idle" /\ d # c
    BY <2>1 DEF TypeOK
  <2>4. \A j, k \in 1 .. Len(backlog') : backlog'[j] = backlog'[k] => j = k
    BY <2>1, <2>2 DEF OnePlace
  <2>5. \A g \in AnyFd, k \in 1 .. Len(backlog') : peer'[g] # backlog'[k]
    BY <2>1, <2>2 DEF OnePlace
  <2>6. \A d \in Conn : phone'[d] = "idle" =>
          (\A g \in AnyFd : peer'[g] # d) /\ (\A k \in 1 .. Len(backlog') : backlog'[k] # d)
    BY <2>1, <2>2, <2>3 DEF OnePlace
  <2>. QED
    BY <2>1, <2>4, <2>5, <2>6 DEF OnePlace
<1>6. ASSUME NEW c \in Conn, Send(c) \/ HangUp(c) \/ Vanish(c) \/ Notice(c) PROVE OnePlace'
  <2>1. /\ UNCHANGED <<peer, backlog>>
        /\ phone[c] # "idle"
        /\ \E x \in {"asking", "gone", phone[c]} : phone' = [phone EXCEPT ![c] = x]
    BY <1>6 DEF Send, HangUp, Vanish, Notice, netVars
  <2>. QED
    BY <1>1, <2>1 DEF TypeOK
<1>11. ASSUME NEW c \in Conn, Withdraw(c) PROVE OnePlace'
  <2>1. PICK k \in 1 .. Len(backlog) :
          /\ Len(backlog') = Len(backlog) - 1
          /\ \A j \in 1 .. Len(backlog') : backlog'[j] = IF j < k THEN backlog[j] ELSE backlog[j + 1]
    BY <1>11, WithdrawIs
  <2>2. UNCHANGED <<peer, phone>> /\ Len(backlog) \in Nat
    BY <1>11 DEF Withdraw, phoneVars, TypeOK
  <2>3. \A j \in 1 .. Len(backlog') : \E m \in 1 .. Len(backlog) :
          backlog'[j] = backlog[m] /\ m = IF j < k THEN j ELSE j + 1
    BY <2>1, <2>2
  <2>4. \A j, m \in 1 .. Len(backlog') : backlog'[j] = backlog'[m] => j = m
    <3>1. ASSUME NEW j \in 1 .. Len(backlog'), NEW m \in 1 .. Len(backlog'), backlog'[j] = backlog'[m]
          PROVE  j = m
      <4>1. \A x, y \in 1 .. Len(backlog) : backlog[x] = backlog[y] => x = y
        BY DEF OnePlace
      <4>2. (IF j < k THEN j ELSE j + 1) = (IF m < k THEN m ELSE m + 1)
        BY <2>3, <3>1, <4>1
      <4>3. j \in Int /\ m \in Int /\ k \in Int
        OBVIOUS
      <4>. QED
        BY <4>2, <4>3
    <3>. QED
      BY <3>1
  <2>5. \A g \in AnyFd, j \in 1 .. Len(backlog') : peer'[g] # backlog'[j]
    BY <2>2, <2>3 DEF OnePlace
  <2>6. \A d \in Conn : phone'[d] = "idle" =>
          (\A g \in AnyFd : peer'[g] # d) /\ (\A j \in 1 .. Len(backlog') : backlog'[j] # d)
    BY <2>2, <2>3 DEF OnePlace
  <2>7. \A f, g \in AnyFd : peer'[f] = peer'[g] /\ peer'[f] # NoConn => f = g
    BY <2>2 DEF OnePlace
  <2>. QED
    BY <2>4, <2>5, <2>6, <2>7 DEF OnePlace
<1>7. ASSUME NEW c \in Conn, PhoneStep(c) PROVE OnePlace'
  BY <1>1, <1>5, <1>6, <1>7, <1>11 DEF PhoneStep, Begin, netVars
<1>8. CASE TreatLine
  <2>1. UNCHANGED <<peer, backlog>> /\ \E x \in {"connected", phone[Client]} : phone' = [phone EXCEPT ![Client] = x]
    BY <1>8 DEF TreatLine, netVars
  <2>. QED
    BY <1>1, <2>1 DEF TypeOK
<1>9. CASE ContextNew \/ Start \/ LoopStep \/ AcceptFails \/ ReadLines \/ ReadFails \/ ReadSpins
           \/ ReturnZero \/ AtRest \/ UNCHANGED vars
  BY <1>1, <1>9 DEF ContextNew, Start, LoopStep, AcceptFails, ReadLines, ReadFails, ReadSpins, ReturnZero,
                    AtRest, vars, netVars, phoneVars
<1>10. CASE FinishLines
  BY <1>1, <1>3, <1>10 DEF FinishLines, phoneVars
<1>. QED
  BY <1>2, <1>4, <1>7, <1>8, <1>9, <1>10 DEF Next, ServerStep

(* What StillReadable needs of a step outside the loop's own moves. *)
LEMMA ReadableKeeps ==
    ASSUME TypeOK, StillReadable, UNCHANGED <<pc, ready, i>>, server' = "running" => server = "running",
           \A f \in Fd : Reported(f) => Reported(f)' \/ (pc = "callback" /\ f = i),
           pc = "callback" /\ task' = "idle" => task = "idle" /\ (Reported(i) => Reported(i)')
    PROVE  StillReadable'
  <1>1. ASSUME server = "running", pc \in {"scan", "callback"}, NEW f \in ready, f >= Loop!NextToScan
        PROVE  Reported(f)'
    <2>1. Reported(f) /\ f \in Fd
      BY <1>1 DEF StillReadable, TypeOK, Loop!TypeOK, Loop!Fd, Fd
    <2>. QED
      BY <1>1, <2>1, DescriptorFacts DEF Loop!NextToScan, TypeOK, Loop!TypeOK, Loop!Fd, Fd
  <1>2. Loop!NextToScan' = Loop!NextToScan
    BY DEF Loop!NextToScan
  <1>. QED
    BY <1>1, <1>2 DEF StillReadable

LEMMA ReadableStep ==
    ASSUME TypeOK, Lifecycle, OnePlace, StillReadable, [Next]_vars
    PROVE  StillReadable'
<1>1. CASE UNCHANGED <<server, peer, backlog, inq, withdrawn, phone, pc, ready, i, task>>
  BY <1>1 DEF StillReadable, Reported, Readable, IsGone, Loop!NextToScan
<1>2. CASE server' # "running" \/ pc' \in {"stopped", "select"}
  BY <1>2 DEF StillReadable
<1>3. CASE LoopStep
  <2>1. /\ server = "running" /\ UNCHANGED <<peer, backlog, inq, phone>>
        /\ \/ pc' \in {"stopped", "select"}
           \/ Loop!Select
           \/ Loop!Dispatch /\ UNCHANGED withdrawn
    BY <1>3 DEF LoopStep, phoneVars, Loop!SelectFails, Loop!LeaveWhenEmpty, Loop!NextPass
  <2>2. Readable' = Readable
    BY <2>1 DEF Readable, IsGone
  <2>3. CASE Loop!Select
    BY <2>2, <2>3 DEF Loop!Select, Loop!Readable, StillReadable, Reported
  <2>4. CASE Loop!Dispatch /\ UNCHANGED withdrawn
    <3>1. /\ pc = "scan" /\ pc' = "callback" /\ UNCHANGED ready
          /\ i' \in ready /\ i <= i' /\ i \in Nat /\ ready \subseteq Fd
      BY <2>4 DEF Loop!Dispatch, Loop!Pending, TypeOK, Loop!TypeOK, Loop!Fd, Fd
    <3>2. \A f \in ready : f >= i => Reported(f)
      BY <2>1, <3>1 DEF StillReadable, Loop!NextToScan
    <3>3. \A f : Reported(f) => Reported(f)'
      BY <2>2, <2>4 DEF Reported
    <3>4. \A f \in ready : f >= Loop!NextToScan' => Reported(f)'
      BY <3>1, <3>2, <3>3, DescriptorFacts DEF Loop!NextToScan
    <3>5. Reported(i')
      BY <3>1, <3>2
    <3>6. Reported(i)'
      BY <2>2, <2>4, <3>5 DEF Reported
    <3>. QED
      BY <3>1, <3>4, <3>6 DEF StillReadable
  <2>. QED
    BY <1>2, <2>1, <2>3, <2>4
<1>4. CASE Accept
  <2>1. PICK g \in AnyFd :
          /\ IsNext(g)
          /\ peer' = [peer EXCEPT ![g] = Head(backlog)]
          /\ Loop!Add(g, "amora", "client_socket_cb")
    BY <1>4 DEF Accept
  <2>2. /\ UNCHANGED <<server, pc, ready, i, inq, withdrawn, phone>> /\ task' = "done"
        /\ pc = "callback" /\ i = SERVER_FD /\ peer[g] = NoConn
    BY <1>4, <2>1 DEF Accept, InServerCb, IsNext, phoneVars, Loop!Add, Loop!locals
  <2>3. \A f \in AnyFd : f # g => peer'[f] = peer[f]
    BY <2>1 DEF TypeOK
  <2>4. \A f \in Fd : Reported(f) => Reported(f)' \/ f = i
    BY <2>2, <2>3, DescriptorFacts DEF Reported, Readable, IsGone
  <2>. QED
    BY <2>2, <2>4, ReadableKeeps
<1>5. CASE ReadLines
  <2>1. /\ UNCHANGED <<server, pc, ready, i, peer, backlog, withdrawn, phone>> /\ task' = "lines"
        /\ InClientCb /\ task = "idle"
        /\ \E q : inq' = [inq EXCEPT ![Client] = q]
    BY <1>5 DEF ReadLines, loopVars, phoneVars
  <2>2. i \in AnyFd /\ peer[i] # NoConn
    BY <2>1, ReadableIsPeer, ConnAssumption DEF StillReadable, InClientCb, Client
  <2>3. \A f \in AnyFd : f # i /\ peer[f] # NoConn => inq'[peer[f]] = inq[peer[f]]
    BY <2>1, <2>2 DEF TypeOK, OnePlace, Client
  <2>4. \A f \in Fd : Reported(f) => Reported(f)' \/ f = i
    BY <2>1, <2>3 DEF Reported, Readable, IsGone
  <2>. QED
    BY <2>1, <2>4, ReadableKeeps DEF InClientCb
<1>6. CASE ReadFails \/ ReadSpins
  <2>1. UNCHANGED <<server, pc, ready, i, peer, backlog, inq, withdrawn, phone>> /\ task' # "idle"
    BY <1>6 DEF ReadFails, ReadSpins, loopVars, netVars, phoneVars
  <2>2. \A f : Reported(f) => Reported(f)'
    BY <2>1 DEF Reported, Readable, IsGone
  <2>. QED
    BY <2>1, <2>2, ReadableKeeps
<1>7. CASE TreatLine
  <2>1. /\ UNCHANGED <<server, pc, ready, i, peer, backlog, inq, withdrawn, task>> /\ task = "lines"
        /\ \E x : phone' = [phone EXCEPT ![Client] = x] /\ (phone[Client] # "asking" => x = phone[Client])
    BY <1>7 DEF TreatLine, loopVars, netVars
  <2>2. \A c \in Conn : phone[c] = "gone" => phone'[c] = "gone"
    BY <2>1 DEF TypeOK
  <2>3. \A f \in Readable : f \in Readable'
    BY <2>1, <2>2 DEF Readable, IsGone, TypeOK
  <2>4. \A f : Reported(f) => Reported(f)'
    BY <2>1, <2>3 DEF Reported
  <2>. QED
    BY <2>1, <2>4, ReadableKeeps
<1>8. CASE FinishLines
  <2>1. UNCHANGED <<server, pc, ready, i, backlog, inq, withdrawn, phone>> /\ task' = "done" /\ InClientCb
    BY <1>8 DEF FinishLines, Dropped, Loop!Remove, Loop!locals, loopVars, phoneVars
  <2>2. peer' = peer \/ peer' = [peer EXCEPT ![i] = NoConn]
    BY <1>8 DEF FinishLines, Dropped
  <2>3. \A f \in AnyFd : f # i => peer'[f] = peer[f]
    BY <2>2 DEF TypeOK
  <2>4. \A f \in Fd : Reported(f) => Reported(f)' \/ f = i
    BY <2>1, <2>3 DEF Reported, Readable, IsGone
  <2>. QED
    BY <2>1, <2>4, ReadableKeeps DEF InClientCb
<1>9. CASE AcceptFails \/ ReturnZero
  <2>1. /\ server = "running" /\ pc = "callback"
        /\ UNCHANGED <<peer, backlog, inq, withdrawn, phone, ready>>
        /\ (pc' = "stopped" \/ (pc' = "scan" /\ i' = i + 1))
    BY <1>9 DEF AcceptFails, ReturnZero, InServerCb, InClientCb, Loop!Return, netVars, phoneVars
  <2>2. \A f : Reported(f) => Reported(f)'
    BY <2>1 DEF Reported, Readable, IsGone
  <2>. QED
    BY <2>1, <2>2 DEF StillReadable, Loop!NextToScan
<1>10. ASSUME NEW c \in Conn, PhoneStep(c) PROVE StillReadable'
  <2>1. UNCHANGED <<server, pc, ready, i, task, peer>>
    BY <1>10 DEF PhoneStep, Connect, Begin, Send, HangUp, Vanish, Withdraw, Notice, loopVars, taskVars, netVars
  <2>2. (backlog # <<>> => backlog' # <<>> \/ withdrawn' # {}) /\ (withdrawn # {} => withdrawn' # {})
    <3>1. CASE Withdraw(c)
      BY <3>1 DEF Withdraw
    <3>2. CASE ~Withdraw(c)
      BY <1>10, <3>2 DEF PhoneStep, Connect, Begin, Send, HangUp, Vanish, Notice, netVars, TypeOK
    <3>. QED
      BY <3>1, <3>2
  <2>3. \A d \in Conn : inq[d] # <<>> => inq'[d] # <<>> \/ \A f \in AnyFd : peer[f] # d
    <3>1. ASSUME NEW d \in Conn, NEW q \in Seq(Line), inq[d] # <<>>, inq' = [inq EXCEPT ![c] = @ \o q]
          PROVE  inq'[d] # <<>>
      <4>1. inq[d] \in Seq(Line) /\ inq'[d] \in {inq[d], inq[d] \o q}
        BY <3>1 DEF TypeOK
      <4>2. inq[d] \o q # <<>>
        BY <3>1, <4>1
      <4>. QED
        BY <3>1, <4>1, <4>2
    <3>2. CASE Send(c)
      <4>1. inq[c] \in Seq(Line) /\ Head(todo[c]) \in Line
        BY <3>2 DEF Send, TypeOK
      <4>2. Append(inq[c], Head(todo[c])) # <<>>
        BY <4>1
      <4>. QED
        BY <3>2, <4>2 DEF Send, TypeOK
    <3>3. CASE HangUp(c)
      <4>1. <<c, MaxGestures + 1, "close">> \in Gesture
        BY BoundAssumption DEF Gesture
      <4>. QED
        BY <3>1, <3>3, <4>1, GestureIsLines DEF HangUp
    <3>4. CASE Withdraw(c)
      <4>1. \A f \in AnyFd : peer[f] # c
        BY <3>4, WithdrawIs DEF OnePlace
      <4>2. \A d \in Conn \ {c} : inq'[d] = inq[d]
        BY <3>4 DEF Withdraw, TypeOK
      <4>. QED
        BY <4>1, <4>2
    <3>. QED
      BY <1>10, <3>2, <3>3, <3>4 DEF PhoneStep, Connect, Begin, Vanish, Notice, netVars
  <2>4. \A d \in Conn : phone[d] = "gone" => phone'[d] = "gone"
    BY <1>10 DEF PhoneStep, Connect, Begin, Send, HangUp, Vanish, Withdraw, Notice, phoneVars, TypeOK
  <2>5. \A f \in AnyFd \cap Fd : f \in Readable => f \in Readable'
    BY <2>1, <2>3, <2>4, DescriptorFacts DEF Readable, IsGone, TypeOK
  <2>6. Reported(SERVER_FD) => Reported(SERVER_FD)'
    BY <2>2, DescriptorFacts DEF Reported, Readable
  <2>7. \A f \in Fd : Reported(f) => Reported(f)'
    BY <2>5, <2>6 DEF Reported, Readable
  <2>8. i \in Readable \cup {SERVER_FD} => i \in Fd
    BY ReadableIsFd, DescriptorFacts
  <2>. QED
    BY <2>1, <2>7, <2>8, ReadableKeeps DEF Reported
<1>11. CASE ContextNew \/ Start \/ ContextDelete \/ ShotCrashes
  BY <1>2, <1>11 DEF ContextNew, Start, ContextDelete, ShotCrashes, Exit, Lifecycle, Loop!Enter, Loop!Add, loopVars
<1>12. CASE AtRest \/ UNCHANGED vars
  BY <1>1, <1>12 DEF AtRest, vars, loopVars, netVars, phoneVars, taskVars
<1>. QED
  BY <1>3, <1>4, <1>5, <1>6, <1>7, <1>8, <1>9, <1>10, <1>11, <1>12 DEF Next, ServerStep

----------------------------------------------------------------------------
(* The theorems.                                                            *)

LEMMA InitInv ==
    ASSUME Init, Loop!TypeOK
    PROVE  ServerInv
<1>1. TypeOK
  <2>1. st \in SessionState
    BY DEF Init, Statics, SessionState
  <2>2. <<>> \in Seq(Conn) /\ <<>> \in Seq(Line)
    OBVIOUS
  <2>3. /\ peer \in [AnyFd -> Conn \cup {NoConn}]
        /\ inq \in [Conn -> Seq(Line)] /\ todo \in [Conn -> Seq(Line)]
        /\ phone \in [Conn -> {"idle", "connected", "asking", "gone"}]
        /\ count \in [Conn -> 0 .. MaxGestures]
    BY <2>2, BoundAssumption DEF Init
  <2>4. /\ server \in {"new", "ready", "running", "exited"}
        /\ task \in {"idle", "lines", "spinning", "done"}
        /\ result \in MouseEvents \cup Keys \cup Commands \cup {"none", "-1", "NONE", "moved"}
        /\ client_name \in Conn \cup {NoConn}
        /\ phones \subseteq Conn
    BY DEF Init
  <2>5. backlog \in Seq(Conn) /\ batch \in Seq(Line)
    BY <2>2 DEF Init
  <2>6. withdrawn \subseteq Conn
    BY DEF Init
  <2>. QED
    BY <2>1, <2>3, <2>4, <2>5, <2>6 DEF TypeOK
<1>2. Lifecycle
  BY DEF Init, Loop!LoopInit, Lifecycle
<1>3. OnePlace
  <2>1. Len(backlog) = 0 /\ \A f \in AnyFd : peer[f] = NoConn
    BY DEF Init
  <2>. QED
    BY <2>1, ConnAssumption DEF OnePlace
<1>4. WatchedIsOpen /\ StillReadable
  BY DEF Init, Loop!LoopInit, WatchedIsOpen, StillReadable
<1>. QED
  BY <1>1, <1>2, <1>3, <1>4 DEF ServerInv

LEMMA NextInv ==
    ASSUME ServerInv, [Next]_vars, Loop!TypeOK'
    PROVE  ServerInv'
  BY TypeStep, LifecycleStep, OnePlaceStep, WatchedStep, ReadableStep DEF ServerInv

LEMMA Invariant == Spec => []ServerInv
  <1>1. LoopProofs!LoopInv => Loop!TypeOK
    BY LoopFacts
  <1>2. Loop!TypeOK /\ Init => ServerInv
    BY InitInv
  <1>3. ServerInv /\ [Next]_vars /\ Loop!TypeOK' => ServerInv'
    BY NextInv
  <1>. QED
    BY <1>1, <1>2, <1>3, LoopInvariant, PTL DEF Spec

(* The registry, the connections, the lines and the statics have their     *)
(* types in every state: in particular every line treated is one a phone   *)
(* can say.                                                                *)
THEOREM TypeCorrect == Spec => []TypeOK
  BY Invariant, PTL DEF ServerInv

(* The loop watches the listening socket and the open connections whose    *)
(* descriptor its set can hold, and nothing else: no connection is         *)
(* forgotten, and no closed descriptor is left in the set select() is      *)
(* called with.                                                            *)
THEOREM WatchesTheOpen == Spec => []WatchedIsOpen
  BY Invariant, PTL DEF ServerInv

(* The callback that runs finds something to read, or a hang up, at its    *)
(* descriptor, whatever the callbacks before it in the same pass did: the  *)
(* first read() returns at once. So does accept(), unless a connection has *)
(* been withdrawn since select() returned.                                 *)
THEOREM CallbacksDoNotBlock == Spec => []NoBlockingRead
  <1>1. ServerInv => NoBlockingRead
    BY DescriptorFacts DEF ServerInv, StillReadable, Reported, NoBlockingRead, Readable
  <1>. QED
    BY <1>1, Invariant, PTL

(* Whatever the phones do (hang up, vanish, fail to be read or sent to, be *)
(* too many), the server ends only where select() or accept() fails, or    *)
(* where a screenshot's temporary directory or file makes it crash: loop() *)
(* does not find its set empty while the listening socket is in it, and no *)
(* callback of a phone returns -1.                                         *)
THEOREM EndsOnlyByFault == Spec => EndsByFault
<1>. DEFINE Step ==
       /\ pc # "stopped" /\ pc' = "stopped" =>
            \/ pc = "select" /\ "select" \in Faults
            \/ InServerCb /\ "accept" \in Faults
       /\ server = "running" /\ server' # "running" =>
            \/ pc = "stopped"
            \/ InClientCb /\ IsTake(st, Head(batch)) /\ "tmp" \in Faults
<1>1. ASSUME ServerInv, Loop!LoopSetOK, [Next]_vars PROVE Step
  <2>1. CASE UNCHANGED <<server, pc>>
    BY <2>1
  <2>2. CASE ContextNew \/ Start
    BY <2>2 DEF ContextNew, Start, Loop!Add, Loop!Enter
  <2>3. CASE LoopStep
    <3>1. server = "running" /\ UNCHANGED server
      BY <2>3 DEF LoopStep
    <3>2. SERVER_FD \in readfds
      BY <1>1, <3>1 DEF ServerInv, WatchedIsOpen
    <3>3. ~Loop!IsEmpty
      BY <1>1, <3>2, DescriptorFacts DEF Loop!LoopSetOK, Loop!IsHighest, Loop!IsEmpty, ServerInv, TypeOK, Loop!TypeOK, Loop!Fd
    <3>. QED
      BY <2>3, <3>1, <3>3 DEF LoopStep, Loop!Select, Loop!SelectFails, Loop!Dispatch,
                              Loop!LeaveWhenEmpty, Loop!NextPass
  <2>4. CASE ReturnZero
    BY <2>4 DEF ReturnZero, Loop!Return
  <2>5. CASE AcceptFails
    BY <2>5 DEF AcceptFails
  <2>6. CASE ContextDelete
    BY <2>6 DEF ContextDelete, loopVars
  <2>7. CASE ShotCrashes
    BY <2>7 DEF ShotCrashes, loopVars
  <2>8. CASE Accept \/ ReadLines \/ ReadFails \/ ReadSpins \/ TreatLine \/ FinishLines \/ AtRest \/ UNCHANGED vars
    BY <2>1, <2>8 DEF Accept, ReadLines, ReadFails, ReadSpins, TreatLine, FinishLines, Dropped, AtRest, vars,
                      loopVars, Loop!Add, Loop!Remove
  <2>9. ASSUME NEW c \in Conn, PhoneStep(c) PROVE Step
    BY <2>1, <2>9 DEF PhoneStep, Connect, Begin, Send, HangUp, Vanish, Withdraw, Notice, loopVars
  <2>. QED
    BY <1>1, <2>2, <2>3, <2>4, <2>5, <2>6, <2>7, <2>8, <2>9 DEF Next, ServerStep
<1>2. LoopProofs!LoopInv => Loop!LoopSetOK
  BY LoopFacts
<1>3. ServerInv /\ LoopProofs!LoopInv /\ [Next]_vars => [Step]_vars
  BY <1>1, <1>2
<1>. HIDE DEF Step
<1>4. Spec => [][Step]_vars
  BY <1>3, Invariant, LoopInvariant, PTL DEF Spec
<1>. QED
  BY <1>4 DEF EndsByFault, Step
=============================================================================
