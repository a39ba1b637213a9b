-------------------------- MODULE AmoraTurnsProofs --------------------------
(* Proofs about what the server does for each phone, for every finite set  *)
(* of phones, every number of gestures and every set of faults, when       *)
(* phones take turns and, for some of it, say good-bye.                    *)
(*                                                                         *)
(* The statics of protocol.c and amora.c are shared by every connection,   *)
(* and a gesture of several lines leaves half of itself in them. The       *)
(* argument is that each line finds there what its gesture meant: Needs    *)
(* says what a line must find, Leads that one line leaves what another     *)
(* needs, and Complete that the lines of a gesture lead to one another,    *)
(* begin when no gesture is under way and end so. TurnInv says it of the   *)
(* lines a phone has still to say or the server has still to treat, and    *)
(* that a phone that has gone said CONN_CLOSE last, which leaves the       *)
(* statics as the next phone wants them.                                   *)
(*                                                                         *)
(* Two theorems need only the turns. OnePhone, the invariant of the first, *)
(* says that at most one phone is linked, and that it is the one whose     *)
(* name the applet shows. ClickInv, that of the second, says that a press  *)
(* comes after the line that sets its button: what another phone left does *)
(* not matter there. The other theorems need the good-bye too: a phone     *)
(* that vanishes in the middle of a gesture leaves its half in the statics *)
(* to the next one.                                                        *)
EXTENDS AmoraServerProofs

----------------------------------------------------------------------------
(* Who is linked, and how accept(), close() and a new connection change it. *)

LEMMA RangeIs ==
    ASSUME NEW S, NEW q \in Seq(S), NEW c
    PROVE  c \in Range(q) <=> \E k \in 1 .. Len(q) : q[k] = c
  BY DEF Range

LEMMA LinkedIs ==
    ASSUME TypeOK, NEW c \in Conn
    PROVE  IsLinked(c) <=> IsOpen(c) \/ \E k \in 1 .. Len(backlog) : backlog[k] = c
  BY DEF IsLinked, Range, TypeOK

LEMMA LinkedKept ==
    ASSUME UNCHANGED <<peer, backlog>>, NEW c \in Conn
    PROVE  (IsOpen(c)' <=> IsOpen(c)) /\ (IsLinked(c)' <=> IsLinked(c))
  BY DEF IsOpen, IsLinked, Range

LEMMA AcceptOpens ==
    ASSUME TypeOK, TypeOK', Accept
    PROVE  /\ Head(backlog) \in Conn
           /\ IsLinked(Head(backlog))
           /\ \A c \in Conn : IsOpen(c)' <=> IsOpen(c) \/ c = Head(backlog)
           /\ \A c \in Conn : IsLinked(c)' <=> IsLinked(c)
  <1>1. PICK f \in AnyFd : IsNext(f) /\ peer' = [peer EXCEPT ![f] = Head(backlog)]
    BY DEF Accept
  <1>2. /\ Len(backlog) \in Nat \ {0} /\ Head(backlog) = backlog[1] /\ Head(backlog) \in Conn
        /\ Len(backlog') = Len(backlog) - 1
        /\ \A k \in 1 .. Len(backlog') : backlog'[k] = backlog[k + 1]
    BY DEF Accept, TypeOK
  <1>3. \A c \in Conn : IsOpen(c)' <=> IsOpen(c) \/ c = Head(backlog)
    BY <1>1, <1>2, ConnAssumption DEF TypeOK, IsNext, IsOpen
  <1>4. ASSUME NEW c \in Conn
        PROVE  (\E k \in 1 .. Len(backlog) : backlog[k] = c)
                 <=> c = backlog[1] \/ \E k \in 1 .. Len(backlog') : backlog'[k] = c
    <2>1. ASSUME NEW k \in 1 .. Len(backlog), backlog[k] = c, c # backlog[1]
          PROVE  \E m \in 1 .. Len(backlog') : backlog'[m] = c
      <3>1. k - 1 \in 1 .. Len(backlog') /\ (k - 1) + 1 = k
        BY <1>2, <2>1
      <3>. QED
        BY <1>2, <2>1, <3>1
    <2>2. ASSUME NEW k \in 1 .. Len(backlog'), backlog'[k] = c
          PROVE  \E m \in 1 .. Len(backlog) : backlog[m] = c
      <3>1. k + 1 \in 1 .. Len(backlog)
        BY <1>2, <2>2
      <3>. QED
        BY <1>2, <2>2, <3>1
    <2>3. c = backlog[1] => \E m \in 1 .. Len(backlog) : backlog[m] = c
      <3>1. 1 \in 1 .. Len(backlog)
        BY <1>2
      <3>. QED
        BY <3>1
    <2>4. (\E k \in 1 .. Len(backlog) : backlog[k] = c) /\ c # backlog[1]
            => \E m \in 1 .. Len(backlog') : backlog'[m] = c
      BY <2>1
    <2>5. (\E k \in 1 .. Len(backlog') : backlog'[k] = c) => \E m \in 1 .. Len(backlog) : backlog[m] = c
      BY <2>2
    <2>. QED
      BY <2>3, <2>4, <2>5, Zenon
  <1>5. \A c \in Conn : IsLinked(c) <=> IsOpen(c) \/ \E k \in 1 .. Len(backlog) : backlog[k] = c
    BY LinkedIs
  <1>6. \A c \in Conn : IsLinked(c)' <=> IsOpen(c)' \/ \E k \in 1 .. Len(backlog') : backlog'[k] = c
    <2>1. backlog' \in Seq(Conn)
      BY DEF TypeOK
    <2>. QED
      BY <2>1, RangeIs DEF IsLinked, IsOpen
  <1>. QED
    BY <1>2, <1>3, <1>4, <1>5, <1>6

LEMMA DropCloses ==
    ASSUME TypeOK, OnePlace, Lifecycle, FinishLines, Closing
    PROVE  /\ Client \in Conn /\ IsOpen(Client)
           /\ \A c \in Conn : IsOpen(c)' <=> IsOpen(c) /\ c # Client
           /\ \A c \in Conn : IsLinked(c)' <=> IsLinked(c) /\ c # Client
  <1>1. i \in AnyFd /\ Client \in Conn /\ peer[i] = Client
    BY DEF TypeOK, Lifecycle, FinishLines, InClientCb, Client
  <1>2. peer' = [peer EXCEPT ![i] = NoConn] /\ UNCHANGED backlog
    BY DEF FinishLines, Dropped
  <1>3. \A c \in Conn : IsOpen(c)' <=> IsOpen(c) /\ c # Client
    BY <1>1, <1>2, ConnAssumption DEF TypeOK, OnePlace, IsOpen
  <1>4. \A k \in 1 .. Len(backlog) : backlog[k] # Client
    BY <1>1 DEF OnePlace
  <1>5. \A c \in Conn : c \in Range(backlog) => c # Client
    BY <1>4 DEF Range, TypeOK
  <1>. QED
    BY <1>1, <1>2, <1>3, <1>5 DEF IsLinked, IsOpen

LEMMA ConnectLinks ==
    ASSUME TypeOK, TypeOK', NEW c \in Conn, Connect(c)
    PROVE  /\ \A d \in Conn : IsOpen(d)' <=> IsOpen(d)
           /\ \A d \in Conn : IsLinked(d)' <=> IsLinked(d) \/ d = c
  <1>1. UNCHANGED peer /\ backlog' = Append(backlog, c) /\ backlog \in Seq(Conn)
    BY DEF Connect, TypeOK
  <1>2. /\ Len(backlog') = Len(backlog) + 1 /\ Len(backlog) \in Nat
        /\ \A k \in 1 .. Len(backlog') : backlog'[k] = IF k <= Len(backlog) THEN backlog[k] ELSE c
    BY <1>1
  <1>3. \A d \in Conn : IsOpen(d)' <=> IsOpen(d)
    BY <1>1 DEF IsOpen
  <1>4. ASSUME NEW d \in Conn
        PROVE  (\E k \in 1 .. Len(backlog') : backlog'[k] = d)
                 <=> d = c \/ \E k \in 1 .. Len(backlog) : backlog[k] = d
    <2>1. Len(backlog') \in 1 .. Len(backlog') /\ backlog'[Len(backlog')] = c
      BY <1>2
    <2>2. \A k \in 1 .. Len(backlog) : k \in 1 .. Len(backlog') /\ backlog'[k] = backlog[k]
      BY <1>2
    <2>3. \A k \in 1 .. Len(backlog') : k \notin 1 .. Len(backlog) => backlog'[k] = c
      BY <1>2
    <2>4. d = c => \E k \in 1 .. Len(backlog') : backlog'[k] = d
      BY <2>1
    <2>5. (\E k \in 1 .. Len(backlog) : backlog[k] = d) => \E k \in 1 .. Len(backlog') : backlog'[k] = d
      BY <2>2
    <2>6. (\E k \in 1 .. Len(backlog') : backlog'[k] = d) => d = c \/ \E k \in 1 .. Len(backlog) : backlog[k] = d
      BY <2>2, <2>3
    <2>. QED
      BY <2>4, <2>5, <2>6, Zenon
  <1>5. \A d \in Conn : IsLinked(d) <=> IsOpen(d) \/ \E k \in 1 .. Len(backlog) : backlog[k] = d
    BY LinkedIs
  <1>6. \A d \in Conn : IsLinked(d)' <=> IsOpen(d)' \/ \E k \in 1 .. Len(backlog') : backlog'[k] = d
    <2>1. backlog' \in Seq(Conn)
      BY DEF TypeOK
    <2>. QED
      BY <2>1, RangeIs DEF IsLinked, IsOpen
  <1>. QED
    BY <1>3, <1>4, <1>5, <1>6

(* The RFCOMM layer withdraws a connection that waits for accept().         *)
LEMMA WithdrawLinks ==
    ASSUME TypeOK, TypeOK', OnePlace, NEW c \in Conn, Withdraw(c)
    PROVE  /\ \A d \in Conn : IsOpen(d)' <=> IsOpen(d)
           /\ \A d \in Conn : IsLinked(d)' <=> IsLinked(d) /\ d # c
  <1>1. UNCHANGED peer
    BY DEF Withdraw
  <1>2. PICK k \in 1 .. Len(backlog) :
          /\ backlog[k] = c
          /\ Len(backlog') = Len(backlog) - 1
          /\ \A j \in 1 .. Len(backlog') : backlog'[j] = IF j < k THEN backlog[j] ELSE backlog[j + 1]
    BY WithdrawIs
  <1>3. Len(backlog) \in Nat /\ k \in Nat
    BY DEF TypeOK
  <1>4. \A d \in Conn : IsOpen(d)' <=> IsOpen(d)
    BY <1>1 DEF IsOpen
  <1>5. ~IsOpen(c) /\ \A j \in 1 .. Len(backlog) : backlog[j] = c => j = k
    BY <1>2 DEF OnePlace, IsOpen
  <1>6. ASSUME NEW d \in Conn
        PROVE  (\E j \in 1 .. Len(backlog') : backlog'[j] = d)
                 <=> d # c /\ \E j \in 1 .. Len(backlog) : backlog[j] = d
    <2>1. ASSUME NEW j \in 1 .. Len(backlog'), backlog'[j] = d
          PROVE  d # c /\ \E m \in 1 .. Len(backlog) : backlog[m] = d
      <3>1. CASE j < k
        BY <1>2, <1>3, <1>5, <2>1, <3>1
      <3>2. CASE ~(j < k)
        <4>1. j + 1 \in 1 .. Len(backlog) /\ j + 1 # k /\ backlog[j + 1] = d
          BY <1>2, <1>3, <2>1, <3>2
        <4>. QED
          BY <1>5, <4>1
      <3>. QED
        BY <3>1, <3>2
    <2>2. ASSUME NEW m \in 1 .. Len(backlog), backlog[m] = d, d # c
          PROVE  \E j \in 1 .. Len(backlog') : backlog'[j] = d
      <3>1. m # k
        BY <1>2, <2>2
      <3>2. CASE m < k
        <4>1. m \in 1 .. Len(backlog')
          BY <1>2, <1>3, <3>2
        <4>. QED
          BY <1>2, <2>2, <3>2, <4>1
      <3>3. CASE m > k
        <4>1. m - 1 \in 1 .. Len(backlog') /\ ~(m - 1 < k) /\ (m - 1) + 1 = m
          BY <1>2, <1>3, <3>3
        <4>. QED
          BY <1>2, <2>2, <4>1
      <3>. QED
        BY <1>3, <3>1, <3>2, <3>3
    <2>3. (\E j \in 1 .. Len(backlog') : backlog'[j] = d) => d # c /\ \E m \in 1 .. Len(backlog) : backlog[m] = d
      BY <2>1
    <2>4. d # c /\ (\E m \in 1 .. Len(backlog) : backlog[m] = d) => \E j \in 1 .. Len(backlog') : backlog'[j] = d
      BY <2>2
    <2>. QED
      BY <2>3, <2>4, Zenon
  <1>7. \A d \in Conn : IsLinked(d) <=> IsOpen(d) \/ \E j \in 1 .. Len(backlog) : backlog[j] = d
    BY LinkedIs
  <1>8. \A d \in Conn : IsLinked(d)' <=> IsOpen(d)' \/ \E j \in 1 .. Len(backlog') : backlog'[j] = d
    <2>1. backlog' \in Seq(Conn)
      BY DEF TypeOK
    <2>. QED
      BY <2>1, RangeIs DEF IsLinked, IsOpen
  <1>. QED
    BY <1>4, <1>5, <1>6, <1>7, <1>8

LEMMA ExitCloses ==
    ASSUME ContextDelete \/ ShotCrashes, NEW c \in Conn
    PROVE  ~IsOpen(c)' /\ ~IsLinked(c)'
  <1>e. Exit
    BY DEF ContextDelete, ShotCrashes
  <1>1. ~IsOpen(c)'
    BY <1>e, ConnAssumption DEF Exit, IsOpen
  <1>2. Range(backlog') = {}
    BY <1>e DEF Exit, Range
  <1>. QED
    BY <1>1, <1>2 DEF IsLinked, IsOpen

----------------------------------------------------------------------------
(* One phone at a time: it alone is linked, its name is the client's, and  *)
(* it is what the applet shows.                                            *)

OnePhone ==
    /\ \A c, d \in Conn : IsLinked(c) /\ IsLinked(d) => c = d
    /\ \A c \in Conn : IsOpen(c) => client_name = c
    /\ server # "exited" => phones = {c \in Conn : IsOpen(c)}

LEMMA OpenIsLinked == ASSUME NEW c, IsOpen(c) PROVE IsLinked(c)
  BY DEF IsLinked

(* The steps that neither open nor close a connection, nor make or withdraw *)
(* one.                                                                     *)
LEMMA LinksKept ==
    ASSUME [Next]_vars, ~Accept, ~ContextDelete, ~ShotCrashes, ~(FinishLines /\ Closing),
           \A c \in Conn : ~Connect(c) /\ ~Withdraw(c)
    PROVE  /\ UNCHANGED <<peer, backlog, client_name, phones>>
           /\ server' = "exited" <=> server = "exited"
<1>1. CASE ContextNew \/ Start \/ LoopStep \/ AcceptFails
  BY <1>1 DEF ContextNew, Start, LoopStep, AcceptFails, NotInCallback, netVars, noticeVars
<1>2. CASE ReadLines \/ ReadFails \/ ReadSpins \/ TreatLine \/ ReturnZero
  BY <1>2 DEF ReadLines, ReadFails, ReadSpins, TreatLine, ReturnZero, netVars, noticeVars
<1>3. CASE FinishLines
  BY <1>3 DEF FinishLines, noticeVars
<1>4. ASSUME NEW c \in Conn, PhoneStep(c)
      PROVE  UNCHANGED <<peer, backlog, client_name, phones, server>>
  BY <1>4 DEF PhoneStep, Begin, Send, HangUp, Vanish, Notice, netVars, noticeVars
<1>5. CASE AtRest \/ UNCHANGED vars
  BY <1>5 DEF AtRest, vars, netVars, noticeVars
<1>. QED
  BY <1>1, <1>2, <1>3, <1>4, <1>5 DEF Next, ServerStep

LEMMA OnePhoneStep ==
    ASSUME ~Overlap, ServerInv, ServerInv', OnePhone, [Next]_vars
    PROVE  OnePhone'
<1>. USE DEF OnePhone
<1>t. TypeOK /\ TypeOK' /\ OnePlace /\ Lifecycle
  BY DEF ServerInv
<1>1. CASE /\ ~Accept /\ ~ContextDelete /\ ~ShotCrashes /\ ~(FinishLines /\ Closing)
           /\ \A c \in Conn : ~Connect(c) /\ ~Withdraw(c)
  <2>1. UNCHANGED <<peer, backlog, client_name, phones>> /\ (server' = "exited" <=> server = "exited")
    BY <1>1, LinksKept
  <2>2. \A c \in Conn : (IsOpen(c)' <=> IsOpen(c)) /\ (IsLinked(c)' <=> IsLinked(c))
    BY <2>1, LinkedKept
  <2>. QED
    BY <2>1, <2>2
<1>2. CASE Accept
  <2>1. /\ Head(backlog) \in Conn /\ IsLinked(Head(backlog))
        /\ \A c \in Conn : IsOpen(c)' <=> IsOpen(c) \/ c = Head(backlog)
        /\ \A c \in Conn : IsLinked(c)' <=> IsLinked(c)
    BY <1>t, <1>2, AcceptOpens
  <2>2. client_name' = Head(backlog) /\ phones' = phones \cup {Head(backlog)} /\ server # "exited"
    BY <1>2 DEF Accept, InServerCb
  <2>3. \A c \in Conn : IsOpen(c) => c = Head(backlog)
    BY <2>1, OpenIsLinked
  <2>. QED
    BY <2>1, <2>2, <2>3
<1>3. CASE FinishLines /\ Closing
  <2>1. /\ Client \in Conn /\ IsOpen(Client)
        /\ \A c \in Conn : IsOpen(c)' <=> IsOpen(c) /\ c # Client
        /\ \A c \in Conn : IsLinked(c)' <=> IsLinked(c) /\ c # Client
    BY <1>t, <1>3, DropCloses
  <2>2. phones' = phones \ {client_name} /\ UNCHANGED client_name /\ server # "exited"
    BY <1>3 DEF FinishLines, Dropped, InClientCb
  <2>. QED
    BY <2>1, <2>2
<1>4. CASE ContextDelete \/ ShotCrashes
  <2>1. \A c \in Conn : ~IsOpen(c)' /\ ~IsLinked(c)'
    BY <1>4, ExitCloses
  <2>2. server' = "exited"
    BY <1>4 DEF ContextDelete, ShotCrashes, Exit
  <2>. QED
    BY <2>1, <2>2
<1>5. ASSUME NEW c \in Conn, Connect(c) PROVE OnePhone'
  <2>1. /\ \A d \in Conn : IsOpen(d)' <=> IsOpen(d)
        /\ \A d \in Conn : IsLinked(d)' <=> IsLinked(d) \/ d = c
    BY <1>t, <1>5, ConnectLinks
  <2>2. (\A d \in Conn : ~IsLinked(d)) /\ UNCHANGED <<client_name, phones, server>>
    BY <1>5 DEF Connect, noticeVars
  <2>. QED
    BY <2>1, <2>2
<1>6. ASSUME NEW c \in Conn, Withdraw(c) PROVE OnePhone'
  <2>1. /\ \A d \in Conn : IsOpen(d)' <=> IsOpen(d)
        /\ \A d \in Conn : IsLinked(d)' <=> IsLinked(d) /\ d # c
    BY <1>t, <1>6, WithdrawLinks
  <2>2. UNCHANGED <<client_name, phones, server>>
    BY <1>6 DEF Withdraw, noticeVars
  <2>. QED
    BY <2>1, <2>2
<1>. HIDE DEF OnePhone
<1>. QED
  BY <1>1, <1>2, <1>3, <1>4, <1>5, <1>6

LEMMA OnePhoneInvariant ==
    ASSUME ~Overlap
    PROVE  Spec => []OnePhone
<1>1. Init => OnePhone
  <2>1. ASSUME Init, NEW c \in Conn PROVE ~IsOpen(c) /\ ~IsLinked(c)
    BY <2>1, ConnAssumption DEF Init, IsOpen, IsLinked, Range
  <2>. QED
    BY <2>1 DEF OnePhone, Init
<1>2. ServerInv /\ ServerInv' /\ OnePhone /\ [Next]_vars => OnePhone'
  BY OnePhoneStep
<1>. QED
  BY <1>1, <1>2, Invariant, PTL DEF Spec

(* Between two callbacks the applet shows exactly the phones that are      *)
(* connected, whether they leave with CONN_CLOSE, by a hang up or a read() *)
(* that fails, if each connects when no other is linked.                   *)
THEOREM ShowsThePhones ==
    ASSUME ~Overlap
    PROVE  Spec => []PhonesAreShown
<1>1. ServerInv /\ OnePhone => PhonesAreShown
  BY DEF ServerInv, Lifecycle, OnePhone, PhonesAreShown
<1>. QED
  BY <1>1, Invariant, OnePhoneInvariant, PTL

----------------------------------------------------------------------------
(* What a line needs to find in the statics to be what its gesture meant. *)

(* No gesture is under way. *)
Neutral(s) == ~s.mouse_event /\ s.times = 0 /\ ~s.flag /\ s.dim_times = 0

(* The gestures that click, and the button that is theirs. *)
Clicking == {"left", "hold", "release", "right", "click_shot", "rotated_click_shot"}
OwnButton(of) == IF of[3] = "right" THEN "MOUSE_BUTTON_RIGHT" ELSE "MOUSE_BUTTON_LEFT"

(* The commands that need no more than that no gesture is under way. *)
Plain == Buttons \cup {"ENTER", "MOUSE_MOVE", "SCREEN_MODE_ON", "SCREEN_MODE_OFF", "SCREEN_RESOLUTION",
                       "SCREEN_NORMAL", "SCREEN_ROTATE", "CONN_CLOSE"}

(* What the line l has to find in the statics s. *)
Needs(s, l) ==
    \/ /\ Neutral(s)
       /\ \/ l.cmd \in Plain
          \/ l.cmd = "MOUSE_SCROLL_UP" /\ l.of[3] = "scroll"
          \/ l.cmd \in PressCodes /\ l.of[3] \in Clicking /\ s.button = OwnButton(l.of)
          \/ l.cmd = "SCREEN_TAKE" /\ (s.screen_rotate <=> l.of[3] \in RotatedShots)
    \/ /\ s.mouse_event /\ ~s.flag /\ s.dim_times = 0
       /\ \/ s.times = 0 /\ l = Number("x", l.of)
          \/ s.times = 1 /\ l = Number("y", l.of) /\ s.x_mouse = <<l.of, "x">>
    \/ /\ ~s.mouse_event /\ s.times = 0 /\ s.flag
       /\ \/ s.dim_times = 0 /\ l = Number("w", l.of)
          \/ s.dim_times = 1 /\ l = Number("h", l.of)

(* m can follow l; l ends its gesture; l can come when no gesture is under *)
(* way.                                                                    *)
Leads(l, m) ==
    \A s \in SessionState, shot \in Shots : Needs(s, l) => Needs(AfterEvent(s, l, shot), m)
Ends(l) ==
    \A s \in SessionState, shot \in Shots : Needs(s, l) => Neutral(AfterEvent(s, l, shot))
Begins(l) == \A s \in SessionState : Neutral(s) => Needs(s, l)

LEMMA CodesDiffer ==
    /\ "NONE" \notin Keys \cup MouseEvents \cup Commands \cup Plain
    /\ Commands \cap (Keys \cup MouseEvents) = {}
    /\ "ENTER" \in Keys \ MouseEvents
    /\ {"MOUSE_MOVE", "MOUSE_SCROLL_UP"} \cup Buttons \cup PressCodes \subseteq MouseEvents \ Keys
  BY DEF Keys, MouseEvents, Buttons, Scrolls, PressCodes, Commands, Plain

(* A command that comes when nothing is under way. *)
LEMMA CommandAlone ==
    ASSUME NEW s \in SessionState, NEW l, NEW shot, Neutral(s), l.cmd \in Commands
    PROVE  AfterEvent(s, l, shot) = IF CommandResult(s, l, shot) = "CONN_CLOSE"
                                    THEN NoMove(AfterCommand(s, l)) ELSE AfterCommand(s, l)
  <1>1. IsCommand(s, l) /\ ~IsX(s, l) /\ ~IsY(s, l)
    BY CodesDiffer DEF IsCommand, IsOther, IsX, IsY, Neutral, ecell_button_ewindow, ecell_mouse_ewindow
  <1>2. l.cmd # "MOUSE_MOVE" /\ l.cmd \notin Buttons
    BY CodesDiffer
  <1>. QED
    BY <1>1, <1>2 DEF AfterEvent

(* A key or a click leaves the statics alone. *)
LEMMA KeyAlone ==
    ASSUME NEW s \in SessionState, NEW l, NEW shot,
           l.cmd \in Keys \cup Scrolls \cup PressCodes
    PROVE  AfterEvent(s, l, shot) = s
  BY DEF AfterEvent, IsCommand, IsOther, IsX, IsY, ecell_button_ewindow, ecell_mouse_ewindow,
         Keys, MouseEvents, Buttons, Scrolls, PressCodes

(* What a number needs, and what it leaves. *)
LEMMA NeedsNumber ==
    ASSUME NEW s \in SessionState, NEW of, NEW axis \in {"x", "y", "w", "h"}, Needs(s, Number(axis, of))
    PROVE  /\ axis \in {"x", "y"} => s.mouse_event /\ ~s.flag /\ s.dim_times = 0
           /\ axis = "x" => s.times = 0
           /\ axis = "y" => s.times = 1 /\ s.x_mouse = <<of, "x">>
           /\ axis \in {"w", "h"} => ~s.mouse_event /\ s.times = 0 /\ s.flag
           /\ axis = "w" => s.dim_times = 0
           /\ axis = "h" => s.dim_times = 1
  <1>. DEFINE l == Number(axis, of)
  <1>1. l.cmd = "NONE" /\ l.n = <<of, axis>> /\ l.of = of
    BY DEF Number
  <1>2. \A a \in {"x", "y", "w", "h"} : l = Number(a, of) => a = axis
    <2>1. \A a \in {"x", "y", "w", "h"} : Number(a, of).n = <<of, a>>
      BY DEF Number
    <2>. QED
      BY <1>1, <2>1
  <1>. HIDE DEF l
  <1>3. Needs(s, l)
    BY DEF l
  <1>4. l.cmd \notin Plain \cup PressCodes \cup {"MOUSE_SCROLL_UP", "SCREEN_TAKE"}
    BY <1>1 DEF Plain, PressCodes, Buttons
  <1>. QED
    BY <1>1, <1>2, <1>3, <1>4 DEF Needs

LEMMA NumberIs ==
    ASSUME NEW of, NEW axis
    PROVE  LET l == Number(axis, of) IN
           /\ l.cmd = "NONE" /\ l.n = <<of, axis>> /\ l.of = of
           /\ IsOther(l) /\ l.cmd # "MOUSE_MOVE" /\ l.cmd \notin Buttons /\ protocol_command(l) = "NONE"
  BY DEF Number, IsOther, ecell_button_ewindow, ecell_mouse_ewindow, protocol_command, Buttons, Commands

(* The statics after the first coordinate n. *)
TakeX(s, n) == [s EXCEPT !.x_mouse = n, !.times = 1]

LEMMA FirstNumber ==
    ASSUME NEW s \in SessionState, NEW of, NEW axis, NEW shot, s.mouse_event, s.times = 0
    PROVE  AfterEvent(s, Number(axis, of), shot) = TakeX(s, <<of, axis>>)
  <1>. DEFINE l == Number(axis, of)
  <1>1. /\ l.n = <<of, axis>> /\ l.cmd # "MOUSE_MOVE" /\ l.cmd \notin Buttons
        /\ IsX(s, l) /\ ~IsY(s, l) /\ ~IsCommand(s, l)
    BY NumberIs DEF IsX, IsY, IsCommand
  <1>. HIDE DEF l
  <1>2. TakeX(s, l.n) = [s EXCEPT !.x_mouse = l.n, !.times = 1]
    BY Zenon DEF TakeX
  <1>3. AfterEvent(s, l, shot) = TakeX(s, l.n)
    BY <1>1, <1>2, Zenon DEF AfterEvent
  <1>. QED
    BY <1>1, <1>3 DEF l

LEMMA TakeXIs ==
    ASSUME NEW s \in SessionState, NEW n
    PROVE  /\ TakeX(s, n).x_mouse = n /\ TakeX(s, n).times = 1
           /\ TakeX(s, n).mouse_event = s.mouse_event /\ TakeX(s, n).flag = s.flag
           /\ TakeX(s, n).dim_times = s.dim_times
           /\ TakeX(s, n).width = s.width /\ TakeX(s, n).height = s.height
  BY DEF TakeX, SessionState

LEMMA SecondNumber ==
    ASSUME NEW s \in SessionState, NEW of, NEW axis, NEW shot, s.mouse_event, s.times = 1
    PROVE  AfterEvent(s, Number(axis, of), shot) = NoMove(s)
  BY NumberIs DEF AfterEvent, IsX, IsY, IsCommand

LEMMA SizeNumber ==
    ASSUME NEW s \in SessionState, NEW of, NEW axis, NEW shot, ~s.mouse_event, s.flag
    PROVE  AfterEvent(s, Number(axis, of), shot) = Dimension(s, <<of, axis>>)
  <1>. DEFINE l == Number(axis, of)
  <1>1. l.cmd = "NONE" /\ l.n = <<of, axis>> /\ IsOther(l) /\ l.cmd # "MOUSE_MOVE" /\ l.cmd \notin Buttons
        /\ protocol_command(l) = "NONE"
    BY NumberIs
  <1>. HIDE DEF l
  <1>2. IsCommand(s, l) /\ ~IsX(s, l) /\ ~IsY(s, l)
    BY <1>1 DEF IsX, IsY, IsCommand
  <1>3. CommandResult(s, l, shot) # "CONN_CLOSE" /\ AfterCommand(s, l) = Dimension(s, l.n)
    BY <1>1 DEF CommandResult, AfterCommand
  <1>4. AfterEvent(s, l, shot) = Dimension(s, <<of, axis>>)
    BY <1>1, <1>2, <1>3 DEF AfterEvent
  <1>. QED
    BY <1>4 DEF l

(* What CONN_CLOSE leaves. *)
LEMMA ClosedIs ==
    ASSUME NEW s \in SessionState
    PROVE  LET d == NoMove(Closed(s)) IN
           /\ ~d.mouse_event /\ d.times = 0 /\ ~d.screen_rotate /\ ~d.flag
           /\ d.dim_times = s.dim_times /\ d.width = W320 /\ d.height = H240
  <1>1. /\ Closed(s) \in SessionState
        /\ ~Closed(s).screen_rotate /\ ~Closed(s).flag /\ Closed(s).dim_times = s.dim_times
        /\ Closed(s).width = W320 /\ Closed(s).height = H240
    BY DEF Closed, SessionState
  <1>2. ASSUME NEW c \in SessionState
        PROVE  /\ ~NoMove(c).mouse_event /\ NoMove(c).times = 0
               /\ NoMove(c).screen_rotate = c.screen_rotate /\ NoMove(c).flag = c.flag
               /\ NoMove(c).dim_times = c.dim_times /\ NoMove(c).width = c.width /\ NoMove(c).height = c.height
    BY DEF NoMove, SessionState
  <1>. QED
    BY <1>1, <1>2

LEMMA NeedsText ==
    ASSUME NEW s \in SessionState, NEW of, NEW code, code # "NONE", Needs(s, Text(code, of))
    PROVE  /\ Neutral(s)
           /\ code \in PressCodes => s.button = OwnButton(of)
           /\ code = "SCREEN_TAKE" => (s.screen_rotate <=> of[3] \in RotatedShots)
  <1>1. Text(code, of).cmd = code /\ Text(code, of).of = of
    BY DEF Text
  <1>2. \A axis, g : Number(axis, g).cmd = "NONE"
    BY DEF Number
  <1>3. \A axis, g : Text(code, of) # Number(axis, g)
    BY <1>1, <1>2
  <1>. QED
    BY <1>1, <1>3 DEF Needs, Plain, PressCodes, Buttons

LEMMA BeginsPlain ==
    ASSUME NEW of, NEW code \in Plain
    PROVE  Begins(Text(code, of))
  BY DEF Begins, Needs, Text

(* What a command leaves when nothing is under way. *)
LEMMA TextIs ==
    ASSUME NEW s \in SessionState, NEW of, NEW code, NEW shot, Neutral(s)
    PROVE  LET a == AfterEvent(s, Text(code, of), shot) IN
           /\ code = "MOUSE_MOVE" => a = [s EXCEPT !.mouse_event = TRUE]
           /\ code \in Buttons => a = [s EXCEPT !.button = code]
           /\ code \in {"SCREEN_MODE_ON", "SCREEN_MODE_OFF"} => a = s
           /\ code = "SCREEN_RESOLUTION" => a = [s EXCEPT !.flag = TRUE]
           /\ code = "SCREEN_ROTATE" => a = [s EXCEPT !.screen_rotate = TRUE]
           /\ code = "SCREEN_NORMAL" => a = [s EXCEPT !.screen_rotate = FALSE]
           /\ code = "SCREEN_TAKE" => a \in {s, NoMove(s)}
           /\ code = "CONN_CLOSE" => a = NoMove(Closed(s))
  <1>. DEFINE l == Text(code, of)
  <1>1. l.cmd = code
    BY DEF Text
  <1>. HIDE DEF l
  <1>m. code \in {"MOUSE_MOVE"} \cup Buttons => ~IsX(s, l) /\ ~IsY(s, l) /\ ~IsCommand(s, l)
    BY <1>1 DEF IsX, IsY, IsCommand, IsOther, ecell_mouse_ewindow, MouseEvents, Buttons
  <1>2. code = "MOUSE_MOVE" => AfterEvent(s, l, shot) = [s EXCEPT !.mouse_event = TRUE]
    BY <1>1, <1>m DEF AfterEvent, Buttons
  <1>3. code \in Buttons => AfterEvent(s, l, shot) = [s EXCEPT !.button = code]
    BY <1>1, <1>m DEF AfterEvent, Buttons
  <1>4. code \in Commands => protocol_command(l) = code
    BY <1>1 DEF protocol_command
  <1>5. code \in Commands => AfterEvent(s, l, shot) = IF CommandResult(s, l, shot) = "CONN_CLOSE"
                                                    THEN NoMove(AfterCommand(s, l)) ELSE AfterCommand(s, l)
    BY <1>1, CommandAlone
  <1>6. code \in {"SCREEN_MODE_ON", "SCREEN_MODE_OFF", "SCREEN_RESOLUTION", "SCREEN_ROTATE", "SCREEN_NORMAL",
                  "SCREEN_TAKE", "CONN_CLOSE"} => code \in Commands
    BY DEF Commands
  <1>7. code \in {"SCREEN_MODE_ON", "SCREEN_MODE_OFF"} => AfterEvent(s, l, shot) = s
    <2>1. ASSUME code \in {"SCREEN_MODE_ON", "SCREEN_MODE_OFF"}
          PROVE  CommandResult(s, l, shot) # "CONN_CLOSE" /\ AfterCommand(s, l) = s
      BY <1>4, <1>6, <2>1 DEF CommandResult, AfterCommand
    <2>. QED
      BY <1>5, <1>6, <2>1
  <1>8. code = "SCREEN_RESOLUTION" => AfterEvent(s, l, shot) = [s EXCEPT !.flag = TRUE]
    <2>1. ASSUME code = "SCREEN_RESOLUTION"
          PROVE  CommandResult(s, l, shot) # "CONN_CLOSE" /\ AfterCommand(s, l) = [s EXCEPT !.flag = TRUE]
      BY <1>4, <1>6, <2>1 DEF CommandResult, AfterCommand
    <2>. QED
      BY <1>5, <1>6, <2>1
  <1>9. /\ code = "SCREEN_ROTATE" => AfterEvent(s, l, shot) = [s EXCEPT !.screen_rotate = TRUE]
        /\ code = "SCREEN_NORMAL" => AfterEvent(s, l, shot) = [s EXCEPT !.screen_rotate = FALSE]
    BY <1>4, <1>5, <1>6 DEF CommandResult, AfterCommand
  <1>10. code = "SCREEN_TAKE" => AfterEvent(s, l, shot) \in {s, NoMove(s)}
    BY <1>4, <1>5, <1>6 DEF CommandResult, AfterCommand
  <1>11. code = "CONN_CLOSE" => AfterEvent(s, l, shot) = NoMove(Closed(s))
    BY <1>4, <1>5, <1>6 DEF CommandResult, AfterCommand
  <1>. QED
    BY <1>2, <1>3, <1>7, <1>8, <1>9, <1>10, <1>11 DEF l

----------------------------------------------------------------------------
(* The gestures. *)

LEMMA MoveLeads ==
    ASSUME NEW of
    PROVE  /\ Leads(Text("MOUSE_MOVE", of), Number("x", of))
           /\ Leads(Number("x", of), Number("y", of))
           /\ Ends(Number("y", of))
<1>n. \A axis : Number(axis, of).of = of
  BY DEF Number
<1>1. ASSUME NEW s \in SessionState, NEW shot \in Shots, Needs(s, Text("MOUSE_MOVE", of))
      PROVE  Needs(AfterEvent(s, Text("MOUSE_MOVE", of), shot), Number("x", of))
  <2>1. Neutral(s)
    BY <1>1, NeedsText
  <2>2. AfterEvent(s, Text("MOUSE_MOVE", of), shot) = [s EXCEPT !.mouse_event = TRUE]
    BY <2>1, TextIs
  <2>. QED
    BY <1>n, <2>1, <2>2 DEF Needs, Neutral, SessionState
<1>2. ASSUME NEW s \in SessionState, NEW shot \in Shots, Needs(s, Number("x", of))
      PROVE  Needs(AfterEvent(s, Number("x", of), shot), Number("y", of))
  <2>1. s.mouse_event /\ s.times = 0 /\ ~s.flag /\ s.dim_times = 0
    BY <1>2, NeedsNumber
  <2>2. AfterEvent(s, Number("x", of), shot) = TakeX(s, <<of, "x">>)
    BY <2>1, FirstNumber
  <2>. QED
    BY <1>n, <2>1, <2>2, TakeXIs DEF Needs
<1>3. ASSUME NEW s \in SessionState, NEW shot \in Shots, Needs(s, Number("y", of))
      PROVE  Neutral(AfterEvent(s, Number("y", of), shot))
  <2>1. s.mouse_event /\ s.times = 1 /\ ~s.flag /\ s.dim_times = 0
    BY <1>3, NeedsNumber
  <2>2. AfterEvent(s, Number("y", of), shot) = NoMove(s)
    BY <2>1, SecondNumber
  <2>. QED
    BY <2>1, <2>2 DEF NoMove, Neutral, SessionState
<1>. QED
  BY <1>1, <1>2, <1>3 DEF Leads, Ends

LEMMA ClickLeads ==
    ASSUME NEW of, of[3] \in Clicking
    PROVE  /\ \A code \in PressCodes : Leads(Text(OwnButton(of), of), Text(code, of)) /\ Ends(Text(code, of))
           /\ Leads(Text("MOUSE_BUTTON_PRESS", of), Text("MOUSE_BUTTON_RELEASE", of))
           /\ \A code \in Plain : Leads(Text("MOUSE_BUTTON_RELEASE", of), Text(code, of))
<1>b. OwnButton(of) \in Buttons /\ OwnButton(of) # "NONE"
  BY DEF OwnButton, Buttons
<1>p. ASSUME NEW s \in SessionState, NEW code \in PressCodes, Neutral(s), s.button = OwnButton(of)
      PROVE  Needs(s, Text(code, of))
  BY <1>p DEF Needs, Text
<1>k. ASSUME NEW s \in SessionState, NEW shot, NEW code \in PressCodes, Needs(s, Text(code, of))
      PROVE  Neutral(s) /\ s.button = OwnButton(of) /\ AfterEvent(s, Text(code, of), shot) = s
  <2>1. code # "NONE" /\ Text(code, of).cmd = code
    BY DEF PressCodes, Text
  <2>. QED
    BY <1>k, <2>1, NeedsText, KeyAlone
<1>1. ASSUME NEW s \in SessionState, NEW shot \in Shots, NEW code \in PressCodes,
             Needs(s, Text(OwnButton(of), of))
      PROVE  Needs(AfterEvent(s, Text(OwnButton(of), of), shot), Text(code, of))
  <2>1. Neutral(s)
    BY <1>1, <1>b, NeedsText
  <2>2. AfterEvent(s, Text(OwnButton(of), of), shot) = [s EXCEPT !.button = OwnButton(of)]
    BY <1>b, <2>1, TextIs
  <2>3. [s EXCEPT !.button = OwnButton(of)] \in SessionState
    BY <1>b DEF SessionState
  <2>4. Neutral([s EXCEPT !.button = OwnButton(of)]) /\ [s EXCEPT !.button = OwnButton(of)].button = OwnButton(of)
    BY <2>1 DEF Neutral, SessionState
  <2>. QED
    BY <1>p, <2>2, <2>3, <2>4
<1>2. ASSUME NEW s \in SessionState, NEW shot \in Shots, Needs(s, Text("MOUSE_BUTTON_PRESS", of))
      PROVE  Needs(AfterEvent(s, Text("MOUSE_BUTTON_PRESS", of), shot), Text("MOUSE_BUTTON_RELEASE", of))
  BY <1>p, <1>k, <1>2 DEF PressCodes
<1>3. ASSUME NEW s \in SessionState, NEW shot \in Shots, NEW code \in PressCodes, Needs(s, Text(code, of))
      PROVE  Neutral(AfterEvent(s, Text(code, of), shot))
  BY <1>k, <1>3
<1>4. ASSUME NEW s \in SessionState, NEW shot \in Shots, NEW code \in Plain,
             Needs(s, Text("MOUSE_BUTTON_RELEASE", of))
      PROVE  Needs(AfterEvent(s, Text("MOUSE_BUTTON_RELEASE", of), shot), Text(code, of))
  <2>1. Neutral(s) /\ AfterEvent(s, Text("MOUSE_BUTTON_RELEASE", of), shot) = s
    BY <1>k, <1>4 DEF PressCodes
  <2>. QED
    BY <2>1, BeginsPlain DEF Begins
<1>. QED
  BY <1>1, <1>2, <1>3, <1>4 DEF Leads, Ends

LEMMA ShotLeads ==
    ASSUME NEW of
    PROVE  /\ of[3] \notin RotatedShots => Leads(Text("SCREEN_NORMAL", of), Text("SCREEN_TAKE", of))
           /\ of[3] \in RotatedShots => Leads(Text("SCREEN_ROTATE", of), Text("SCREEN_TAKE", of))
           /\ Ends(Text("SCREEN_TAKE", of))
<1>t. Text("SCREEN_TAKE", of).cmd = "SCREEN_TAKE" /\ Text("SCREEN_TAKE", of).of = of
  BY DEF Text
<1>1. ASSUME of[3] \notin RotatedShots, NEW s \in SessionState, NEW shot \in Shots, Needs(s, Text("SCREEN_NORMAL", of))
      PROVE  Needs(AfterEvent(s, Text("SCREEN_NORMAL", of), shot), Text("SCREEN_TAKE", of))
  <2>1. Neutral(s)
    BY <1>1, NeedsText
  <2>2. AfterEvent(s, Text("SCREEN_NORMAL", of), shot) = [s EXCEPT !.screen_rotate = FALSE]
    BY <2>1, TextIs
  <2>. QED
    BY <1>t, <1>1, <2>1, <2>2 DEF Needs, Neutral, SessionState
<1>2. ASSUME of[3] \in RotatedShots, NEW s \in SessionState, NEW shot \in Shots, Needs(s, Text("SCREEN_ROTATE", of))
      PROVE  Needs(AfterEvent(s, Text("SCREEN_ROTATE", of), shot), Text("SCREEN_TAKE", of))
  <2>1. Neutral(s)
    BY <1>2, NeedsText
  <2>2. AfterEvent(s, Text("SCREEN_ROTATE", of), shot) = [s EXCEPT !.screen_rotate = TRUE]
    BY <2>1, TextIs
  <2>. QED
    BY <1>t, <1>2, <2>1, <2>2 DEF Needs, Neutral, SessionState
<1>3. ASSUME NEW s \in SessionState, NEW shot \in Shots, Needs(s, Text("SCREEN_TAKE", of))
      PROVE  Neutral(AfterEvent(s, Text("SCREEN_TAKE", of), shot))
  <2>1. Neutral(s)
    BY <1>3, NeedsText
  <2>2. AfterEvent(s, Text("SCREEN_TAKE", of), shot) \in {s, NoMove(s)}
    BY <2>1, TextIs
  <2>3. Neutral(NoMove(s))
    BY <2>1 DEF NoMove, Neutral, SessionState
  <2>. QED
    BY <2>1, <2>2, <2>3
<1>4. of[3] \notin RotatedShots => Leads(Text("SCREEN_NORMAL", of), Text("SCREEN_TAKE", of))
  BY <1>1 DEF Leads
<1>5. of[3] \in RotatedShots => Leads(Text("SCREEN_ROTATE", of), Text("SCREEN_TAKE", of))
  BY <1>2 DEF Leads
<1>6. Ends(Text("SCREEN_TAKE", of))
  BY <1>3 DEF Ends
<1>. QED
  BY <1>4, <1>5, <1>6

(* The two dimensions of a screen. *)
LEMMA DimensionIs ==
    ASSUME NEW s \in SessionState, NEW n
    PROVE  LET d == Dimension(s, n) IN
           /\ s.dim_times = 0 => d.dim_times = 1 /\ d.flag = s.flag /\ d.width \in {s.width, n} /\ d.height = s.height
           /\ s.dim_times = 1 => d.dim_times = 0 /\ ~d.flag /\ d.width = s.width /\ d.height \in {s.height, n}
           /\ d.mouse_event = s.mouse_event /\ d.times = s.times /\ d.screen_rotate = s.screen_rotate
  <1>1. CASE s.dim_times = 0
    BY <1>1 DEF Dimension, SessionState
  <1>2. CASE s.dim_times = 1
    BY <1>2 DEF Dimension, SessionState
  <1>. QED
    BY <1>1, <1>2 DEF SessionState

LEMMA ScreenLeads ==
    ASSUME NEW of
    PROVE  /\ Leads(Text("SCREEN_MODE_ON", of), Text("SCREEN_RESOLUTION", of))
           /\ Leads(Text("SCREEN_RESOLUTION", of), Number("w", of))
           /\ Leads(Number("w", of), Number("h", of))
           /\ Ends(Number("h", of))
<1>n. \A axis : Number(axis, of).of = of
  BY DEF Number
<1>1. ASSUME NEW s \in SessionState, NEW shot \in Shots, Needs(s, Text("SCREEN_MODE_ON", of))
      PROVE  Needs(AfterEvent(s, Text("SCREEN_MODE_ON", of), shot), Text("SCREEN_RESOLUTION", of))
  <2>1. Neutral(s)
    BY <1>1, NeedsText
  <2>2. AfterEvent(s, Text("SCREEN_MODE_ON", of), shot) = s
    BY <2>1, TextIs
  <2>. QED
    BY <2>1, <2>2, BeginsPlain DEF Begins, Plain
<1>2. ASSUME NEW s \in SessionState, NEW shot \in Shots, Needs(s, Text("SCREEN_RESOLUTION", of))
      PROVE  Needs(AfterEvent(s, Text("SCREEN_RESOLUTION", of), shot), Number("w", of))
  <2>1. Neutral(s)
    BY <1>2, NeedsText
  <2>2. AfterEvent(s, Text("SCREEN_RESOLUTION", of), shot) = [s EXCEPT !.flag = TRUE]
    BY <2>1, TextIs
  <2>. QED
    BY <1>n, <2>1, <2>2 DEF Needs, Neutral, SessionState
<1>3. ASSUME NEW s \in SessionState, NEW shot \in Shots, Needs(s, Number("w", of))
      PROVE  Needs(AfterEvent(s, Number("w", of), shot), Number("h", of))
  <2>1. ~s.mouse_event /\ s.times = 0 /\ s.flag /\ s.dim_times = 0
    BY <1>3, NeedsNumber
  <2>2. AfterEvent(s, Number("w", of), shot) = Dimension(s, <<of, "w">>)
    BY <2>1, SizeNumber
  <2>. QED
    BY <1>n, <2>1, <2>2, DimensionIs DEF Needs
<1>4. ASSUME NEW s \in SessionState, NEW shot \in Shots, Needs(s, Number("h", of))
      PROVE  Neutral(AfterEvent(s, Number("h", of), shot))
  <2>1. ~s.mouse_event /\ s.times = 0 /\ s.flag /\ s.dim_times = 1
    BY <1>4, NeedsNumber
  <2>2. AfterEvent(s, Number("h", of), shot) = Dimension(s, <<of, "h">>)
    BY <2>1, SizeNumber
  <2>. QED
    BY <2>1, <2>2, DimensionIs DEF Neutral
<1>. QED
  BY <1>1, <1>2, <1>3, <1>4 DEF Leads, Ends

LEMMA OthersEnd ==
    ASSUME NEW of
    PROVE  /\ Ends(Text("ENTER", of))
           /\ of[3] = "scroll" => Begins(Text("MOUSE_SCROLL_UP", of))
           /\ Ends(Text("MOUSE_SCROLL_UP", of))
           /\ Ends(Text("SCREEN_MODE_OFF", of))
           /\ Ends(Text("CONN_CLOSE", of))
<1>1. ASSUME NEW s \in SessionState, NEW shot, NEW code \in {"ENTER", "MOUSE_SCROLL_UP"}, Needs(s, Text(code, of))
      PROVE  Neutral(AfterEvent(s, Text(code, of), shot))
  <2>1. code # "NONE" /\ Text(code, of).cmd = code /\ code \in Keys \cup Scrolls
    BY DEF Text, Keys, Scrolls
  <2>. QED
    BY <1>1, <2>1, NeedsText, KeyAlone
<1>2. ASSUME NEW s \in SessionState, NEW shot, Needs(s, Text("SCREEN_MODE_OFF", of))
      PROVE  Neutral(AfterEvent(s, Text("SCREEN_MODE_OFF", of), shot))
  BY <1>2, NeedsText, TextIs
<1>3. ASSUME NEW s \in SessionState, NEW shot, Needs(s, Text("CONN_CLOSE", of))
      PROVE  Neutral(AfterEvent(s, Text("CONN_CLOSE", of), shot))
  <2>1. Neutral(s) /\ AfterEvent(s, Text("CONN_CLOSE", of), shot) = NoMove(Closed(s))
    BY <1>3, NeedsText, TextIs
  <2>. QED
    BY <2>1, ClosedIs DEF Neutral
<1>4. of[3] = "scroll" => Begins(Text("MOUSE_SCROLL_UP", of))
  BY DEF Begins, Needs, Text
<1>5. Ends(Text("ENTER", of)) /\ Ends(Text("MOUSE_SCROLL_UP", of))
  BY <1>1 DEF Ends
<1>6. Ends(Text("SCREEN_MODE_OFF", of)) /\ Ends(Text("CONN_CLOSE", of))
  BY <1>2, <1>3 DEF Ends
<1>. QED
  BY <1>4, <1>5, <1>6

----------------------------------------------------------------------------
(* Sequences of lines in which each leads to the next. *)

(* The last line of p. *)
LastOf(p) == p[Len(p)]

(* The lines after which the phone waits, or is no more. *)
Stops == {"SCREEN_TAKE", "CONN_CLOSE"}

(* Each line of p leads to the next, and none but the last stops. *)
Chained(p) == \A k \in 1 .. Len(p) - 1 : Leads(p[k], p[k + 1]) /\ p[k].cmd \notin Stops

(* The lines of one gesture. *)
Complete(of, p) ==
    /\ p # <<>>
    /\ \A k \in 1 .. Len(p) : p[k].of = of
    /\ Chained(p)
    /\ Begins(p[1])
    /\ Ends(LastOf(p))

LEMMA CompleteOne ==
    ASSUME NEW of, NEW a, a.of = of, Begins(a), Ends(a)
    PROVE  Complete(of, <<a>>)
  BY DEF Complete, Chained, LastOf

LEMMA CompleteTwo ==
    ASSUME NEW of, NEW a, NEW b, a.of = of, b.of = of, Begins(a), Ends(b), Leads(a, b), a.cmd \notin Stops
    PROVE  Complete(of, <<a, b>>)
  BY DEF Complete, Chained, LastOf

LEMMA CompleteThree ==
    ASSUME NEW of, NEW a, NEW b, NEW c, a.of = of, b.of = of, c.of = of, Begins(a), Ends(c),
           Leads(a, b), Leads(b, c), a.cmd \notin Stops, b.cmd \notin Stops
    PROVE  Complete(of, <<a, b, c>>)
  BY DEF Complete, Chained, LastOf

LEMMA CompleteFour ==
    ASSUME NEW of, NEW a, NEW b, NEW c, NEW d, a.of = of, b.of = of, c.of = of, d.of = of, Begins(a), Ends(d),
           Leads(a, b), Leads(b, c), Leads(c, d), a.cmd \notin Stops, b.cmd \notin Stops, c.cmd \notin Stops
    PROVE  Complete(of, <<a, b, c, d>>)
  BY DEF Complete, Chained, LastOf

LEMMA CompleteFive ==
    ASSUME NEW of, NEW a, NEW b, NEW c, NEW d, NEW e,
           a.of = of, b.of = of, c.of = of, d.of = of, e.of = of, Begins(a), Ends(e),
           Leads(a, b), Leads(b, c), Leads(c, d), Leads(d, e),
           a.cmd \notin Stops, b.cmd \notin Stops, c.cmd \notin Stops, d.cmd \notin Stops
    PROVE  Complete(of, <<a, b, c, d, e>>)
  BY DEF Complete, Chained, LastOf

LEMMA GestureInTurn ==
    ASSUME NEW of \in Gesture
    PROVE  /\ Complete(of, LinesOf(of))
           /\ LastOf(LinesOf(of)).cmd = "CONN_CLOSE" <=> of[3] = "close"
<1>. DEFINE T(code) == Text(code, of)
            N(axis) == Number(axis, of)
<1>1. of[3] \in GestureNames \cup GreetingNames \cup {"close"}
  BY GestureAssumption DEF Gesture
<1>2. /\ \A code : T(code).cmd = code /\ T(code).of = of
      /\ \A axis : N(axis).cmd = "NONE" /\ N(axis).of = of
  BY DEF Text, Number
<1>3. \A code \in Plain : Begins(T(code))
  BY BeginsPlain
<1>m. Leads(T("MOUSE_MOVE"), N("x")) /\ Leads(N("x"), N("y")) /\ Ends(N("y"))
  BY MoveLeads
<1>c. of[3] \in Clicking =>
        /\ Leads(T(OwnButton(of)), T("MOUSE_BUTTON_PRESS"))
        /\ Leads(T(OwnButton(of)), T("MOUSE_BUTTON_RELEASE"))
        /\ Leads(T("MOUSE_BUTTON_PRESS"), T("MOUSE_BUTTON_RELEASE"))
        /\ Ends(T("MOUSE_BUTTON_PRESS")) /\ Ends(T("MOUSE_BUTTON_RELEASE"))
        /\ Leads(T("MOUSE_BUTTON_RELEASE"), T("SCREEN_NORMAL"))
        /\ Leads(T("MOUSE_BUTTON_RELEASE"), T("SCREEN_ROTATE"))
  BY ClickLeads DEF PressCodes, Plain
<1>b. OwnButton(of) \in Plain \ Stops
  BY DEF OwnButton, Plain, Buttons, Stops
<1>s. /\ of[3] \notin RotatedShots => Leads(T("SCREEN_NORMAL"), T("SCREEN_TAKE"))
      /\ of[3] \in RotatedShots => Leads(T("SCREEN_ROTATE"), T("SCREEN_TAKE"))
      /\ Ends(T("SCREEN_TAKE"))
  BY ShotLeads
<1>r. /\ Leads(T("SCREEN_MODE_ON"), T("SCREEN_RESOLUTION"))
      /\ Leads(T("SCREEN_RESOLUTION"), N("w"))
      /\ Leads(N("w"), N("h"))
      /\ Ends(N("h"))
  BY ScreenLeads
<1>o. /\ Ends(T("ENTER"))
      /\ of[3] = "scroll" => Begins(T("MOUSE_SCROLL_UP"))
      /\ Ends(T("MOUSE_SCROLL_UP"))
      /\ Ends(T("SCREEN_MODE_OFF"))
      /\ Ends(T("CONN_CLOSE"))
  BY OthersEnd
<1>4. CASE of[3] = "key"
  <2>1. LinesOf(of) = <<T("ENTER")>>
    BY <1>4 DEF LinesOf
  <2>2. Complete(of, <<T("ENTER")>>)
    <3>. HIDE DEF T
    <3>. QED
      BY <1>2, <1>3, <1>o, CompleteOne DEF Plain
  <2>. QED
    BY <1>2, <1>4, <2>1, <2>2 DEF LastOf
<1>5. CASE of[3] = "scroll"
  <2>1. LinesOf(of) = <<T("MOUSE_SCROLL_UP")>>
    BY <1>5 DEF LinesOf
  <2>2. Complete(of, <<T("MOUSE_SCROLL_UP")>>)
    <3>. HIDE DEF T
    <3>. QED
      BY <1>2, <1>o, <1>5, CompleteOne
  <2>. QED
    BY <1>2, <1>5, <2>1, <2>2 DEF LastOf
<1>6. CASE of[3] = "move"
  <2>1. LinesOf(of) = <<T("MOUSE_MOVE"), N("x"), N("y")>>
    BY <1>6 DEF LinesOf
  <2>2. Complete(of, <<T("MOUSE_MOVE"), N("x"), N("y")>>)
    <3>. HIDE DEF T, N
    <3>. QED
      BY <1>2, <1>3, <1>m, CompleteThree DEF Plain, Stops
  <2>. QED
    BY <1>2, <1>6, <2>1, <2>2 DEF LastOf
<1>7. CASE of[3] \in {"left", "right"}
  <2>1. LinesOf(of) = <<T(OwnButton(of)), T("MOUSE_BUTTON_PRESS"), T("MOUSE_BUTTON_RELEASE")>>
    BY <1>7 DEF LinesOf, OwnButton
  <2>2. Complete(of, <<T(OwnButton(of)), T("MOUSE_BUTTON_PRESS"), T("MOUSE_BUTTON_RELEASE")>>)
    <3>. HIDE DEF T
    <3>. QED
      BY <1>2, <1>3, <1>b, <1>c, <1>7, CompleteThree DEF Stops, Clicking
  <2>. QED
    BY <1>2, <1>7, <2>1, <2>2 DEF LastOf
<1>8. CASE of[3] = "shot"
  <2>1. LinesOf(of) = <<T("SCREEN_NORMAL"), T("SCREEN_TAKE")>>
    BY <1>8 DEF LinesOf
  <2>2. Complete(of, <<T("SCREEN_NORMAL"), T("SCREEN_TAKE")>>)
    <3>. HIDE DEF T
    <3>. QED
      BY <1>2, <1>3, <1>s, <1>8, CompleteTwo DEF Plain, Stops, RotatedShots
  <2>. QED
    BY <1>2, <1>8, <2>1, <2>2 DEF LastOf
<1>9. CASE of[3] = "rotated_shot"
  <2>1. LinesOf(of) = <<T("SCREEN_ROTATE"), T("SCREEN_TAKE")>>
    BY <1>9 DEF LinesOf
  <2>2. Complete(of, <<T("SCREEN_ROTATE"), T("SCREEN_TAKE")>>)
    <3>. HIDE DEF T
    <3>. QED
      BY <1>2, <1>3, <1>s, <1>9, CompleteTwo DEF Plain, Stops, RotatedShots
  <2>. QED
    BY <1>2, <1>9, <2>1, <2>2 DEF LastOf
<1>10. CASE of[3] = "screen_on"
  <2>1. LinesOf(of) = <<T("SCREEN_MODE_ON"), T("SCREEN_RESOLUTION"), N("w"), N("h")>>
    BY <1>10 DEF LinesOf
  <2>2. Complete(of, <<T("SCREEN_MODE_ON"), T("SCREEN_RESOLUTION"), N("w"), N("h")>>)
    <3>. HIDE DEF T, N
    <3>. QED
      BY <1>2, <1>3, <1>r, CompleteFour DEF Plain, Stops
  <2>. QED
    BY <1>2, <1>10, <2>1, <2>2 DEF LastOf
<1>11. CASE of[3] = "screen_off"
  <2>1. LinesOf(of) = <<T("SCREEN_MODE_OFF")>>
    BY <1>11 DEF LinesOf
  <2>2. Complete(of, <<T("SCREEN_MODE_OFF")>>)
    <3>. HIDE DEF T
    <3>. QED
      BY <1>2, <1>3, <1>o, CompleteOne DEF Plain
  <2>. QED
    BY <1>2, <1>11, <2>1, <2>2 DEF LastOf
<1>12. CASE of[3] = "close"
  <2>1. LinesOf(of) = <<T("CONN_CLOSE")>>
    BY <1>12 DEF LinesOf
  <2>2. Complete(of, <<T("CONN_CLOSE")>>)
    <3>. HIDE DEF T
    <3>. QED
      BY <1>2, <1>3, <1>o, CompleteOne DEF Plain
  <2>. QED
    BY <1>2, <1>12, <2>1, <2>2 DEF LastOf
<1>13. CASE of[3] = "hold"
  <2>1. LinesOf(of) = <<T(OwnButton(of)), T("MOUSE_BUTTON_PRESS")>>
    BY <1>13 DEF LinesOf, OwnButton
  <2>2. Complete(of, <<T(OwnButton(of)), T("MOUSE_BUTTON_PRESS")>>)
    <3>. HIDE DEF T
    <3>. QED
      BY <1>2, <1>3, <1>b, <1>c, <1>13, CompleteTwo DEF Stops, Clicking
  <2>. QED
    BY <1>2, <1>13, <2>1, <2>2 DEF LastOf
<1>14. CASE of[3] = "release"
  <2>1. LinesOf(of) = <<T(OwnButton(of)), T("MOUSE_BUTTON_RELEASE")>>
    BY <1>14 DEF LinesOf, OwnButton
  <2>2. Complete(of, <<T(OwnButton(of)), T("MOUSE_BUTTON_RELEASE")>>)
    <3>. HIDE DEF T
    <3>. QED
      BY <1>2, <1>3, <1>b, <1>c, <1>14, CompleteTwo DEF Stops, Clicking
  <2>. QED
    BY <1>2, <1>14, <2>1, <2>2 DEF LastOf
<1>15. CASE of[3] = "click_shot"
  <2>1. LinesOf(of) = <<T(OwnButton(of)), T("MOUSE_BUTTON_PRESS"), T("MOUSE_BUTTON_RELEASE"),
                      T("SCREEN_NORMAL"), T("SCREEN_TAKE")>>
    BY <1>15 DEF LinesOf, OwnButton
  <2>2. Complete(of, <<T(OwnButton(of)), T("MOUSE_BUTTON_PRESS"), T("MOUSE_BUTTON_RELEASE"),
                          T("SCREEN_NORMAL"), T("SCREEN_TAKE")>>)
    <3>. HIDE DEF T
    <3>. QED
      BY <1>2, <1>3, <1>b, <1>c, <1>s, <1>15, CompleteFive DEF Stops, Clicking, RotatedShots
  <2>. QED
    BY <1>2, <1>15, <2>1, <2>2 DEF LastOf
<1>16. CASE of[3] = "rotated_click_shot"
  <2>1. LinesOf(of) = <<T(OwnButton(of)), T("MOUSE_BUTTON_PRESS"), T("MOUSE_BUTTON_RELEASE"),
                      T("SCREEN_ROTATE"), T("SCREEN_TAKE")>>
    BY <1>16 DEF LinesOf, OwnButton
  <2>2. Complete(of, <<T(OwnButton(of)), T("MOUSE_BUTTON_PRESS"), T("MOUSE_BUTTON_RELEASE"),
                          T("SCREEN_ROTATE"), T("SCREEN_TAKE")>>)
    <3>. HIDE DEF T
    <3>. QED
      BY <1>2, <1>3, <1>b, <1>c, <1>s, <1>16, CompleteFive DEF Stops, Clicking, RotatedShots
  <2>. QED
    BY <1>2, <1>16, <2>1, <2>2 DEF LastOf
<1>. QED
  BY <1>1, <1>4, <1>5, <1>6, <1>7, <1>8, <1>9, <1>10, <1>11, <1>12, <1>13, <1>14, <1>15, <1>16
  DEF GestureNames, GreetingNames

----------------------------------------------------------------------------
(* What a connection has still to say, as a sequence of lines. *)

LEMMA ReadCat ==
    ASSUME NEW S, NEW q \in Seq(S), NEW k \in 0 .. Len(q)
    PROVE  SubSeq(q, 1, k) \o SubSeq(q, k + 1, Len(q)) = q
  <1>1. k \in 1 - 1 .. Len(q) /\ Len(q) \in k .. Len(q) /\ 1 \in 1 .. Len(q) + 1
    BY LenProperties
  <1>2. SubSeq(q, 1, k) \o SubSeq(q, k + 1, Len(q)) = SubSeq(q, 1, Len(q))
    BY <1>1, ConcatAdjacentSubSeq
  <1>. QED
    BY <1>2, SubSeqFull

LEMMA AssocCat ==
    ASSUME NEW a \in Seq(Line), NEW b \in Seq(Line), NEW c \in Seq(Line)
    PROVE  (a \o b) \o c = a \o (b \o c)
  BY ConcatAssociative

LEMMA SendCat ==
    ASSUME NEW a \in Seq(Line), NEW b \in Seq(Line), NEW c \in Seq(Line), c # <<>>
    PROVE  /\ (a \o Append(b, Head(c))) \o Tail(c) = (a \o b) \o c
           /\ Tail(c) = <<>> => LastOf((a \o b) \o c) = Head(c)
  <1>. DEFINE x == (a \o Append(b, Head(c))) \o Tail(c)
              y == (a \o b) \o c
  <1>1. /\ Head(c) = c[1] /\ c[1] \in Line /\ Len(c) \in Nat \ {0}
        /\ Tail(c) \in Seq(Line) /\ Len(Tail(c)) = Len(c) - 1
        /\ \A k \in 1 .. Len(c) - 1 : Tail(c)[k] = c[k + 1]
    OBVIOUS
  <1>2. Append(b, Head(c)) \in Seq(Line)
    BY <1>1
  <1>3. x \in Seq(Line) /\ y \in Seq(Line)
    BY <1>1, <1>2
  <1>4. Len(x) = Len(y)
    BY <1>1, <1>2
  <1>5. ASSUME NEW k \in 1 .. Len(y) PROVE x[k] = y[k]
    <2>1. CASE k <= Len(a)
      BY <1>1, <1>2, <2>1
    <2>2. CASE k > Len(a) /\ k <= Len(a) + Len(b)
      BY <1>1, <1>2, <2>2
    <2>3. CASE k > Len(a) + Len(b)
      BY <1>1, <1>2, <2>3
    <2>. QED
      BY <2>1, <2>2, <2>3
  <1>6. Tail(c) = <<>> => Len(y) = Len(a) + Len(b) + 1 /\ y[Len(y)] = c[1]
    <2>1. Len(y) = Len(a) + Len(b) + Len(c) /\ Len(a) \in Nat /\ Len(b) \in Nat
      OBVIOUS
    <2>2. Tail(c) = <<>> => Len(c) = 1
      <3>. DEFINE r == Tail(c)
                  n == Len(c)
      <3>1. Len(r) = n - 1 /\ n \in Nat
        BY <1>1
      <3>. HIDE DEF r, n
      <3>2. r = <<>> => n = 1
        BY <3>1
      <3>. QED
        BY <3>2, Zenon DEF r, n
    <2>3. Len(c) = 1 => y[Len(a) + Len(b) + 1] = c[1]
      BY <1>1, <2>1
    <2>. QED
      BY <2>1, <2>2, <2>3
  <1>7. x = y
    <2>. HIDE DEF x, y
    <2>. QED
      BY <1>3, <1>4, <1>5, SeqEqual
  <1>. QED
    BY <1>1, <1>6, <1>7 DEF LastOf

LEMMA TreatCat ==
    ASSUME NEW a \in Seq(Line), NEW b \in Seq(Line), NEW c \in Seq(Line), a # <<>>
    PROVE  /\ (Tail(a) \o b) \o c = Tail((a \o b) \o c)
           /\ Head(a) = ((a \o b) \o c)[1]
           /\ (a \o b) \o c # <<>>
  <1>. DEFINE x == (Tail(a) \o b) \o c
              z == (a \o b) \o c
              y == Tail(z)
  <1>1. /\ Head(a) = a[1] /\ a[1] \in Line /\ Len(a) \in Nat \ {0}
        /\ Tail(a) \in Seq(Line) /\ Len(Tail(a)) = Len(a) - 1
        /\ \A k \in 1 .. Len(a) - 1 : Tail(a)[k] = a[k + 1]
    OBVIOUS
  <1>2. z \in Seq(Line) /\ Len(z) = Len(a) + Len(b) + Len(c) /\ z # <<>> /\ z[1] = a[1]
    BY <1>1
  <1>3. y \in Seq(Line) /\ Len(y) = Len(z) - 1 /\ \A k \in 1 .. Len(y) : y[k] = z[k + 1]
    <2>. HIDE DEF z
    <2>. QED
      BY <1>2
  <1>4. x \in Seq(Line) /\ Len(x) = Len(y)
    BY <1>1, <1>2, <1>3
  <1>5. ASSUME NEW k \in 1 .. Len(y) PROVE x[k] = z[k + 1]
    <2>1. k \in Nat \ {0} /\ k < Len(a) + Len(b) + Len(c)
      BY <1>2, <1>3, <1>5
    <2>2. CASE k < Len(a)
      BY <1>1, <2>1, <2>2
    <2>3. CASE k >= Len(a) /\ k < Len(a) + Len(b)
      BY <1>1, <2>1, <2>3
    <2>4. CASE k >= Len(a) + Len(b)
      BY <1>1, <2>1, <2>4
    <2>. QED
      BY <1>1, <2>1, <2>2, <2>3, <2>4
  <1>6. x = y
    <2>. HIDE DEF x, y, z
    <2>. QED
      BY <1>3, <1>4, <1>5, SeqEqual
  <1>. QED
    BY <1>1, <1>2, <1>6

(* The lines p of the connection c, if the statics are s when they come.    *)
InTurn(s, c, p) ==
    /\ \A k \in 1 .. Len(p) : p[k].of[1] = c
    /\ Chained(p)
    /\ IF p = <<>> THEN Neutral(s) ELSE Needs(s, p[1]) /\ Ends(LastOf(p))

LEMMA AppendInTurn ==
    ASSUME NEW s \in SessionState, NEW c, NEW p \in Seq(Line), InTurn(s, c, p),
           p # <<>> => LastOf(p).cmd \notin Stops,
           NEW of \in Gesture, of[1] = c
    PROVE  LET g == LinesOf(of) IN
           /\ InTurn(s, c, p \o g)
           /\ p \o g # <<>>
           /\ LastOf(p \o g) = LastOf(g)
<1>. DEFINE g == LinesOf(of)
<1>1. g \in Seq(Line) /\ Complete(of, g)
  BY GestureInTurn, GestureIsLines
<1>. HIDE DEF g
<1>2. Len(g) \in Nat \ {0} /\ p \o g \in Seq(Line) /\ Len(p \o g) = Len(p) + Len(g) /\ Len(p) \in Nat
  BY <1>1 DEF Complete
<1>3. \A k \in 1 .. Len(p) : (p \o g)[k] = p[k]
  BY <1>1
<1>4. \A k \in 1 .. Len(g) : (p \o g)[Len(p) + k] = g[k]
  BY <1>1
<1>5. LastOf(p \o g) = LastOf(g) /\ p \o g # <<>>
  BY <1>2, <1>4 DEF LastOf
<1>6. \A k \in 1 .. Len(p \o g) : k \in 1 .. Len(p) \/ (k - Len(p) \in 1 .. Len(g) /\ (p \o g)[k] = g[k - Len(p)])
  <2>1. \A k \in 1 .. Len(p \o g) : k \in 1 .. Len(p) \/ k - Len(p) \in 1 .. Len(g)
    BY <1>2
  <2>2. \A k \in 1 .. Len(p \o g) : Len(p) + (k - Len(p)) = k
    BY <1>2
  <2>. QED
    BY <1>4, <2>1, <2>2
<1>7. ASSUME NEW k \in 1 .. Len(p \o g) PROVE (p \o g)[k].of[1] = c
  BY <1>1, <1>3, <1>6 DEF Complete, InTurn
<1>8. p # <<>> => Leads(LastOf(p), g[1])
  <2>1. ASSUME p # <<>>, NEW r \in SessionState, NEW shot \in Shots, Needs(r, LastOf(p))
        PROVE  Needs(AfterEvent(r, LastOf(p), shot), g[1])
    <3>1. LastOf(p) \in LineType
      BY <2>1, <1>2, LineIsTyped DEF LastOf
    <3>2. AfterEvent(r, LastOf(p), shot) \in SessionState
      BY <3>1, AfterEventType
    <3>3. Neutral(AfterEvent(r, LastOf(p), shot))
      BY <2>1 DEF InTurn, Ends
    <3>. QED
      BY <1>1, <3>2, <3>3 DEF Complete, Begins
  <2>. QED
    BY <2>1 DEF Leads
<1>9. ASSUME NEW k \in 1 .. Len(p \o g) - 1
      PROVE  Leads((p \o g)[k], (p \o g)[k + 1]) /\ (p \o g)[k].cmd \notin Stops
  <2>1. CASE k < Len(p)
    <3>1. k \in 1 .. Len(p) - 1 /\ k \in 1 .. Len(p) /\ k + 1 \in 1 .. Len(p)
      BY <1>2, <2>1
    <3>. QED
      BY <1>3, <3>1 DEF InTurn, Chained
  <2>2. CASE k = Len(p)
    <3>1. p # <<>> /\ k \in 1 .. Len(p) /\ 1 \in 1 .. Len(g) /\ (p \o g)[k] = LastOf(p) /\ (p \o g)[k + 1] = g[1]
      BY <1>2, <1>3, <1>4, <2>2 DEF LastOf
    <3>. QED
      BY <1>8, <3>1
  <2>3. CASE k > Len(p)
    <3>1. /\ k - Len(p) \in 1 .. Len(g) - 1 /\ k - Len(p) \in 1 .. Len(g) /\ (k - Len(p)) + 1 \in 1 .. Len(g)
          /\ Len(p) + (k - Len(p)) = k /\ Len(p) + ((k - Len(p)) + 1) = k + 1
      BY <1>2, <2>3
    <3>2. (p \o g)[k] = g[k - Len(p)] /\ (p \o g)[k + 1] = g[(k - Len(p)) + 1]
      BY <1>4, <3>1
    <3>. QED
      BY <1>1, <3>1, <3>2 DEF Complete, Chained
  <2>. QED
    BY <1>2, <2>1, <2>2, <2>3
<1>10. Needs(s, (p \o g)[1])
  <2>1. CASE p = <<>>
    <3>1. (p \o g)[1] = g[1] /\ Neutral(s)
      BY <1>1, <1>2, <1>4, <2>1 DEF InTurn
    <3>. QED
      BY <1>1, <3>1 DEF Complete, Begins
  <2>2. CASE p # <<>>
    BY <1>2, <1>3, <2>2 DEF InTurn
  <2>. QED
    BY <2>1, <2>2
<1>11. Chained(p \o g)
  BY <1>9 DEF Chained
<1>12. Ends(LastOf(p \o g))
  BY <1>1, <1>5 DEF Complete
<1>. QED
  BY <1>5, <1>7, <1>10, <1>11, <1>12 DEF InTurn, g

LEMMA TreatInTurn ==
    ASSUME NEW s \in SessionState, NEW c, NEW p \in Seq(Line), p # <<>>, InTurn(s, c, p), NEW shot \in Shots
    PROVE  /\ InTurn(AfterEvent(s, p[1], shot), c, Tail(p))
           /\ Tail(p) # <<>> => LastOf(Tail(p)) = LastOf(p) /\ p[1].cmd \notin Stops
           /\ Tail(p) = <<>> => LastOf(p) = p[1]
<1>1. /\ Len(p) \in Nat \ {0} /\ Tail(p) \in Seq(Line) /\ Len(Tail(p)) = Len(p) - 1
      /\ \A k \in 1 .. Len(p) - 1 : Tail(p)[k] = p[k + 1]
  OBVIOUS
<1>2. Tail(p) # <<>> => LastOf(Tail(p)) = LastOf(p) /\ Len(p) > 1
  BY <1>1 DEF LastOf
<1>3. Tail(p) = <<>> => LastOf(p) = p[1]
  BY <1>1 DEF LastOf
<1>4. \A k \in 1 .. Len(Tail(p)) : Tail(p)[k].of[1] = c
  <2>1. \A k \in 1 .. Len(p) - 1 : k + 1 \in 1 .. Len(p)
    BY <1>1
  <2>. QED
    BY <1>1, <2>1 DEF InTurn
<1>5. Chained(Tail(p))
  <2>1. \A k \in 1 .. Len(p) - 2 : k \in 1 .. Len(p) - 1 /\ k + 1 \in 1 .. Len(p) - 1
    BY <1>1
  <2>2. Len(Tail(p)) - 1 = Len(p) - 2
    BY <1>1
  <2>3. \A k \in 1 .. Len(p) - 2 : Tail(p)[k] = p[k + 1] /\ Tail(p)[k + 1] = p[(k + 1) + 1]
    BY <1>1, <2>1
  <2>. QED
    BY <2>1, <2>2, <2>3 DEF InTurn, Chained
<1>6. Tail(p) # <<>> => Tail(p)[1] = p[1 + 1] /\ Leads(p[1], p[1 + 1]) /\ p[1].cmd \notin Stops
  BY <1>1, <1>2 DEF InTurn, Chained
<1>7. Needs(s, p[1]) /\ Ends(LastOf(p))
  BY DEF InTurn
<1>8. Tail(p) # <<>> => Needs(AfterEvent(s, p[1], shot), Tail(p)[1]) /\ Ends(LastOf(Tail(p)))
  BY <1>2, <1>6, <1>7 DEF Leads
<1>9. Tail(p) = <<>> => Neutral(AfterEvent(s, p[1], shot))
  BY <1>3, <1>7 DEF Ends
<1>. QED
  BY <1>2, <1>3, <1>4, <1>5, <1>6, <1>8, <1>9 DEF InTurn

----------------------------------------------------------------------------
(* The statics across the turns of the phones. *)

(* The statics as a phone that connects wants them. *)
Fresh(s) ==
    /\ Neutral(s)
    /\ ~s.screen_rotate
    /\ <<s.width, s.height>> \in {<<W176, H208>>, <<W320, H240>>}

(* The size of a screenshot is a default one, or told by c itself. *)
Own(s, c) ==
    /\ s.width \in {W176, W320} \/ \E of \in Gesture : of[1] = c /\ s.width = <<of, "w">>
    /\ s.height \in {H208, H240} \/ \E of \in Gesture : of[1] = c /\ s.height = <<of, "h">>

LEMMA NeedsCommand ==
    ASSUME NEW s \in SessionState, NEW l, Needs(s, l), l.cmd # "NONE"
    PROVE  Neutral(s)
  <1>1. \A axis, g : Number(axis, g).cmd = "NONE"
    BY DEF Number
  <1>2. \A axis, g : l # Number(axis, g)
    BY <1>1
  <1>. QED
    BY <1>2 DEF Needs

LEMMA NeedsNone ==
    ASSUME NEW s \in SessionState, NEW l, Needs(s, l), l.cmd = "NONE"
    PROVE  \/ /\ s.mouse_event /\ ~s.flag /\ s.dim_times = 0
              /\ \/ s.times = 0 /\ l = Number("x", l.of)
                 \/ s.times = 1 /\ l = Number("y", l.of) /\ s.x_mouse = <<l.of, "x">>
           \/ /\ ~s.mouse_event /\ s.times = 0 /\ s.flag
              /\ \/ s.dim_times = 0 /\ l = Number("w", l.of)
                 \/ s.dim_times = 1 /\ l = Number("h", l.of)
  BY DEF Needs, Plain, PressCodes, Buttons

(* The size a line leaves is the one it found, its own, or the default.     *)
LEMMA OwnKept ==
    ASSUME NEW s \in SessionState, NEW c, Own(s, c), NEW l \in Line, l.of[1] = c, Needs(s, l), NEW shot \in Shots
    PROVE  Own(AfterEvent(s, l, shot), c)
<1>. DEFINE a == AfterEvent(s, l, shot)
<1>1. l \in LineType /\ l.of \in Gesture
  BY LineIsTyped DEF LineType
<1>2. ASSUME l.cmd # "NONE"
      PROVE  (a.width = s.width /\ a.height = s.height) \/ (a.width = W320 /\ a.height = H240)
  <2>1. Neutral(s)
    BY <1>2, NeedsCommand
  <2>2. /\ NoMove(s).width = s.width /\ NoMove(s).height = s.height
        /\ NoMove(Closed(s)).width = W320 /\ NoMove(Closed(s)).height = H240
    <3>1. NoMove(s).width = s.width /\ NoMove(s).height = s.height
      BY DEF NoMove, SessionState
    <3>. QED
      BY <3>1, ClosedIs
  <2>3. CASE l.cmd \in Commands
    <3>1. a = NoMove(AfterCommand(s, l)) \/ a = AfterCommand(s, l)
      BY <2>1, <2>3, CommandAlone
    <3>2. CASE l.cmd = "CONN_CLOSE"
      <4>1. CommandResult(s, l, shot) = "CONN_CLOSE" /\ AfterCommand(s, l) = Closed(s)
        BY <2>3, <3>2 DEF CommandResult, AfterCommand, protocol_command
      <4>2. a = NoMove(Closed(s))
        BY <2>1, <2>3, <4>1, CommandAlone
      <4>. QED
        BY <2>2, <4>2
    <3>3. CASE l.cmd # "CONN_CLOSE"
      <4>1. AfterCommand(s, l) \in {s, [s EXCEPT !.screen_rotate = TRUE], [s EXCEPT !.screen_rotate = FALSE],
                                    [s EXCEPT !.flag = TRUE]}
        BY <1>2, <2>1, <2>3, <3>3 DEF AfterCommand, protocol_command, Neutral
      <4>2. \A r \in {s, [s EXCEPT !.screen_rotate = TRUE], [s EXCEPT !.screen_rotate = FALSE],
                      [s EXCEPT !.flag = TRUE]} :
              r \in SessionState /\ r.width = s.width /\ r.height = s.height
        BY DEF SessionState
      <4>3. \A r \in SessionState : NoMove(r).width = r.width /\ NoMove(r).height = r.height
        BY DEF NoMove, SessionState
      <4>. QED
        BY <3>1, <4>1, <4>2, <4>3
    <3>. QED
      BY <3>2, <3>3
  <2>4. CASE l.cmd \in Keys \cup Scrolls \cup PressCodes
    BY <2>4, KeyAlone
  <2>5. CASE l.cmd \in {"MOUSE_MOVE"} \cup Buttons
    <3>1. ~IsX(s, l) /\ ~IsY(s, l) /\ ~IsCommand(s, l)
      BY <2>5 DEF IsX, IsY, IsCommand, IsOther, ecell_mouse_ewindow, MouseEvents, Buttons
    <3>2. l.cmd = "MOUSE_MOVE" => a = [s EXCEPT !.mouse_event = TRUE]
      BY <3>1 DEF AfterEvent, Buttons
    <3>3. l.cmd \in Buttons => a = [s EXCEPT !.button = l.cmd]
      BY <3>1 DEF AfterEvent, Buttons
    <3>4. a = [s EXCEPT !.mouse_event = TRUE] \/ a = [s EXCEPT !.button = l.cmd]
      BY <2>5, <3>2, <3>3
    <3>. QED
      BY <3>4 DEF SessionState
  <2>. QED
    BY <1>1, <1>2, <2>3, <2>4, <2>5 DEF LineType, MouseEvents
<1>3. ASSUME l.cmd = "NONE"
      PROVE  /\ a.width = s.width \/ a.width = <<l.of, "w">>
             /\ a.height = s.height \/ a.height = <<l.of, "h">>
  <2>1. CASE s.mouse_event /\ s.times = 0 /\ l = Number("x", l.of)
    <3>1. a = TakeX(s, <<l.of, "x">>)
      BY <2>1, FirstNumber
    <3>. QED
      BY <3>1, TakeXIs
  <2>2. CASE s.mouse_event /\ s.times = 1 /\ l = Number("y", l.of)
    <3>1. a = NoMove(s)
      BY <2>2, SecondNumber
    <3>. QED
      BY <3>1 DEF NoMove, SessionState
  <2>3. CASE ~s.mouse_event /\ s.flag /\ s.dim_times = 0 /\ l = Number("w", l.of)
    <3>1. a = Dimension(s, <<l.of, "w">>)
      BY <2>3, SizeNumber
    <3>. QED
      BY <2>3, <3>1, DimensionIs
  <2>4. CASE ~s.mouse_event /\ s.flag /\ s.dim_times = 1 /\ l = Number("h", l.of)
    <3>1. a = Dimension(s, <<l.of, "h">>)
      BY <2>4, SizeNumber
    <3>. QED
      BY <2>4, <3>1, DimensionIs
  <2>. QED
    BY <1>3, <2>1, <2>2, <2>3, <2>4, NeedsNone
<1>. HIDE DEF a
<1>4. Own(a, c)
  BY <1>1, <1>2, <1>3 DEF Own
<1>. QED
  BY <1>4 DEF a

(* The line that ends a connection leaves the statics as a new one wants them. *)
LEMMA CloseIsFresh ==
    ASSUME NEW s \in SessionState, NEW l, NEW shot, Needs(s, l),
           EventResult(s, l, shot) = "CONN_CLOSE", l.cmd = "SCREEN_TAKE" => shot # "not_sent"
    PROVE  l.cmd = "CONN_CLOSE" /\ Fresh(AfterEvent(s, l, shot))
<1>1. l.cmd = "CONN_CLOSE"
  <2>1. CASE l.cmd \in Commands
    BY <2>1 DEF EventResult, CommandResult, IsX, IsY, IsCommand, protocol_command
  <2>2. CASE l.cmd \notin Commands
    <3>1. protocol_command(l) = "NONE"
      BY <2>2 DEF protocol_command
    <3>2. CommandResult(s, l, shot) # "CONN_CLOSE"
      BY <3>1 DEF CommandResult
    <3>. QED
      BY <2>2, <3>2 DEF EventResult, IsX, IsY, IsCommand
  <2>. QED
    BY <2>1, <2>2
<1>2. Neutral(s) /\ l.cmd \in Commands
  BY <1>1, NeedsCommand DEF Commands
<1>3. CommandResult(s, l, shot) = "CONN_CLOSE" /\ AfterCommand(s, l) = Closed(s)
  BY <1>1, <1>2 DEF CommandResult, AfterCommand, protocol_command
<1>4. AfterEvent(s, l, shot) = NoMove(Closed(s))
  BY <1>2, <1>3, CommandAlone
<1>. QED
  BY <1>1, <1>2, <1>4, ClosedIs DEF Fresh, Neutral

----------------------------------------------------------------------------
(* The invariant of the turns. *)

(* The lines of c that are being treated, then those in its socket, then     *)
(* those it has not sent.                                                   *)
Waiting(c) == (batch \o inq[c]) \o todo[c]

(* The phone c that is linked: its lines come in turn; it waits for a      *)
(* picture only when its last line asks for one; it has gone only after    *)
(* CONN_CLOSE, which is yet to be treated or is what its callback is about *)
(* to act on.                                                              *)
Turn(c) ==
    /\ InTurn(st, c, Waiting(c))
    /\ Own(st, c)
    /\ Waiting(c) # <<>> /\ LastOf(Waiting(c)).cmd = "SCREEN_TAKE" /\ todo[c] = <<>> => phone[c] = "asking"
    /\ Waiting(c) # <<>> /\ LastOf(Waiting(c)).cmd = "CONN_CLOSE" => IsGone(c)
    /\ IsGone(c) => /\ todo[c] = <<>>
                    /\ IF Waiting(c) = <<>> THEN task = "lines" /\ result = "CONN_CLOSE"
                       ELSE LastOf(Waiting(c)).cmd = "CONN_CLOSE"

(* The phone that is linked has its turn; with none, the statics are       *)
(* fresh, and they are fresh as soon as CONN_CLOSE has been treated.       *)
TurnInv ==
    /\ \A c \in Conn : IsLinked(c) => Turn(c)
    /\ server # "exited" /\ (\A c \in Conn : ~IsOpen(c)) => Fresh(st)
    /\ batch # <<>> => task = "lines"
    /\ task = "lines" /\ batch = <<>> => result # "-1"
    /\ task = "lines" /\ result = "CONN_CLOSE" => batch = <<>> /\ Fresh(st)
    /\ \A c \in Conn : phone[c] = "idle" => inq[c] = <<>>

(* What each step may rely on. *)
Before == ServerInv /\ ServerInv' /\ OnePhone /\ OnePhone' /\ TurnInv

LEMMA WaitingType ==
    ASSUME TypeOK, NEW c \in Conn
    PROVE  /\ Waiting(c) \in Seq(Line)
           /\ batch = <<>> => Waiting(c) = inq[c] \o todo[c]
  <1>1. batch \in Seq(Line) /\ inq[c] \in Seq(Line) /\ todo[c] \in Seq(Line)
    BY DEF TypeOK
  <1>2. batch = <<>> => batch \o inq[c] = inq[c]
    BY <1>1, ConcatEmptySeq
  <1>3. (batch \o inq[c]) \o todo[c] \in Seq(Line)
    BY <1>1
  <1>. QED
    BY <1>2, <1>3 DEF Waiting

(* How the steps change what is waiting: reading and sending move lines    *)
(* along, treating takes the first, and a gesture is put at the end.       *)
LEMMA ReadWaits ==
    ASSUME TypeOK, batch = <<>>, NEW c \in Conn, c = Client, ReadLines
    PROVE  /\ Waiting(c)' = Waiting(c) /\ Waiting(c) # <<>> /\ batch' # <<>>
           /\ \A d \in Conn \ {c} : inq'[d] = inq[d]
  <1>1. UNCHANGED todo
    BY DEF ReadLines, phoneVars
  <1>2. PICK k \in 1 .. MaxBatch :
          /\ k <= Len(inq[c])
          /\ batch' = SubSeq(inq[c], 1, k)
          /\ inq' = [inq EXCEPT ![c] = SubSeq(@, k + 1, Len(@))]
    BY DEF ReadLines
  <1>3. inq[c] \in Seq(Line) /\ todo[c] \in Seq(Line) /\ k \in 1 .. Len(inq[c])
    BY <1>2, BoundAssumption DEF TypeOK
  <1>4. batch' # <<>>
    <2>1. SubSeq(inq[c], 1, k) # <<>>
      BY <1>3
    <2>. QED
      BY <1>2, <2>1
  <1>5. inq'[c] = SubSeq(inq[c], k + 1, Len(inq[c])) /\ \A d \in Conn \ {c} : inq'[d] = inq[d]
    BY <1>2, <1>3 DEF TypeOK
  <1>6. batch' \o inq'[c] = inq[c]
    BY <1>2, <1>3, <1>5, ReadCat
  <1>7. Waiting(c)' = Waiting(c)
    <2>1. Waiting(c) = inq[c] \o todo[c]
      BY <1>3, WaitingType
    <2>2. Waiting(c)' = (batch' \o inq'[c]) \o todo'[c]
      BY DEF Waiting
    <2>. QED
      BY <1>1, <1>6, <2>1, <2>2
  <1>8. Waiting(c) # <<>>
    <2>1. inq[c] \o todo[c] # <<>>
      BY <1>3
    <2>. QED
      BY <1>3, <2>1, WaitingType
  <1>. QED
    BY <1>4, <1>5, <1>7, <1>8

LEMMA TreatWaits ==
    ASSUME TypeOK, NEW c \in Conn, TreatLine
    PROVE  /\ Waiting(c) \in Seq(Line)
           /\ Waiting(c) # <<>>
           /\ Waiting(c)' = Tail(Waiting(c))
           /\ Head(batch) = Waiting(c)[1]
           /\ Head(batch) \in Line
  <1>1. batch # <<>> /\ batch' = Tail(batch) /\ UNCHANGED <<inq, todo>>
    BY DEF TreatLine, netVars
  <1>2. batch \in Seq(Line) /\ inq[c] \in Seq(Line) /\ todo[c] \in Seq(Line) /\ Waiting(c) \in Seq(Line)
    BY WaitingType DEF TypeOK
  <1>3. Waiting(c)' = (Tail(batch) \o inq[c]) \o todo[c] /\ Waiting(c) = (batch \o inq[c]) \o todo[c]
    BY <1>1 DEF Waiting
  <1>4. /\ (Tail(batch) \o inq[c]) \o todo[c] = Tail((batch \o inq[c]) \o todo[c])
        /\ Head(batch) = ((batch \o inq[c]) \o todo[c])[1]
        /\ (batch \o inq[c]) \o todo[c] # <<>>
    BY <1>1, <1>2, TreatCat, Zenon
  <1>5. Head(batch) \in Line
    BY <1>1, <1>2
  <1>. QED
    BY <1>2, <1>3, <1>4, <1>5, Zenon

LEMMA SendWaits ==
    ASSUME TypeOK, NEW c \in Conn, Send(c)
    PROVE  /\ Waiting(c)' = Waiting(c)
           /\ todo'[c] = <<>> => LastOf(Waiting(c)) = Head(todo[c])
  <1>1. /\ todo[c] # <<>> /\ UNCHANGED batch
        /\ inq'[c] = Append(inq[c], Head(todo[c])) /\ todo'[c] = Tail(todo[c])
    BY DEF Send, TypeOK, taskVars
  <1>2. batch \in Seq(Line) /\ inq[c] \in Seq(Line) /\ todo[c] \in Seq(Line)
    BY DEF TypeOK
  <1>3. /\ (batch \o Append(inq[c], Head(todo[c]))) \o Tail(todo[c]) = (batch \o inq[c]) \o todo[c]
        /\ Tail(todo[c]) = <<>> => LastOf((batch \o inq[c]) \o todo[c]) = Head(todo[c])
    BY <1>1, <1>2, SendCat, Zenon
  <1>4. Waiting(c)' = (batch \o Append(inq[c], Head(todo[c]))) \o Tail(todo[c])
    BY <1>1 DEF Waiting
  <1>5. Waiting(c) = (batch \o inq[c]) \o todo[c]
    BY DEF Waiting
  <1>. QED
    BY <1>1, <1>3, <1>4, <1>5

LEMMA BeginWaits ==
    ASSUME TypeOK, TypeOK', NEW c \in Conn, Begin(c)
    PROVE  \E of \in Gesture :
              /\ of[1] = c /\ of[3] # "close" /\ LinesOf(of) \in Seq(Line)
              /\ todo'[c] = LinesOf(of) /\ \A d \in Conn \ {c} : todo'[d] = todo[d]
              /\ Waiting(c)' = Waiting(c) \o LinesOf(of)
  <1>1. /\ todo[c] = <<>> /\ count' = [count EXCEPT ![c] = @ + 1] /\ UNCHANGED <<batch, inq>>
    BY DEF Begin, taskVars, netVars
  <1>2. PICK g \in Gestures : todo' = [todo EXCEPT ![c] = LinesOf(<<c, count'[c], g>>)]
    BY DEF Begin
  <1>. DEFINE of == <<c, count'[c], g>>
  <1>3. of \in Gesture /\ of[1] = c /\ of[3] # "close"
    <2>1. count'[c] \in 0 .. MaxGestures + 1
      BY BoundAssumption DEF TypeOK
    <2>. QED
      BY <2>1, GestureAssumption DEF Gesture, GestureNames
  <1>4. LinesOf(of) \in Seq(Line) /\ todo'[c] = LinesOf(of)
        /\ \A d \in Conn \ {c} : todo'[d] = todo[d]
    <2>. HIDE DEF of
    <2>. QED
      BY <1>2, <1>3, GestureIsLines DEF of, TypeOK
  <1>. HIDE DEF of
  <1>5. Waiting(c)' = Waiting(c) \o LinesOf(of)
    <2>1. batch \o inq[c] \in Seq(Line) /\ Waiting(c) = (batch \o inq[c]) \o <<>>
      BY <1>1 DEF TypeOK, Waiting
    <2>2. Waiting(c) = batch \o inq[c]
      BY <2>1, ConcatEmptySeq
    <2>. QED
      BY <1>1, <1>4, <2>2 DEF Waiting
  <1>. QED
    BY <1>3, <1>4, <1>5

LEMMA ConnectWaits ==
    ASSUME TypeOK, NEW c \in Conn, Connect(c), batch = <<>>, inq[c] = <<>>
    PROVE  \E of \in Gesture :
              /\ of[1] = c /\ of[3] # "close" /\ LinesOf(of) \in Seq(Line)
              /\ todo'[c] = LinesOf(of)
              /\ Waiting(c)' = <<>> \o LinesOf(of)
  <1>1. PICK g \in Greetings : todo' = [todo EXCEPT ![c] = LinesOf(<<c, 0, g>>)]
    BY DEF Connect
  <1>. DEFINE of == <<c, 0, g>>
  <1>2. of \in Gesture /\ of[1] = c /\ of[3] # "close"
    BY BoundAssumption, GestureAssumption DEF Gesture, GreetingNames
  <1>3. LinesOf(of) \in Seq(Line) /\ todo'[c] = LinesOf(of) /\ UNCHANGED <<batch, inq>>
    <2>. HIDE DEF of
    <2>. QED
      BY <1>1, <1>2, GestureIsLines DEF of, TypeOK, Connect, taskVars
  <1>. HIDE DEF of
  <1>4. Waiting(c)' = (<<>> \o <<>>) \o LinesOf(of)
    BY <1>3 DEF Waiting
  <1>5. Waiting(c)' = <<>> \o LinesOf(of)
    BY <1>4
  <1>. QED
    BY <1>2, <1>3, <1>5

LEMMA HangUpWaits ==
    ASSUME TypeOK, NEW c \in Conn, HangUp(c)
    PROVE  \E of \in Gesture :
              /\ of[1] = c /\ of[3] = "close" /\ LinesOf(of) \in Seq(Line)
              /\ \A d \in Conn \ {c} : inq'[d] = inq[d]
              /\ Waiting(c)' = Waiting(c) \o LinesOf(of)
  <1>. DEFINE of == <<c, MaxGestures + 1, "close">>
  <1>1. of \in Gesture /\ of[1] = c /\ of[3] = "close"
    BY BoundAssumption DEF Gesture
  <1>2. /\ todo[c] = <<>> /\ UNCHANGED <<batch, todo>>
        /\ inq' = [inq EXCEPT ![c] = @ \o LinesOf(of)]
    BY DEF HangUp, taskVars
  <1>. HIDE DEF of
  <1>3. LinesOf(of) \in Seq(Line)
    BY <1>1, GestureIsLines
  <1>4. inq'[c] = inq[c] \o LinesOf(of) /\ \A d \in Conn \ {c} : inq'[d] = inq[d]
    BY <1>2 DEF TypeOK
  <1>5. batch \in Seq(Line) /\ inq[c] \in Seq(Line) /\ inq[c] \o LinesOf(of) \in Seq(Line)
    BY <1>3 DEF TypeOK
  <1>6. Waiting(c) = batch \o inq[c]
    <2>1. Waiting(c) = (batch \o inq[c]) \o <<>> /\ batch \o inq[c] \in Seq(Line)
      BY <1>2, <1>5 DEF Waiting
    <2>. QED
      BY <2>1, ConcatEmptySeq
  <1>7. Waiting(c)' = batch \o (inq[c] \o LinesOf(of))
    <2>1. Waiting(c)' = (batch \o (inq[c] \o LinesOf(of))) \o <<>>
      BY <1>2, <1>4 DEF Waiting
    <2>2. batch \o (inq[c] \o LinesOf(of)) \in Seq(Line)
      BY <1>5
    <2>. QED
      BY <2>1, <2>2, ConcatEmptySeq
  <1>8. (batch \o inq[c]) \o LinesOf(of) = batch \o (inq[c] \o LinesOf(of))
    BY <1>3, <1>5, AssocCat, Zenon
  <1>9. Waiting(c)' = Waiting(c) \o LinesOf(of)
    BY <1>6, <1>7, <1>8
  <1>. QED
    BY <1>1, <1>3, <1>4, <1>9

(* The phone whose callback is running is the only one. *)
LEMMA ClientIs ==
    ASSUME ServerInv, OnePhone, InClientCb, task \in {"idle", "lines"}
    PROVE  \E c \in Conn : /\ c = Client /\ IsOpen(c) /\ IsLinked(c)
                          /\ \A d \in Conn : IsLinked(d) => d = c
                          /\ phone[c] # "idle"
  <1>1. i \in AnyFd /\ Client \in Conn
    <2>1. CASE task = "idle"
      BY <2>1, ReadableIsPeer DEF ServerInv, StillReadable, InClientCb
    <2>2. CASE task = "lines"
      BY <2>2 DEF ServerInv, Lifecycle, TypeOK, Client, InClientCb
    <2>. QED
      BY <2>1, <2>2
  <1>2. IsOpen(Client)
    BY <1>1 DEF IsOpen, Client
  <1>3. IsLinked(Client)
    BY <1>2 DEF IsLinked
  <1>4. phone[Client] # "idle"
    BY <1>1 DEF ServerInv, OnePlace, Client
  <1>. QED
    BY <1>1, <1>2, <1>3, <1>4 DEF OnePhone

(* A step that leaves the phones and their lines alone. *)
LEMMA TurnSame ==
    ASSUME UNCHANGED <<st, batch, inq, todo, phone>>, NEW c \in Conn, Turn(c),
           Waiting(c) = <<>> /\ IsGone(c) => UNCHANGED <<task, result>>
    PROVE  Turn(c)'
  <1>1. Waiting(c)' = Waiting(c)
    BY DEF Waiting
  <1>. QED
    BY <1>1 DEF Turn, IsGone

LEMMA LinesSame ==
    ASSUME TurnInv, UNCHANGED <<peer, backlog, st, batch, inq, todo, phone, task, result>>,
           server' = "exited" <=> server = "exited"
    PROVE  TurnInv'
  <1>1. \A c \in Conn : (IsOpen(c)' <=> IsOpen(c)) /\ (IsLinked(c)' <=> IsLinked(c))
    BY LinkedKept
  <1>2. \A c \in Conn : Turn(c) => Turn(c)'
    BY TurnSame
  <1>. QED
    BY <1>1, <1>2 DEF TurnInv

LEMMA TurnAccept ==
    ASSUME Before, Accept
    PROVE  TurnInv'
  <1>1. TypeOK /\ TypeOK'
    BY DEF Before, ServerInv
  <1>2. /\ Head(backlog) \in Conn
        /\ \A c \in Conn : IsOpen(c)' <=> IsOpen(c) \/ c = Head(backlog)
        /\ \A c \in Conn : IsLinked(c)' <=> IsLinked(c)
    BY <1>1, AcceptOpens
  <1>3. UNCHANGED <<st, batch, inq, todo, phone>> /\ task = "idle" /\ task' = "done"
    BY DEF Accept, phoneVars
  <1>4. \A c \in Conn : Turn(c) => Turn(c)'
    BY <1>3, TurnSame DEF Turn
  <1>. QED
    BY <1>2, <1>3, <1>4 DEF Before, TurnInv

LEMMA TurnRead ==
    ASSUME Before, ReadLines
    PROVE  TurnInv'
  <1>1. /\ InClientCb /\ task = "idle" /\ task' = "lines" /\ result' = "-1"
        /\ UNCHANGED <<peer, backlog, st, todo, phone, server>>
    BY DEF ReadLines, phoneVars
  <1>2. PICK c \in Conn :
          /\ c = Client /\ IsOpen(c) /\ IsLinked(c)
          /\ \A d \in Conn : IsLinked(d) => d = c
          /\ phone[c] # "idle"
    BY <1>1, ClientIs DEF Before
  <1>3. /\ Waiting(c)' = Waiting(c) /\ Waiting(c) # <<>> /\ batch' # <<>>
        /\ \A d \in Conn \ {c} : inq'[d] = inq[d]
    BY <1>1, <1>2, ReadWaits DEF Before, TurnInv, ServerInv
  <1>4. Turn(c)'
    <2>1. Turn(c)
      BY <1>2 DEF Before, TurnInv
    <2>. QED
      BY <1>1, <1>3, <2>1 DEF Turn, IsGone
  <1>5. \A d \in Conn : (IsOpen(d)' <=> IsOpen(d)) /\ (IsLinked(d)' <=> IsLinked(d))
    BY <1>1, LinkedKept
  <1>. QED
    BY <1>1, <1>2, <1>3, <1>4, <1>5 DEF Before, TurnInv

LEMMA TurnTreat ==
    ASSUME Before, TreatLine
    PROVE  TurnInv'
  <1>1. /\ InClientCb /\ task = "lines" /\ batch # <<>> /\ batch' = Tail(batch)
        /\ UNCHANGED <<peer, backlog, inq, todo, task, server>> /\ server = "running"
    BY DEF TreatLine, netVars, InClientCb
  <1>2. PICK c \in Conn :
          /\ c = Client /\ IsOpen(c) /\ IsLinked(c)
          /\ \A d \in Conn : IsLinked(d) => d = c
          /\ phone[c] # "idle"
    BY <1>1, ClientIs DEF Before
  <1>. DEFINE l == Head(batch)
  <1>3. PICK shot \in ShotOf(l) :
          /\ st' = AfterEvent(st, l, shot)
          /\ result' = EventResult(st, l, shot)
          /\ out' = Effect(st, l, shot)
    BY DEF TreatLine
  <1>4. phone' = [phone EXCEPT ![c] = IF out'.kind = "image" /\ @ = "asking" THEN "connected" ELSE @]
    BY <1>2 DEF TreatLine
  <1>5. /\ TypeOK /\ batch \in Seq(Line) /\ inq[c] \in Seq(Line) /\ todo[c] \in Seq(Line)
        /\ st \in SessionState /\ shot \in Shots /\ l \in Line
    <2>1. TypeOK
      BY DEF Before, ServerInv
    <2>2. /\ batch \in Seq(Line) /\ inq[c] \in Seq(Line) /\ todo[c] \in Seq(Line)
          /\ st \in SessionState
      BY <2>1 DEF TypeOK
    <2>3. shot \in Shots
      BY DEF ShotOf
    <2>4. l \in Line
      BY <1>1, <2>2
    <2>. QED
      BY <2>1, <2>2, <2>3, <2>4
  <1>6. /\ Waiting(c) \in Seq(Line)
        /\ Waiting(c) # <<>>
        /\ Waiting(c)' = Tail(Waiting(c))
        /\ l = Waiting(c)[1]
    BY <1>5, TreatWaits
  <1>. HIDE DEF l
  <1>7. /\ Turn(c)
        /\ InTurn(st, c, Waiting(c))
        /\ Needs(st, l) /\ l.of[1] = c
    <2>1. Turn(c)
      BY <1>2 DEF Before, TurnInv
    <2>2. 1 \in 1 .. Len(Waiting(c))
      BY <1>6
    <2>. QED
      BY <1>6, <2>1, <2>2 DEF Turn, InTurn
  <1>8. /\ InTurn(st', c, Waiting(c)')
        /\ Waiting(c)' # <<>> => LastOf(Waiting(c)') = LastOf(Waiting(c)) /\ l.cmd \notin Stops
        /\ Waiting(c)' = <<>> => LastOf(Waiting(c)) = l
    BY <1>3, <1>5, <1>6, <1>7, TreatInTurn
  <1>9. Own(st', c)
    BY <1>3, <1>5, <1>7, OwnKept DEF Turn
  <1>10. l.cmd # "SCREEN_TAKE" => out'.kind # "image"
    BY <1>3 DEF Effect, IsTake, send_event, mouse_click, mouse_move, Nothing
  <1>11. l.cmd = "SCREEN_TAKE" => ~IsGone(c)
    BY <1>6, <1>7, <1>8 DEF Turn, Stops
  <1>12. l.cmd = "SCREEN_TAKE" => shot # "not_sent"
    BY <1>2, <1>11 DEF ShotOf
  <1>13. result' = "CONN_CLOSE" => l.cmd = "CONN_CLOSE" /\ Fresh(st')
    BY <1>3, <1>5, <1>7, <1>12, CloseIsFresh
  <1>14. /\ \A d \in Conn : (phone'[d] = "gone" <=> phone[d] = "gone") /\ (phone'[d] = "idle" <=> phone[d] = "idle")
         /\ l.cmd # "SCREEN_TAKE" => phone'[c] = phone[c]
    BY <1>4, <1>5, <1>10 DEF TypeOK
  <1>15. l.cmd = "CONN_CLOSE" => result' = "CONN_CLOSE"
    <2>1. ASSUME l.cmd = "CONN_CLOSE" PROVE result' = "CONN_CLOSE"
      <3>1. Neutral(st) /\ l.cmd \in Commands
        BY <1>5, <1>7, <2>1, NeedsCommand DEF Commands
      <3>2. IsCommand(st, l) /\ ~IsX(st, l) /\ ~IsY(st, l)
        BY <3>1, CodesDiffer DEF IsCommand, IsOther, IsX, IsY, Neutral, ecell_button_ewindow, ecell_mouse_ewindow
      <3>3. CommandResult(st, l, shot) = "CONN_CLOSE"
        BY <2>1, <3>1 DEF CommandResult, protocol_command
      <3>. QED
        BY <1>3, <3>2, <3>3 DEF EventResult
    <2>. QED
      BY <2>1
  <1>16. Turn(c)'
    <2>1. Waiting(c)' # <<>> /\ LastOf(Waiting(c)').cmd = "SCREEN_TAKE" /\ todo'[c] = <<>> => phone'[c] = "asking"
      BY <1>1, <1>6, <1>7, <1>8, <1>14 DEF Turn, Stops
    <2>2. Waiting(c)' # <<>> /\ LastOf(Waiting(c)').cmd = "CONN_CLOSE" => IsGone(c)'
      BY <1>6, <1>7, <1>8, <1>14 DEF Turn, IsGone
    <2>3. IsGone(c)' => todo'[c] = <<>> /\ LastOf(Waiting(c)).cmd = "CONN_CLOSE"
      BY <1>1, <1>6, <1>7, <1>14 DEF Turn, IsGone
    <2>4. IsGone(c)' => IF Waiting(c)' = <<>> THEN task' = "lines" /\ result' = "CONN_CLOSE"
                       ELSE LastOf(Waiting(c)').cmd = "CONN_CLOSE"
      BY <1>1, <1>8, <1>15, <2>3
    <2>. QED
      BY <1>8, <1>9, <2>1, <2>2, <2>3, <2>4 DEF Turn
  <1>17. \A d \in Conn : (IsOpen(d)' <=> IsOpen(d)) /\ (IsLinked(d)' <=> IsLinked(d))
    BY <1>1, LinkedKept
  <1>18. result' # "-1"
    <2>1. l \in LineType
      BY <1>5, LineIsTyped
    <2>2. result' \in MouseEvents \cup Keys \cup Commands \cup {"NONE", "moved"}
      BY <1>3, <1>5, <2>1, EventResultType
    <2>. QED
      BY <2>2 DEF MouseEvents, Keys, Commands, Buttons, Scrolls, PressCodes
  <1>19. l.cmd = "CONN_CLOSE" => batch' = <<>>
    <2>1. Waiting(c)' = (batch' \o inq'[c]) \o todo'[c] /\ batch' \in Seq(Line)
      BY <1>1, <1>5 DEF Waiting
    <2>2. Waiting(c)' = <<>> => batch' = <<>>
      <3>1. batch' \in Seq(Line) /\ inq[c] \in Seq(Line) /\ todo[c] \in Seq(Line) /\ inq' = inq /\ todo' = todo
        BY <1>1, <1>5, <2>1
      <3>2. batch' \o inq[c] \in Seq(Line)
        BY <3>1
      <3>3. (batch' \o inq[c]) \o todo[c] = <<>> => batch' \o inq[c] = <<>>
        BY <3>1, <3>2, ConcatEqualIffEmpty
      <3>4. batch' \o inq[c] = <<>> => batch' = <<>>
        BY <3>1, ConcatEqualIffEmpty
      <3>. QED
        BY <2>1, <3>1, <3>3, <3>4
    <2>. QED
      BY <1>8, <2>2 DEF Stops
  <1>. QED
    BY <1>1, <1>2, <1>13, <1>14, <1>16, <1>17, <1>18, <1>19 DEF Before, TurnInv

LEMMA TurnFinish ==
    ASSUME Before, FinishLines
    PROVE  TurnInv'
  <1>1. /\ InClientCb /\ task = "lines" /\ batch = <<>> /\ task' = "done"
        /\ UNCHANGED <<batch, result, st, backlog, inq, todo, phone, server>>
    BY DEF FinishLines, phoneVars
  <1>2. TypeOK /\ OnePlace /\ Lifecycle
    BY DEF Before, ServerInv
  <1>3. PICK c \in Conn :
          /\ c = Client /\ IsOpen(c) /\ IsLinked(c)
          /\ \A d \in Conn : IsLinked(d) => d = c
    BY <1>1, ClientIs DEF Before
  <1>4. result # "-1"
    BY <1>1 DEF Before, TurnInv
  <1>5. CASE Closing
    <2>1. Fresh(st)
      BY <1>1, <1>4, <1>5 DEF Closing, Before, TurnInv
    <2>2. \A d \in Conn : ~IsOpen(d)' /\ ~IsLinked(d)'
      <3>1. \A d \in Conn : (IsOpen(d)' <=> IsOpen(d) /\ d # Client) /\ (IsLinked(d)' <=> IsLinked(d) /\ d # Client)
        BY <1>2, <1>5, DropCloses
      <3>2. \A d \in Conn : IsOpen(d) => IsLinked(d)
        BY DEF IsLinked
      <3>. QED
        BY <1>3, <3>1, <3>2
    <2>. QED
      BY <1>1, <2>1, <2>2 DEF Before, TurnInv
  <1>6. CASE ~Closing
    <2>1. UNCHANGED <<peer, backlog>>
      BY <1>1, <1>6 DEF FinishLines
    <2>2. \A d \in Conn : (IsOpen(d)' <=> IsOpen(d)) /\ (IsLinked(d)' <=> IsLinked(d))
      BY <2>1, LinkedKept
    <2>3. Turn(c)
      BY <1>3 DEF Before, TurnInv
    <2>4. ~(Waiting(c) = <<>> /\ IsGone(c))
      BY <1>6, <2>3 DEF Turn, Closing
    <2>5. Turn(c)'
      BY <1>1, <2>3, <2>4, TurnSame
    <2>. QED
      BY <1>1, <1>3, <2>2, <2>5 DEF Before, TurnInv
  <1>. QED
    BY <1>5, <1>6

LEMMA TurnReturn ==
    ASSUME Before, ReturnZero
    PROVE  TurnInv'
  <1>1. /\ task = "done" /\ task' = "idle"
        /\ UNCHANGED <<peer, backlog, batch, st, inq, todo, phone, server>>
    BY DEF ReturnZero, netVars, phoneVars
  <1>2. \A d \in Conn : (IsOpen(d)' <=> IsOpen(d)) /\ (IsLinked(d)' <=> IsLinked(d))
    BY <1>1, LinkedKept
  <1>3. \A d \in Conn : Turn(d) => Turn(d)'
    BY <1>1, TurnSame DEF Turn
  <1>. QED
    BY <1>1, <1>2, <1>3 DEF Before, TurnInv

(* A phone that says good-bye leaves nothing unread when its read() fails. *)
LEMMA NoLoss ==
    ASSUME ServerInv, OnePhone, TurnInv
    PROVE  ~AtEnd
  <1>. SUFFICES ASSUME AtEnd PROVE FALSE
    OBVIOUS
  <1>1. PICK c \in Conn : c = Client /\ IsLinked(c)
    BY ClientIs DEF AtEnd
  <1>2. inq[c] = <<>> /\ IsGone(c) /\ task = "idle" /\ batch = <<>> /\ Turn(c)
    BY <1>1 DEF AtEnd, TurnInv
  <1>3. Waiting(c) = inq[c] \o todo[c] /\ todo[c] = <<>>
    BY <1>2, WaitingType DEF ServerInv, Turn
  <1>4. Waiting(c) = <<>>
    BY <1>2, <1>3
  <1>. QED
    BY <1>2, <1>4 DEF Turn

LEMMA TurnExit ==
    ASSUME Before, ContextDelete \/ ShotCrashes
    PROVE  TurnInv'
  <1>1. \A c \in Conn : ~IsLinked(c)'
    BY ExitCloses
  <1>2. /\ server' = "exited" /\ UNCHANGED <<task, batch, result, st>>
        /\ \A c \in Conn : inq'[c] = <<>>
    BY DEF ContextDelete, ShotCrashes, Exit, taskVars
  <1>. QED
    BY <1>1, <1>2 DEF Before, TurnInv

LEMMA TurnServer ==
    ASSUME Before, ServerStep
    PROVE  TurnInv'
  <1>1. ~ReadFails /\ ~ReadSpins
    BY NoLoss DEF Before, ReadFails, ReadSpins
  <1>2. CASE ContextNew \/ Start \/ LoopStep \/ AcceptFails
    <2>1. /\ UNCHANGED <<peer, backlog, st, batch, inq, todo, phone, task, result>>
          /\ server' = "exited" <=> server = "exited"
      BY <1>2 DEF ContextNew, Start, LoopStep, AcceptFails, NotInCallback, taskVars, netVars, phoneVars
    <2>. QED
      BY <2>1, LinesSame DEF Before
  <1>. QED
    BY <1>1, <1>2, TurnAccept, TurnRead, TurnTreat, TurnFinish, TurnReturn, TurnExit DEF ServerStep

(* The other phones are not concerned by what a phone says. *)
LEMMA OtherTurn ==
    ASSUME TypeOK, UNCHANGED <<st, batch, task, result>>, NEW c \in Conn, NEW d \in Conn \ {c}, Turn(d),
           inq'[d] = inq[d], todo'[d] = todo[d], phone'[d] = phone[d]
    PROVE  Turn(d)'
  <1>1. Waiting(d)' = Waiting(d)
    BY DEF Waiting
  <1>. QED
    BY <1>1 DEF Turn, IsGone

LEMMA TurnConnect ==
    ASSUME Before, NEW c \in Conn, Connect(c), ~Overlap
    PROVE  TurnInv'
  <1>1. TypeOK /\ TypeOK' /\ OnePlace
    BY DEF Before, ServerInv
  <1>2. /\ server = "running" /\ phone[c] = "idle" /\ (\A d \in Conn : ~IsLinked(d))
        /\ phone' = [phone EXCEPT ![c] = "connected"]
        /\ UNCHANGED <<server, task, batch, result, st, inq>>
    BY DEF Connect, taskVars
  <1>3. batch = <<>> /\ inq[c] = <<>>
    <2>1. ASSUME batch # <<>> PROVE FALSE
      <3>1. task = "lines"
        BY <2>1 DEF Before, TurnInv
      <3>2. i \in AnyFd /\ peer[i] \in Conn
        BY <1>2, <3>1 DEF Before, ServerInv, Lifecycle, TypeOK
      <3>. QED
        BY <1>2, <3>2 DEF IsLinked, IsOpen
    <2>. QED
      BY <1>2, <2>1 DEF Before, TurnInv
  <1>4. PICK of \in Gesture :
          /\ of[1] = c /\ of[3] # "close" /\ LinesOf(of) \in Seq(Line)
          /\ todo'[c] = LinesOf(of)
          /\ Waiting(c)' = <<>> \o LinesOf(of)
    BY <1>1, <1>3, ConnectWaits
  <1>5. phone'[c] = "connected" /\ \A d \in Conn : phone'[d] = "idle" => phone[d] = "idle"
    BY <1>1, <1>2 DEF TypeOK
  <1>6. Fresh(st) /\ st \in SessionState
    BY <1>1, <1>2 DEF Before, TurnInv, IsLinked, TypeOK
  <1>7. InTurn(st, c, <<>>) /\ <<>> \in Seq(Line)
    BY <1>6 DEF InTurn, Chained, Fresh
  <1>8. /\ InTurn(st, c, Waiting(c)')
        /\ Waiting(c)' # <<>>
        /\ LastOf(Waiting(c)') = LastOf(LinesOf(of))
    <2>1. /\ InTurn(st, c, <<>> \o LinesOf(of))
          /\ <<>> \o LinesOf(of) # <<>>
          /\ LastOf(<<>> \o LinesOf(of)) = LastOf(LinesOf(of))
      BY <1>4, <1>6, <1>7, AppendInTurn
    <2>. QED
      BY <1>4, <2>1
  <1>9. LastOf(Waiting(c)').cmd # "CONN_CLOSE" /\ todo'[c] # <<>>
    BY <1>4, <1>8, GestureInTurn DEF Complete
  <1>10. Own(st, c)
    BY <1>6 DEF Fresh, Own
  <1>11. Turn(c)'
    BY <1>2, <1>5, <1>8, <1>9, <1>10 DEF Turn, IsGone
  <1>12. /\ \A d \in Conn : IsOpen(d)' <=> IsOpen(d)
         /\ \A d \in Conn : IsLinked(d)' <=> IsLinked(d) \/ d = c
    BY <1>1, ConnectLinks
  <1>. QED
    BY <1>2, <1>5, <1>11, <1>12 DEF Before, TurnInv

(* What a phone appends to its own lines. *)
LEMMA TurnBegin ==
    ASSUME Before, NEW c \in Conn, Begin(c)
    PROVE  TurnInv'
  <1>1. TypeOK /\ TypeOK'
    BY DEF Before, ServerInv
  <1>2. /\ phone[c] = "connected" /\ todo[c] = <<>>
        /\ UNCHANGED <<peer, backlog, server, task, batch, result, st, inq, phone>>
    BY DEF Begin, taskVars, netVars
  <1>3. PICK of \in Gesture :
          /\ of[1] = c /\ of[3] # "close" /\ LinesOf(of) \in Seq(Line)
          /\ todo'[c] = LinesOf(of) /\ \A d \in Conn \ {c} : todo'[d] = todo[d]
          /\ Waiting(c)' = Waiting(c) \o LinesOf(of)
    BY <1>1, BeginWaits
  <1>4. Waiting(c) \in Seq(Line) /\ st \in SessionState
    BY <1>1, WaitingType DEF TypeOK
  <1>5. ASSUME Turn(c) PROVE Turn(c)'
    <2>1. Waiting(c) # <<>> => LastOf(Waiting(c)).cmd \notin Stops
      BY <1>2, <1>5 DEF Turn, Stops, IsGone
    <2>2. InTurn(st, c, Waiting(c)) /\ Own(st, c)
      BY <1>5 DEF Turn
    <2>3. /\ InTurn(st, c, Waiting(c)')
          /\ Waiting(c)' # <<>>
          /\ LastOf(Waiting(c)') = LastOf(LinesOf(of))
      BY <1>3, <1>4, <2>1, <2>2, AppendInTurn
    <2>4. LastOf(Waiting(c)').cmd # "CONN_CLOSE" /\ todo'[c] # <<>>
      BY <1>3, <2>3, GestureInTurn DEF Complete
    <2>. QED
      BY <1>2, <2>2, <2>3, <2>4 DEF Turn, IsGone
  <1>6. \A d \in Conn \ {c} : Turn(d) => Turn(d)'
    BY <1>1, <1>2, <1>3, OtherTurn
  <1>7. \A d \in Conn : (IsOpen(d)' <=> IsOpen(d)) /\ (IsLinked(d)' <=> IsLinked(d))
    BY <1>2, LinkedKept
  <1>. QED
    BY <1>2, <1>5, <1>6, <1>7 DEF Before, TurnInv

LEMMA TurnSend ==
    ASSUME Before, NEW c \in Conn, Send(c)
    PROVE  TurnInv'
  <1>1. TypeOK /\ TypeOK'
    BY DEF Before, ServerInv
  <1>2. /\ phone[c] = "connected" /\ todo[c] # <<>> /\ IsLinked(c)
        /\ UNCHANGED <<peer, backlog, server, task, batch, result, st>>
        /\ inq' = [inq EXCEPT ![c] = Append(@, Head(todo[c]))]
        /\ todo' = [todo EXCEPT ![c] = Tail(@)]
        /\ phone' = [phone EXCEPT ![c] = IF Head(todo[c]).cmd = "SCREEN_TAKE" THEN "asking" ELSE @]
    BY DEF Send, taskVars
  <1>3. /\ inq'[c] = Append(inq[c], Head(todo[c])) /\ todo'[c] = Tail(todo[c])
        /\ phone'[c] = IF Head(todo[c]).cmd = "SCREEN_TAKE" THEN "asking" ELSE "connected"
        /\ \A d \in Conn \ {c} : inq'[d] = inq[d] /\ todo'[d] = todo[d] /\ phone'[d] = phone[d]
    BY <1>1, <1>2 DEF TypeOK
  <1>4. /\ Waiting(c)' = Waiting(c)
        /\ todo'[c] = <<>> => LastOf(Waiting(c)) = Head(todo[c])
    BY <1>1, SendWaits
  <1>5. Turn(c)'
    <2>1. Turn(c)
      BY <1>2 DEF Before, TurnInv
    <2>2. Waiting(c) # <<>> => LastOf(Waiting(c)).cmd # "CONN_CLOSE"
      BY <1>2, <2>1 DEF Turn, IsGone
    <2>. QED
      BY <1>2, <1>3, <1>4, <2>1, <2>2 DEF Turn, IsGone
  <1>6. \A d \in Conn \ {c} : Turn(d) => Turn(d)'
    BY <1>1, <1>2, <1>3, OtherTurn
  <1>7. \A d \in Conn : (IsOpen(d)' <=> IsOpen(d)) /\ (IsLinked(d)' <=> IsLinked(d))
    BY <1>2, LinkedKept
  <1>8. \A d \in Conn : phone'[d] = "idle" => inq'[d] = <<>>
    BY <1>3 DEF Before, TurnInv
  <1>. QED
    BY <1>2, <1>5, <1>6, <1>7, <1>8 DEF Before, TurnInv

LEMMA TurnHangUp ==
    ASSUME Before, NEW c \in Conn, HangUp(c)
    PROVE  TurnInv'
  <1>1. TypeOK /\ TypeOK'
    BY DEF Before, ServerInv
  <1>2. /\ phone[c] = "connected" /\ todo[c] = <<>> /\ IsLinked(c)
        /\ phone' = [phone EXCEPT ![c] = "gone"]
        /\ UNCHANGED <<peer, backlog, server, task, batch, result, st, todo>>
    BY DEF HangUp, taskVars
  <1>3. PICK of \in Gesture :
          /\ of[1] = c /\ of[3] = "close" /\ LinesOf(of) \in Seq(Line)
          /\ \A d \in Conn \ {c} : inq'[d] = inq[d]
          /\ Waiting(c)' = Waiting(c) \o LinesOf(of)
    BY <1>1, HangUpWaits
  <1>4. phone'[c] = "gone" /\ \A d \in Conn \ {c} : phone'[d] = phone[d]
    BY <1>1, <1>2 DEF TypeOK
  <1>5. Waiting(c) \in Seq(Line) /\ st \in SessionState
    BY <1>1, WaitingType DEF TypeOK
  <1>6. Turn(c)'
    <2>1. Turn(c)
      BY <1>2 DEF Before, TurnInv
    <2>2. Waiting(c) # <<>> => LastOf(Waiting(c)).cmd \notin Stops
      BY <1>2, <2>1 DEF Turn, Stops, IsGone
    <2>3. InTurn(st, c, Waiting(c)) /\ Own(st, c)
      BY <2>1 DEF Turn
    <2>4. /\ InTurn(st, c, Waiting(c)')
          /\ Waiting(c)' # <<>>
          /\ LastOf(Waiting(c)') = LastOf(LinesOf(of))
      BY <1>3, <1>5, <2>2, <2>3, AppendInTurn
    <2>5. LastOf(Waiting(c)').cmd = "CONN_CLOSE"
      BY <1>3, <2>4, GestureInTurn
    <2>. QED
      BY <1>2, <1>4, <2>3, <2>4, <2>5 DEF Turn, IsGone
  <1>7. \A d \in Conn \ {c} : Turn(d) => Turn(d)'
    BY <1>1, <1>2, <1>3, <1>4, OtherTurn
  <1>8. \A d \in Conn : (IsOpen(d)' <=> IsOpen(d)) /\ (IsLinked(d)' <=> IsLinked(d))
    BY <1>2, LinkedKept
  <1>9. \A d \in Conn : phone'[d] = "idle" => inq'[d] = <<>>
    BY <1>3, <1>4 DEF Before, TurnInv
  <1>. QED
    BY <1>2, <1>6, <1>7, <1>8, <1>9 DEF Before, TurnInv

LEMMA TurnNotice ==
    ASSUME Before, NEW c \in Conn, Notice(c)
    PROVE  TurnInv'
  <1>1. TypeOK /\ TypeOK'
    BY DEF Before, ServerInv
  <1>2. /\ ~IsLinked(c)
        /\ phone' = [phone EXCEPT ![c] = "gone"]
        /\ todo' = [todo EXCEPT ![c] = <<>>]
        /\ UNCHANGED <<peer, backlog, server, task, batch, result, st, inq>>
    BY DEF Notice, taskVars, netVars
  <1>3. /\ phone'[c] = "gone"
        /\ \A d \in Conn \ {c} : todo'[d] = todo[d] /\ phone'[d] = phone[d]
    BY <1>1, <1>2 DEF TypeOK
  <1>4. \A d \in Conn \ {c} : Turn(d) => Turn(d)'
    BY <1>1, <1>2, <1>3, OtherTurn
  <1>5. \A d \in Conn : (IsOpen(d)' <=> IsOpen(d)) /\ (IsLinked(d)' <=> IsLinked(d))
    BY <1>2, LinkedKept
  <1>. QED
    BY <1>2, <1>3, <1>4, <1>5 DEF Before, TurnInv

LEMMA TurnWithdraw ==
    ASSUME Before, NEW c \in Conn, Withdraw(c)
    PROVE  TurnInv'
  <1>1. TypeOK /\ TypeOK' /\ OnePlace
    BY DEF Before, ServerInv
  <1>2. /\ inq' = [inq EXCEPT ![c] = <<>>]
        /\ UNCHANGED <<peer, server, task, batch, result, st, todo, phone>>
    BY DEF Withdraw, taskVars, phoneVars
  <1>3. inq'[c] = <<>> /\ \A d \in Conn \ {c} : inq'[d] = inq[d]
    BY <1>1, <1>2 DEF TypeOK
  <1>4. \A d \in Conn \ {c} : Turn(d) => Turn(d)'
    BY <1>1, <1>2, <1>3, OtherTurn
  <1>5. /\ \A d \in Conn : IsOpen(d)' <=> IsOpen(d)
        /\ \A d \in Conn : IsLinked(d)' <=> IsLinked(d) /\ d # c
    BY <1>1, WithdrawLinks
  <1>. QED
    BY <1>2, <1>3, <1>4, <1>5 DEF Before, TurnInv

LEMMA TurnStep ==
    ASSUME ~Overlap, ~Rude, Before, [Next]_vars
    PROVE  TurnInv'
<1>1. ASSUME NEW c \in Conn, PhoneStep(c) PROVE TurnInv'
  <2>1. ~Vanish(c)
    BY DEF Vanish
  <2>. QED
    BY <1>1, <2>1, TurnConnect, TurnBegin, TurnSend, TurnHangUp, TurnNotice, TurnWithdraw DEF PhoneStep
<1>2. CASE AtRest \/ UNCHANGED vars
  <2>1. UNCHANGED <<peer, backlog, st, batch, inq, todo, phone, task, result, server>>
    BY <1>2 DEF AtRest, vars, taskVars, netVars, phoneVars
  <2>. QED
    BY <2>1, LinesSame DEF Before
<1>. QED
  BY <1>1, <1>2, TurnServer DEF Next

LEMMA TurnInit ==
    ASSUME Init
    PROVE  TurnInv
<1>1. ASSUME NEW c \in Conn PROVE ~IsLinked(c)
  BY ConnAssumption DEF Init, IsOpen, IsLinked, Range
<1>2. Fresh(st)
  BY DEF Init, Statics, Fresh, Neutral
<1>. QED
  BY <1>1, <1>2 DEF Init, TurnInv

LEMMA TurnInvariant ==
    ASSUME ~Overlap, ~Rude
    PROVE  Spec => []TurnInv
<1>1. Init => TurnInv
  BY TurnInit
<1>2. ServerInv /\ ServerInv' /\ OnePhone /\ OnePhone' /\ TurnInv /\ [Next]_vars => TurnInv'
  BY TurnStep DEF Before
<1>. QED
  BY <1>1, <1>2, Invariant, OnePhoneInvariant, PTL DEF Spec

----------------------------------------------------------------------------
(* The effect of a line is there until the next one, or the end of the     *)
(* callback.                                                               *)
LEMMA OutChanges ==
    ASSUME [Next]_vars, ~TreatLine
    PROVE  out' \in {out, Nothing}
<1>1. CASE ServerStep
  BY <1>1 DEF ServerStep, ContextNew, Start, LoopStep, ContextDelete, Accept, AcceptFails, ReadLines, ReadFails,
              ReadSpins, ShotCrashes, FinishLines, ReturnZero, NotInCallback, taskVars
<1>2. ASSUME NEW c \in Conn, PhoneStep(c) PROVE UNCHANGED out
  BY <1>2 DEF PhoneStep, Connect, Begin, Send, HangUp, Vanish, Withdraw, Notice, taskVars
<1>3. CASE AtRest \/ UNCHANGED vars
  BY <1>3 DEF AtRest, vars, taskVars
<1>. QED
  BY <1>1, <1>2, <1>3 DEF Next

----------------------------------------------------------------------------
(* Clicks. They need the turns only: whichever statics a phone that        *)
(* vanished leaves, the first line of a click sets the button anew, and    *)
(* the lines that press and release it come after it.                      *)

(* l, a line of the same gesture, leaves the button as a press needs it.   *)
Selects(l, of) == l.of = of /\ l.cmd \in {OwnButton(of)} \cup PressCodes

(* The lines q press and release their own button, if b is the one that is *)
(* set when they come.                                                     *)
Clickable(b, q) ==
    \A k \in 1 .. Len(q) :
        q[k].cmd \in PressCodes => IF k = 1 THEN b = OwnButton(q[1].of) ELSE Selects(q[k - 1], q[k].of)

(* In the lines of a gesture, a press comes after its button; what clicks  *)
(* is a press of the left or right button, or a scroll.                    *)
LEMMA GestureClicks ==
    ASSUME NEW of \in Gesture
    PROVE  /\ Len(LinesOf(of)) \in Nat \ {0}
           /\ LinesOf(of)[1].cmd \notin PressCodes
           /\ \A k \in 2 .. Len(LinesOf(of)) :
                LinesOf(of)[k].cmd \in PressCodes => Selects(LinesOf(of)[k - 1], LinesOf(of)[k].of)
           /\ \A k \in 1 .. Len(LinesOf(of)) :
                /\ LinesOf(of)[k].cmd \in PressCodes => LinesOf(of)[k].of[3] \in Clicking
                /\ LinesOf(of)[k].cmd \in Scrolls => /\ LinesOf(of)[k].cmd = "MOUSE_SCROLL_UP"
                                                     /\ LinesOf(of)[k].of[3] = "scroll"
<1>. DEFINE T(code) == Text(code, of)
            N(axis) == Number(axis, of)
            Clicks(q) ==
                /\ q[1].cmd \notin PressCodes
                /\ \A k \in 2 .. Len(q) : q[k].cmd \in PressCodes => Selects(q[k - 1], q[k].of)
                /\ \A k \in 1 .. Len(q) :
                     /\ q[k].cmd \in PressCodes => q[k].of[3] \in Clicking
                     /\ q[k].cmd \in Scrolls => q[k].cmd = "MOUSE_SCROLL_UP" /\ q[k].of[3] = "scroll"
<1>1. of[3] \in GestureNames \cup GreetingNames \cup {"close"}
  BY GestureAssumption DEF Gesture
<1>2. /\ \A code : T(code).cmd = code /\ T(code).of = of
      /\ \A axis : N(axis).cmd = "NONE" /\ N(axis).of = of
  BY DEF Text, Number
<1>3. Len(LinesOf(of)) \in Nat \ {0}
  BY GestureInTurn, GestureIsLines DEF Complete
<1>b. OwnButton(of) \notin PressCodes \cup Scrolls
  BY DEF OwnButton, PressCodes, Scrolls
<1>s. \A code \in {"SCREEN_NORMAL", "SCREEN_ROTATE", "SCREEN_TAKE"} : code \notin PressCodes \cup Scrolls
  BY DEF PressCodes, Scrolls
<1>4. CASE of[3] \in Clicking
  <2>1. \/ LinesOf(of) = <<T(OwnButton(of)), T("MOUSE_BUTTON_PRESS"), T("MOUSE_BUTTON_RELEASE")>>
        \/ LinesOf(of) = <<T(OwnButton(of)), T("MOUSE_BUTTON_PRESS")>>
        \/ LinesOf(of) = <<T(OwnButton(of)), T("MOUSE_BUTTON_RELEASE")>>
        \/ \E code \in {"SCREEN_NORMAL", "SCREEN_ROTATE"} :
             LinesOf(of) = <<T(OwnButton(of)), T("MOUSE_BUTTON_PRESS"), T("MOUSE_BUTTON_RELEASE"), T(code),
                             T("SCREEN_TAKE")>>
    BY <1>4 DEF LinesOf, OwnButton, Clicking
  <2>. HIDE DEF T
  <2>2. Clicks(<<T(OwnButton(of)), T("MOUSE_BUTTON_PRESS"), T("MOUSE_BUTTON_RELEASE")>>)
    BY <1>2, <1>4, <1>b DEF Selects, PressCodes, Scrolls
  <2>3. /\ Clicks(<<T(OwnButton(of)), T("MOUSE_BUTTON_PRESS")>>)
        /\ Clicks(<<T(OwnButton(of)), T("MOUSE_BUTTON_RELEASE")>>)
    BY <1>2, <1>4, <1>b DEF Selects, PressCodes, Scrolls
  <2>4. ASSUME NEW code \in {"SCREEN_NORMAL", "SCREEN_ROTATE"}
        PROVE  Clicks(<<T(OwnButton(of)), T("MOUSE_BUTTON_PRESS"), T("MOUSE_BUTTON_RELEASE"), T(code),
                        T("SCREEN_TAKE")>>)
    BY <1>2, <1>4, <1>b, <1>s DEF Selects, PressCodes, Scrolls
  <2>5. Clicks(LinesOf(of))
    <3>. HIDE DEF Clicks
    <3>. QED
      BY <2>1, <2>2, <2>3, <2>4
  <2>. QED
    BY <1>3, <2>5
<1>5. CASE of[3] = "scroll"
  <2>1. LinesOf(of) = <<T("MOUSE_SCROLL_UP")>>
    BY <1>5 DEF LinesOf
  <2>2. Clicks(<<T("MOUSE_SCROLL_UP")>>)
    <3>. HIDE DEF T
    <3>. QED
      BY <1>2, <1>5 DEF PressCodes, Scrolls
  <2>. QED
    BY <1>3, <2>1, <2>2
<1>6. CASE of[3] \notin Clicking \cup {"scroll"}
  <2>1. \A k \in 1 .. Len(LinesOf(of)) : LinesOf(of)[k].cmd \notin PressCodes \cup Scrolls
    <3>1. \A code \in {"ENTER", "MOUSE_MOVE", "SCREEN_NORMAL", "SCREEN_ROTATE", "SCREEN_TAKE", "SCREEN_MODE_ON",
                       "SCREEN_RESOLUTION", "SCREEN_MODE_OFF", "CONN_CLOSE", "NONE"} :
            code \notin PressCodes \cup Scrolls
      BY DEF PressCodes, Scrolls
    <3>2. \/ LinesOf(of) = <<T("ENTER")>>
          \/ LinesOf(of) = <<T("MOUSE_MOVE"), N("x"), N("y")>>
          \/ LinesOf(of) = <<T("SCREEN_NORMAL"), T("SCREEN_TAKE")>>
          \/ LinesOf(of) = <<T("SCREEN_ROTATE"), T("SCREEN_TAKE")>>
          \/ LinesOf(of) = <<T("SCREEN_MODE_ON"), T("SCREEN_RESOLUTION"), N("w"), N("h")>>
          \/ LinesOf(of) = <<T("SCREEN_MODE_OFF")>>
          \/ LinesOf(of) = <<T("CONN_CLOSE")>>
      BY <1>1, <1>6 DEF LinesOf, GestureNames, GreetingNames, Clicking
    <3>. HIDE DEF T, N
    <3>. QED
      BY <1>2, <3>1, <3>2
  <2>2. 1 \in 1 .. Len(LinesOf(of)) /\ \A k \in 2 .. Len(LinesOf(of)) : k \in 1 .. Len(LinesOf(of))
    BY <1>3
  <2>. QED
    BY <1>3, <2>1, <2>2
<1>. QED
  BY <1>4, <1>5, <1>6

LEMMA LineClicks ==
    ASSUME NEW l \in Line
    PROVE  /\ l.cmd \in PressCodes => l.of[3] \in Clicking
           /\ l.cmd \in Scrolls => l.cmd = "MOUSE_SCROLL_UP" /\ l.of[3] = "scroll"
  <1>1. PICK of \in Gesture : l \in Range(LinesOf(of))
    BY DEF Line
  <1>2. PICK k \in 1 .. Len(LinesOf(of)) : l = LinesOf(of)[k]
    BY <1>1, GestureIsLines DEF Range
  <1>. QED
    BY <1>2, GestureClicks

LEMMA GestureClickable ==
    ASSUME NEW b, NEW p \in Seq(Line), Clickable(b, p), NEW of \in Gesture
    PROVE  Clickable(b, p \o LinesOf(of))
<1>. DEFINE g == LinesOf(of)
<1>1. /\ g \in Seq(Line) /\ Len(g) \in Nat \ {0} /\ g[1].cmd \notin PressCodes
      /\ \A k \in 2 .. Len(g) : g[k].cmd \in PressCodes => Selects(g[k - 1], g[k].of)
  BY GestureIsLines, GestureClicks
<1>. HIDE DEF g
<1>2. /\ p \o g \in Seq(Line) /\ Len(p \o g) = Len(p) + Len(g) /\ Len(p) \in Nat
      /\ \A k \in 1 .. Len(p) : (p \o g)[k] = p[k]
      /\ \A k \in 1 .. Len(g) : (p \o g)[Len(p) + k] = g[k]
  BY <1>1
<1>3. ASSUME NEW k \in 1 .. Len(p \o g), (p \o g)[k].cmd \in PressCodes
      PROVE  IF k = 1 THEN b = OwnButton((p \o g)[1].of) ELSE Selects((p \o g)[k - 1], (p \o g)[k].of)
  <2>1. CASE k <= Len(p)
    <3>1. k \in 1 .. Len(p) /\ 1 \in 1 .. Len(p) /\ (k # 1 => k - 1 \in 1 .. Len(p))
      BY <1>2, <2>1
    <3>. QED
      BY <1>2, <1>3, <3>1 DEF Clickable
  <2>2. CASE k = Len(p) + 1
    <3>1. 1 \in 1 .. Len(g) /\ (p \o g)[k] = g[1]
      BY <1>1, <1>2, <2>2
    <3>. QED
      BY <1>1, <1>3, <3>1
  <2>3. CASE k > Len(p) + 1
    <3>1. /\ k - Len(p) \in 2 .. Len(g) /\ k - Len(p) \in 1 .. Len(g) /\ (k - Len(p)) - 1 \in 1 .. Len(g)
          /\ Len(p) + (k - Len(p)) = k /\ Len(p) + ((k - Len(p)) - 1) = k - 1 /\ k # 1
      BY <1>2, <2>3
    <3>2. (p \o g)[k] = g[k - Len(p)] /\ (p \o g)[k - 1] = g[(k - Len(p)) - 1]
      BY <1>2, <3>1
    <3>. QED
      BY <1>1, <1>3, <3>1, <3>2
  <2>. QED
    BY <1>2, <2>1, <2>2, <2>3
<1>. QED
  BY <1>3 DEF Clickable, g

LEMMA CutClickable ==
    ASSUME NEW b, NEW p \in Seq(Line), NEW q \in Seq(Line), Clickable(b, p \o q)
    PROVE  Clickable(b, p)
  <1>1. /\ Len(p) \in Nat /\ Len(q) \in Nat /\ Len(p \o q) = Len(p) + Len(q)
        /\ \A k \in 1 .. Len(p) : (p \o q)[k] = p[k]
    OBVIOUS
  <1>2. ASSUME NEW k \in 1 .. Len(p), p[k].cmd \in PressCodes
        PROVE  IF k = 1 THEN b = OwnButton(p[1].of) ELSE Selects(p[k - 1], p[k].of)
    <2>1. k \in 1 .. Len(p \o q) /\ 1 \in 1 .. Len(p) /\ (k # 1 => k - 1 \in 1 .. Len(p))
      BY <1>1
    <2>. QED
      BY <1>1, <1>2, <2>1 DEF Clickable
  <1>. QED
    BY <1>2 DEF Clickable

LEMMA ButtonAfter ==
    ASSUME NEW s \in SessionState, NEW l, NEW shot
    PROVE  /\ l.cmd \in Buttons => AfterEvent(s, l, shot).button = l.cmd
           /\ l.cmd \in PressCodes => AfterEvent(s, l, shot).button = s.button
  <1>1. l.cmd \in Buttons => AfterEvent(s, l, shot) = [s EXCEPT !.button = l.cmd]
    BY DEF AfterEvent, Buttons, IsX, IsY, IsCommand, IsOther, ecell_mouse_ewindow, MouseEvents
  <1>2. l.cmd \in PressCodes => AfterEvent(s, l, shot) = s
    BY KeyAlone
  <1>. QED
    BY <1>1, <1>2 DEF SessionState

LEMMA TreatClickable ==
    ASSUME NEW s \in SessionState, NEW p \in Seq(Line), p # <<>>, Clickable(s.button, p), NEW shot
    PROVE  Clickable(AfterEvent(s, p[1], shot).button, Tail(p))
  <1>1. /\ Len(p) \in Nat \ {0} /\ Tail(p) \in Seq(Line) /\ Len(Tail(p)) = Len(p) - 1
        /\ \A k \in 1 .. Len(p) - 1 : Tail(p)[k] = p[k + 1]
    OBVIOUS
  <1>2. ASSUME NEW k \in 1 .. Len(Tail(p)), Tail(p)[k].cmd \in PressCodes
        PROVE  IF k = 1 THEN AfterEvent(s, p[1], shot).button = OwnButton(Tail(p)[1].of)
               ELSE Selects(Tail(p)[k - 1], Tail(p)[k].of)
    <2>1. /\ k + 1 \in 1 .. Len(p) /\ k + 1 # 1 /\ (k + 1) - 1 = k
          /\ Tail(p)[k] = p[k + 1]
      BY <1>1
    <2>2. Selects(p[k], p[k + 1].of)
      BY <1>2, <2>1 DEF Clickable
    <2>3. CASE k = 1
      <3>1. 1 \in 1 .. Len(p) /\ p[1].of = Tail(p)[1].of /\ p[1].cmd \in {OwnButton(p[1].of)} \cup PressCodes
        BY <1>1, <2>1, <2>2, <2>3 DEF Selects
      <3>2. OwnButton(p[1].of) \in Buttons
        BY DEF OwnButton, Buttons
      <3>3. CASE p[1].cmd = OwnButton(p[1].of)
        BY <2>3, <3>1, <3>2, <3>3, ButtonAfter
      <3>4. CASE p[1].cmd \in PressCodes
        BY <2>3, <3>1, <3>4, ButtonAfter DEF Clickable
      <3>. QED
        BY <3>1, <3>3, <3>4
    <2>4. CASE k # 1
      <3>1. k - 1 \in 1 .. Len(p) - 1 /\ (k - 1) + 1 = k
        BY <1>1, <2>4
      <3>2. Tail(p)[k - 1] = p[k]
        BY <1>1, <3>1
      <3>. QED
        BY <2>1, <2>2, <2>4, <3>2
    <2>. QED
      BY <2>3, <2>4
  <1>. QED
    BY <1>2 DEF Clickable

(* What is waiting clicks its own buttons.                                 *)
ClickInv ==
    /\ \A c \in Conn : IsLinked(c) => Clickable(st.button, Waiting(c))
    /\ batch # <<>> => task = "lines"
    /\ \A c \in Conn : phone[c] = "idle" => inq[c] = <<>>

(* The steps that neither treat a line nor add one. *)
LEMMA ClickSame ==
    ASSUME ClickInv, UNCHANGED <<st, batch, inq, todo>>,
           batch # <<>> => UNCHANGED task,
           \A c \in Conn : IsLinked(c)' => IsLinked(c),
           \A c \in Conn : phone'[c] = "idle" => phone[c] = "idle"
    PROVE  ClickInv'
  <1>1. \A c \in Conn : Waiting(c)' = Waiting(c)
    BY DEF Waiting
  <1>. QED
    BY <1>1 DEF ClickInv

LEMMA ClickServer ==
    ASSUME ServerInv, ServerInv', OnePhone, ClickInv, ServerStep
    PROVE  ClickInv'
<1>t. TypeOK /\ TypeOK' /\ OnePlace /\ Lifecycle
  BY DEF ServerInv
<1>1. CASE ContextNew \/ Start \/ LoopStep \/ AcceptFails \/ ReadFails \/ ReadSpins \/ ReturnZero
  <2>1. /\ UNCHANGED <<peer, backlog, st, batch, inq, todo, phone>>
        /\ batch # <<>> => UNCHANGED task
    BY <1>1 DEF ContextNew, Start, LoopStep, AcceptFails, ReadFails, ReadSpins, ReturnZero, AtEnd, ClickInv,
                NotInCallback, taskVars, netVars, phoneVars
  <2>2. \A c \in Conn : IsLinked(c)' <=> IsLinked(c)
    BY <2>1, LinkedKept
  <2>. QED
    BY <2>1, <2>2, ClickSame
<1>2. CASE ContextDelete \/ ShotCrashes
  <2>1. \A c \in Conn : ~IsLinked(c)'
    BY <1>2, ExitCloses
  <2>2. UNCHANGED <<batch, task>> /\ \A c \in Conn : inq'[c] = <<>>
    BY <1>2 DEF ContextDelete, ShotCrashes, Exit, taskVars
  <2>. QED
    BY <2>1, <2>2 DEF ClickInv
<1>3. CASE Accept
  <2>1. /\ UNCHANGED <<st, batch, inq, todo, phone>> /\ task = "idle"
    BY <1>3 DEF Accept, phoneVars
  <2>2. \A c \in Conn : IsLinked(c)' <=> IsLinked(c)
    BY <1>t, <1>3, AcceptOpens
  <2>. QED
    BY <2>1, <2>2, ClickSame DEF ClickInv
<1>4. CASE ReadLines
  <2>1. InClientCb /\ task = "idle" /\ task' = "lines" /\ UNCHANGED <<peer, backlog, st, phone>>
    BY <1>4 DEF ReadLines, phoneVars
  <2>2. PICK c \in Conn :
          c = Client /\ (\A d \in Conn : IsLinked(d) => d = c) /\ phone[c] # "idle"
    BY <2>1, ClientIs
  <2>3. Waiting(c)' = Waiting(c) /\ \A d \in Conn \ {c} : inq'[d] = inq[d]
    BY <1>t, <1>4, <2>1, <2>2, ReadWaits DEF ClickInv
  <2>4. \A d \in Conn : IsLinked(d)' <=> IsLinked(d)
    BY <2>1, LinkedKept
  <2>. QED
    BY <2>1, <2>2, <2>3, <2>4 DEF ClickInv
<1>5. CASE TreatLine
  <2>1. UNCHANGED <<peer, backlog, inq, todo, task>> /\ task = "lines"
    BY <1>5 DEF TreatLine, netVars
  <2>2. PICK shot : st' = AfterEvent(st, Head(batch), shot)
    BY <1>5 DEF TreatLine
  <2>3. st \in SessionState
    BY <1>t DEF TypeOK
  <2>4. ASSUME NEW c \in Conn, IsLinked(c) PROVE Clickable(st'.button, Waiting(c)')
    <3>1. /\ Waiting(c) \in Seq(Line) /\ Waiting(c) # <<>>
          /\ Waiting(c)' = Tail(Waiting(c)) /\ Head(batch) = Waiting(c)[1]
      BY <1>t, <1>5, TreatWaits
    <3>2. Clickable(st.button, Waiting(c))
      BY <2>4 DEF ClickInv
    <3>. QED
      BY <2>2, <2>3, <3>1, <3>2, TreatClickable
  <2>5. \A d \in Conn : IsLinked(d)' <=> IsLinked(d)
    BY <2>1, LinkedKept
  <2>6. \A d \in Conn : phone'[d] = "idle" => phone[d] = "idle"
    BY <1>t, <1>5 DEF TreatLine, TypeOK
  <2>. QED
    BY <2>1, <2>4, <2>5, <2>6 DEF ClickInv
<1>6. CASE FinishLines
  <2>1. UNCHANGED <<st, batch, inq, todo, phone>> /\ batch = <<>>
    BY <1>6 DEF FinishLines, phoneVars
  <2>2. \A d \in Conn : IsLinked(d)' => IsLinked(d)
    <3>1. CASE Closing
      BY <1>t, <1>6, <3>1, DropCloses
    <3>2. CASE ~Closing
      <4>1. UNCHANGED <<peer, backlog>>
        BY <1>6, <3>2 DEF FinishLines
      <4>. QED
        BY <4>1, LinkedKept
    <3>. QED
      BY <3>1, <3>2
  <2>. QED
    BY <2>1, <2>2, ClickSame
<1>. QED
  BY <1>1, <1>2, <1>3, <1>4, <1>5, <1>6 DEF ServerStep

LEMMA ClickPhone ==
    ASSUME ~Overlap, ServerInv, ServerInv', ClickInv, NEW c \in Conn, PhoneStep(c)
    PROVE  ClickInv'
<1>t. TypeOK /\ TypeOK' /\ Lifecycle /\ OnePlace
  BY DEF ServerInv
<1>w. \A d \in Conn : Waiting(d) \in Seq(Line)
  BY <1>t, WaitingType
<1>1. CASE Connect(c)
  <2>1. /\ server = "running" /\ phone[c] = "idle" /\ (\A d \in Conn : ~IsLinked(d))
        /\ UNCHANGED <<st, batch, inq, task>>
        /\ \A d \in Conn : phone'[d] = "idle" => phone[d] = "idle"
    BY <1>t, <1>1 DEF Connect, taskVars, TypeOK
  <2>2. batch = <<>>
    <3>1. ASSUME task = "lines" PROVE FALSE
      <4>1. i \in AnyFd /\ peer[i] \in Conn
        BY <1>t, <2>1, <3>1 DEF Lifecycle, TypeOK
      <4>. QED
        BY <2>1, <4>1 DEF IsLinked, IsOpen
    <3>. QED
      BY <3>1 DEF ClickInv
  <2>3. PICK of \in Gesture : Waiting(c)' = <<>> \o LinesOf(of)
    BY <1>t, <1>1, <2>1, <2>2, ConnectWaits DEF ClickInv
  <2>4. Clickable(st.button, <<>>) /\ <<>> \in Seq(Line)
    BY DEF Clickable
  <2>5. Clickable(st'.button, Waiting(c)')
    BY <2>1, <2>3, <2>4, GestureClickable
  <2>6. \A d \in Conn : IsLinked(d)' => d = c
    BY <1>t, <1>1, <2>1, ConnectLinks
  <2>. QED
    BY <2>1, <2>5, <2>6 DEF ClickInv
<1>2. ASSUME UNCHANGED <<peer, backlog, st, batch, task>>,
             \A d \in Conn : phone'[d] = "idle" => phone[d] = "idle" /\ inq'[d] = inq[d],
             \A d \in Conn \ {c} : inq'[d] = inq[d] /\ todo'[d] = todo[d],
             IsLinked(c) => Clickable(st.button, Waiting(c)')
      PROVE  ClickInv'
  <2>1. \A d \in Conn : IsLinked(d)' <=> IsLinked(d)
    BY <1>2, LinkedKept
  <2>2. \A d \in Conn \ {c} : Waiting(d)' = Waiting(d)
    BY <1>2 DEF Waiting
  <2>. QED
    BY <1>2, <2>1, <2>2 DEF ClickInv
<1>3. CASE Begin(c)
  <2>1. UNCHANGED <<peer, backlog, st, batch, task, phone, inq>>
    BY <1>3 DEF Begin, taskVars, netVars
  <2>2. PICK of \in Gesture :
          Waiting(c)' = Waiting(c) \o LinesOf(of) /\ \A d \in Conn \ {c} : todo'[d] = todo[d]
    BY <1>t, <1>3, BeginWaits
  <2>3. IsLinked(c) => Clickable(st.button, Waiting(c)')
    BY <1>w, <2>2, GestureClickable DEF ClickInv
  <2>. QED
    BY <1>2, <2>1, <2>2, <2>3
<1>4. CASE Send(c)
  <2>1. /\ UNCHANGED <<peer, backlog, st, batch, task>>
        /\ \A d \in Conn \ {c} : inq'[d] = inq[d] /\ todo'[d] = todo[d]
        /\ \A d \in Conn : phone'[d] = "idle" => d # c /\ phone[d] = "idle"
    BY <1>t, <1>4 DEF Send, taskVars, TypeOK
  <2>2. Waiting(c)' = Waiting(c)
    BY <1>t, <1>4, SendWaits
  <2>. QED
    BY <1>2, <2>1, <2>2 DEF ClickInv
<1>5. CASE HangUp(c)
  <2>1. /\ UNCHANGED <<peer, backlog, st, batch, task, todo>>
        /\ \A d \in Conn : phone'[d] = "idle" => d # c /\ phone[d] = "idle"
    BY <1>t, <1>5 DEF HangUp, taskVars, TypeOK
  <2>2. PICK of \in Gesture :
          Waiting(c)' = Waiting(c) \o LinesOf(of) /\ \A d \in Conn \ {c} : inq'[d] = inq[d]
    BY <1>t, <1>5, HangUpWaits
  <2>3. IsLinked(c) => Clickable(st.button, Waiting(c)')
    BY <1>w, <2>2, GestureClickable DEF ClickInv
  <2>. QED
    BY <1>2, <2>1, <2>2, <2>3
<1>6. CASE Vanish(c) \/ Notice(c)
  <2>1. /\ UNCHANGED <<peer, backlog, st, batch, task, inq>>
        /\ todo'[c] = <<>> /\ \A d \in Conn \ {c} : todo'[d] = todo[d]
        /\ \A d \in Conn : phone'[d] = "idle" => phone[d] = "idle"
    BY <1>t, <1>6 DEF Vanish, Notice, taskVars, netVars, TypeOK
  <2>2. batch \o inq[c] \in Seq(Line) /\ todo[c] \in Seq(Line)
    BY <1>t DEF TypeOK
  <2>3. Waiting(c)' = batch \o inq[c]
    <3>1. Waiting(c)' = (batch \o inq[c]) \o <<>>
      BY <2>1 DEF Waiting
    <3>. QED
      BY <2>2, <3>1, ConcatEmptySeq
  <2>4. IsLinked(c) => Clickable(st.button, Waiting(c)')
    <3>1. IsLinked(c) => Clickable(st.button, (batch \o inq[c]) \o todo[c])
      BY DEF ClickInv, Waiting
    <3>. QED
      BY <2>2, <2>3, <3>1, CutClickable
  <2>. QED
    BY <1>2, <2>1, <2>4
<1>7. CASE Withdraw(c)
  <2>1. /\ UNCHANGED <<st, batch, task, todo, phone>>
        /\ inq'[c] = <<>> /\ \A d \in Conn \ {c} : inq'[d] = inq[d]
    BY <1>t, <1>7 DEF Withdraw, taskVars, phoneVars, TypeOK
  <2>2. \A d \in Conn : IsLinked(d)' => IsLinked(d) /\ d # c
    BY <1>t, <1>7, WithdrawLinks
  <2>3. \A d \in Conn \ {c} : Waiting(d)' = Waiting(d)
    BY <2>1 DEF Waiting
  <2>. QED
    BY <2>1, <2>2, <2>3 DEF ClickInv
<1>. QED
  BY <1>1, <1>3, <1>4, <1>5, <1>6, <1>7 DEF PhoneStep

LEMMA ClickInvariant ==
    ASSUME ~Overlap
    PROVE  Spec => []ClickInv
<1>1. Init => ClickInv
  <2>1. ASSUME Init, NEW c \in Conn PROVE ~IsLinked(c)
    BY <2>1, ConnAssumption DEF Init, IsOpen, IsLinked, Range
  <2>. QED
    BY <2>1 DEF Init, ClickInv
<1>2. ServerInv /\ ServerInv' /\ OnePhone /\ ClickInv /\ [Next]_vars => ClickInv'
  <2>1. CASE AtRest \/ UNCHANGED vars
    <3>1. UNCHANGED <<peer, backlog, st, batch, inq, todo, phone, task>>
      BY <2>1 DEF AtRest, vars, taskVars, netVars, phoneVars
    <3>2. \A c \in Conn : IsLinked(c)' <=> IsLinked(c)
      BY <3>1, LinkedKept
    <3>. QED
      BY <3>1, <3>2, ClickSame
  <2>. QED
    BY <2>1, ClickServer, ClickPhone DEF Next
<1>. QED
  BY <1>1, <1>2, Invariant, OnePhoneInvariant, PTL DEF Spec

(* What the line makes of the button that it finds. *)
LEMMA ClickIs ==
    ASSUME NEW s, NEW l \in Line, NEW shot, l.cmd \in PressCodes => s.button = OwnButton(l.of),
           Effect(s, l, shot).kind = "click"
    PROVE  LET o == Effect(s, l, shot) IN \A e \in Range(o.events) : e[1] = ButtonOf[o.of[3]]
  <1>1. l.cmd \in Scrolls \/ (l.cmd \in PressCodes /\ s.button # "NONE")
    BY DEF Effect, send_event, mouse_move, Picture, Nothing
  <1>2. \/ l.cmd = "MOUSE_SCROLL_UP" /\ l.of[3] = "scroll"
        \/ l.cmd \in PressCodes /\ l.of[3] \in Clicking /\ s.button = OwnButton(l.of)
    BY <1>1, LineClicks
  <1>3. \A q : Range(<<q>>) = {q}
    BY DEF Range
  <1>4. \A q, r : Range(<<q, r>>) = {q, r}
    BY DEF Range
  <1>5. CASE l.cmd = "MOUSE_SCROLL_UP" /\ l.of[3] = "scroll"
    <2>1. Effect(s, l, shot) = mouse_click("MOUSE_SCROLL_UP", "NONE", l.of)
      BY <1>5, CodesDiffer
      DEF Effect, Scrolls, PressCodes, Keys, IsY, IsTake, IsOther, ecell_mouse_ewindow, MouseEvents, IsCommand
    <2>2. mouse_click("MOUSE_SCROLL_UP", "NONE", l.of).events = <<<<4, TRUE>>, <<4, FALSE>>>>
      BY DEF mouse_click, XButton, Scrolls
    <2>3. mouse_click("MOUSE_SCROLL_UP", "NONE", l.of).of = l.of /\ ButtonOf["scroll"] = 4
      BY DEF mouse_click, ButtonOf
    <2>. QED
      BY <1>4, <1>5, <2>1, <2>2, <2>3
  <1>6. CASE l.cmd \in PressCodes /\ l.of[3] \in Clicking /\ s.button = OwnButton(l.of)
    <2>1. s.button \in {"MOUSE_BUTTON_LEFT", "MOUSE_BUTTON_RIGHT"}
      BY <1>6 DEF OwnButton
    <2>2. Effect(s, l, shot) = mouse_click(s.button, l.cmd, l.of)
      BY <1>6, <2>1
      DEF Effect, Scrolls, PressCodes, Keys, IsY, IsTake, IsOther, ecell_mouse_ewindow, MouseEvents, IsCommand
    <2>3. /\ mouse_click(s.button, l.cmd, l.of).of = l.of
          /\ mouse_click(s.button, l.cmd, l.of).events \in {<<<<XButton[s.button], TRUE>>>>, <<<<XButton[s.button], FALSE>>>>}
      BY <2>1 DEF mouse_click, Scrolls
    <2>4. XButton[s.button] = ButtonOf[l.of[3]]
      BY <1>6 DEF OwnButton, XButton, ButtonOf, Clicking
    <2>5. \A n, down : \A e \in Range(<<<<n, down>>>>) : e[1] = n
      BY <1>3
    <2>6. \A e \in Range(mouse_click(s.button, l.cmd, l.of).events) : e[1] = XButton[s.button]
      BY <2>3, <2>5
    <2>. QED
      BY <2>2, <2>3, <2>4, <2>6
  <1>. QED
    BY <1>2, <1>5, <1>6

(* A click presses and releases the button its own gesture named, though   *)
(* the button is a static that earlier gestures and phones set, and phones *)
(* may vanish in the middle of a click, if each connects when no other is  *)
(* linked.                                                                 *)
THEOREM ClicksTheirButton ==
    ASSUME ~Overlap
    PROVE  Spec => []ClickIsOwnButton
<1>1. Init => ClickIsOwnButton
  BY DEF Init, ClickIsOwnButton, Nothing
<1>2. ServerInv /\ OnePhone /\ ClickInv /\ ClickIsOwnButton /\ [Next]_vars => ClickIsOwnButton'
  <2>. SUFFICES ASSUME ServerInv, OnePhone, ClickInv, ClickIsOwnButton, [Next]_vars PROVE ClickIsOwnButton'
    OBVIOUS
  <2>1. CASE out' \in {out, Nothing}
    BY <2>1 DEF ClickIsOwnButton, Nothing
  <2>2. CASE TreatLine
    <3>1. TypeOK /\ InClientCb /\ task = "lines"
      BY <2>2 DEF ServerInv, TreatLine
    <3>2. PICK c \in Conn : IsLinked(c)
      BY <3>1, ClientIs
    <3>3. PICK shot : out' = Effect(st, Head(batch), shot)
      BY <2>2 DEF TreatLine
    <3>4. /\ Waiting(c) \in Seq(Line) /\ Waiting(c) # <<>>
          /\ Head(batch) = Waiting(c)[1] /\ Head(batch) \in Line
      BY <2>2, <3>1, TreatWaits
    <3>5. Head(batch).cmd \in PressCodes => st.button = OwnButton(Head(batch).of)
      <4>1. 1 \in 1 .. Len(Waiting(c))
        BY <3>4
      <4>. QED
        BY <3>2, <3>4, <4>1 DEF ClickInv, Clickable
    <3>. QED
      BY <3>3, <3>4, <3>5, ClickIs DEF ClickIsOwnButton
  <2>. QED
    BY <2>1, <2>2, OutChanges
<1>. QED
  BY <1>1, <1>2, Invariant, OnePhoneInvariant, ClickInvariant, PTL DEF Spec

----------------------------------------------------------------------------
(* What the server does with a line that finds what it needs.               *)

LEMMA WarpIs ==
    ASSUME NEW s \in SessionState, NEW l, NEW shot, Needs(s, l), Effect(s, l, shot).kind = "warp"
    PROVE  LET o == Effect(s, l, shot) IN o.x = <<o.of, "x">> /\ o.y = <<o.of, "y">>
  <1>1. /\ l.cmd \notin Keys \cup Scrolls /\ ~(l.cmd \in PressCodes /\ s.button # "NONE")
        /\ IsY(s, l)
    <2>1. /\ \A k, g : send_event(k, g).kind = "key"
          /\ \A b, k, g : mouse_click(b, k, g).kind = "click"
          /\ \A r, g : Picture(r, g).kind = "image"
          /\ Nothing.kind = "nothing"
      BY DEF send_event, mouse_click, Picture, Nothing
    <2>2. CASE l.cmd \in Keys
      <3>1. Effect(s, l, shot) = send_event(l.cmd, l.of)
        BY <2>2, CodesDiffer DEF Effect, Scrolls, PressCodes, Keys, IsY, IsTake, IsCommand, IsOther, ecell_button_ewindow
      <3>. QED
        BY <2>1, <3>1
    <2>3. CASE l.cmd \in Scrolls
      <3>1. Effect(s, l, shot) = mouse_click(l.cmd, "NONE", l.of)
        BY <2>3, CodesDiffer
        DEF Effect, Scrolls, PressCodes, Keys, IsY, IsTake, IsOther, ecell_mouse_ewindow, MouseEvents, IsCommand
      <3>. QED
        BY <2>1, <3>1
    <2>4. CASE l.cmd \in PressCodes /\ s.button # "NONE"
      <3>1. Effect(s, l, shot) = mouse_click(s.button, l.cmd, l.of)
        BY <2>4, CodesDiffer
        DEF Effect, Scrolls, PressCodes, Keys, IsY, IsTake, IsOther, ecell_mouse_ewindow, MouseEvents, IsCommand
      <3>. QED
        BY <2>1, <3>1
    <2>5. CASE l.cmd \notin Keys \cup Scrolls /\ ~(l.cmd \in PressCodes /\ s.button # "NONE") /\ ~IsY(s, l)
      <3>1. Effect(s, l, shot) \in {Picture(s, l.of), Nothing}
        BY <2>5 DEF Effect
      <3>. QED
        BY <2>1, <3>1
    <2>. QED
      BY <2>2, <2>3, <2>4, <2>5
  <1>2. Effect(s, l, shot) = mouse_move(s.x_mouse, l.n, l.of)
    BY <1>1 DEF Effect, IsY, IsTake, IsCommand
  <1>3. l = Number("y", l.of) /\ s.x_mouse = <<l.of, "x">>
    BY <1>1 DEF IsY, Needs, Neutral
  <1>4. l.n = <<l.of, "y">>
    BY <1>3, NumberIs
  <1>. QED
    BY <1>2, <1>3, <1>4 DEF mouse_move

LEMMA PictureIs ==
    ASSUME NEW s \in SessionState, NEW c, Own(s, c), NEW l, l.of[1] = c, NEW shot, Needs(s, l),
           Effect(s, l, shot).kind = "image"
    PROVE  LET o == Effect(s, l, shot) IN
           /\ o.rotate <=> o.of[3] \in RotatedShots
           /\ o.width \notin {W176, W320} => o.width[1][1] = o.of[1] /\ o.width[2] = "w"
           /\ o.height \notin {H208, H240} => o.height[1][1] = o.of[1] /\ o.height[2] = "h"
  <1>1. l.cmd = "SCREEN_TAKE" /\ Effect(s, l, shot) = Picture(s, l.of)
    BY DEF Effect, IsTake, send_event, mouse_click, mouse_move, Nothing
  <1>2. \A axis, g : Number(axis, g).cmd = "NONE"
    BY DEF Number
  <1>3. s.screen_rotate <=> l.of[3] \in RotatedShots
    BY <1>1, <1>2 DEF Needs, Plain, PressCodes, Buttons
  <1>4. /\ Picture(s, l.of).rotate = s.screen_rotate /\ Picture(s, l.of).of = l.of
        /\ Picture(s, l.of).width = s.width /\ Picture(s, l.of).height = s.height
    BY DEF Picture
  <1>5. /\ s.width \notin {W176, W320} => s.width[1][1] = c /\ s.width[2] = "w"
        /\ s.height \notin {H208, H240} => s.height[1][1] = c /\ s.height[2] = "h"
    BY DEF Own
  <1>. QED
    BY <1>1, <1>3, <1>4, <1>5

(* What the server does to the display is what a gesture meant. *)
OwnEffects == WarpIsOneGesture /\ PictureIsOwn

(* The line that TreatLine treats comes when it should.                     *)
LEMMA TreatIs ==
    ASSUME ServerInv, OnePhone, TurnInv, TreatLine
    PROVE  \E c \in Conn, l \in Line, shot \in Shots :
              /\ c = Client /\ l = Head(batch)
              /\ IsOpen(c) /\ \A d \in Conn : IsOpen(d) => d = c
              /\ l.of[1] = c /\ Needs(st, l) /\ Own(st, c)
              /\ out' = Effect(st, l, shot)
              /\ st' = AfterEvent(st, l, shot)
  <1>1. InClientCb /\ task = "lines" /\ batch # <<>>
    BY DEF TreatLine
  <1>2. PICK c \in Conn :
          /\ c = Client /\ IsOpen(c) /\ IsLinked(c)
          /\ \A d \in Conn : IsLinked(d) => d = c
    BY <1>1, ClientIs
  <1>3. PICK shot \in ShotOf(Head(batch)) :
          st' = AfterEvent(st, Head(batch), shot) /\ out' = Effect(st, Head(batch), shot)
    BY DEF TreatLine
  <1>4. batch \in Seq(Line) /\ inq[c] \in Seq(Line) /\ todo[c] \in Seq(Line) /\ Head(batch) \in Line
    <2>1. batch \in Seq(Line) /\ inq[c] \in Seq(Line) /\ todo[c] \in Seq(Line)
      BY DEF ServerInv, TypeOK
    <2>. QED
      BY <1>1, <2>1
  <1>5. Waiting(c) # <<>> /\ Head(batch) = Waiting(c)[1] /\ Waiting(c) \in Seq(Line)
    <2>1. (batch \o inq[c]) \o todo[c] # <<>> /\ Head(batch) = ((batch \o inq[c]) \o todo[c])[1]
      BY <1>1, <1>4, TreatCat, Zenon
    <2>. QED
      BY <2>1, WaitingType DEF Waiting, ServerInv
  <1>6. InTurn(st, c, Waiting(c)) /\ Own(st, c)
    BY <1>2 DEF TurnInv, Turn
  <1>7. Head(batch).of[1] = c /\ Needs(st, Head(batch))
    <2>1. 1 \in 1 .. Len(Waiting(c))
      BY <1>5
    <2>. QED
      BY <1>5, <1>6, <2>1 DEF InTurn
  <1>8. shot \in Shots /\ \A d \in Conn : IsOpen(d) => d = c
    BY <1>2, OpenIsLinked DEF ShotOf
  <1>. QED
    BY <1>2, <1>3, <1>4, <1>6, <1>7, <1>8

LEMMA EffectsStep ==
    ASSUME ServerInv, OnePhone, TurnInv, OwnEffects, [Next]_vars
    PROVE  OwnEffects'
<1>1. CASE out' \in {out, Nothing}
  BY <1>1 DEF OwnEffects, WarpIsOneGesture, PictureIsOwn, Nothing
<1>2. CASE TreatLine
  <2>1. PICK c \in Conn, l \in Line, shot \in Shots :
              /\ l.of[1] = c /\ Needs(st, l) /\ Own(st, c)
              /\ out' = Effect(st, l, shot)
    BY <1>2, TreatIs
  <2>2. st \in SessionState
    BY DEF ServerInv, TypeOK
  <2>3. WarpIsOneGesture'
    BY <2>1, <2>2, WarpIs DEF WarpIsOneGesture
  <2>4. PictureIsOwn'
    BY <2>1, <2>2, PictureIs DEF PictureIsOwn
  <2>. QED
    BY <2>3, <2>4 DEF OwnEffects
<1>. QED
  BY <1>1, <1>2, OutChanges

LEMMA EffectsInvariant ==
    ASSUME ~Overlap, ~Rude
    PROVE  Spec => []OwnEffects
<1>1. Init => OwnEffects
  BY DEF Init, OwnEffects, WarpIsOneGesture, PictureIsOwn, Nothing
<1>2. ServerInv /\ OnePhone /\ TurnInv /\ OwnEffects /\ [Next]_vars => OwnEffects'
  BY EffectsStep
<1>. QED
  BY <1>1, <1>2, Invariant, OnePhoneInvariant, TurnInvariant, PTL DEF Spec

(* treat_events() moves the pointer at the second number after MOUSE_MOVE: *)
(* the two are those of one gesture, however read() cuts the lines and     *)
(* whatever phones came before.                                            *)
THEOREM MovesAreWhole ==
    ASSUME ~Overlap, ~Rude
    PROVE  Spec => []WarpIsOneGesture
  BY EffectsInvariant, PTL DEF OwnEffects

(* A picture is turned as its gesture asked, and its width and height are  *)
(* the defaults or those its own phone told: CONN_CLOSE forgets the size   *)
(* of the phone before.                                                    *)
THEOREM PicturesTheirSize ==
    ASSUME ~Overlap, ~Rude
    PROVE  Spec => []PictureIsOwn
  BY EffectsInvariant, PTL DEF OwnEffects

----------------------------------------------------------------------------
(* Refinement: the one record of statics serves each connection as a record *)
(* of its own.                                                              *)

(* The refinement mapping. *)
Sess == [c \in Conn |-> IF IsOpen(c) THEN st ELSE NoConn]

(* RemoteSession treats a line by the operators of the same Session. *)
LEMMA SameAfter == \A s, l, shot : Remote!AfterEvent(s, l, shot) = AfterEvent(s, l, shot)
  BY DEF Remote!AfterEvent, AfterEvent, Remote!AfterCommand, AfterCommand, Remote!CommandResult, CommandResult,
         Remote!protocol_command, protocol_command, Remote!Closed, Closed, Remote!Dimension, Dimension,
         Remote!NoMove, NoMove, Remote!IsX, IsX, Remote!IsY, IsY, Remote!IsCommand, IsCommand,
         Remote!IsOther, IsOther, Remote!ecell_button_ewindow, ecell_button_ewindow,
         Remote!ecell_mouse_ewindow, ecell_mouse_ewindow, Remote!Keys, Keys, Remote!MouseEvents, MouseEvents,
         Remote!Buttons, Buttons, Remote!Scrolls, Scrolls, Remote!PressCodes, PressCodes, Remote!Commands, Commands

LEMMA SameEffect == \A s, l, shot : Remote!Effect(s, l, shot) = Effect(s, l, shot)
  BY DEF Remote!Effect, Effect, Remote!send_event, send_event, Remote!mouse_click, mouse_click,
         Remote!mouse_move, mouse_move, Remote!Picture, Picture, Remote!Nothing, Nothing, Remote!XButton, XButton,
         Remote!IsTake, IsTake, Remote!IsY, IsY, Remote!IsCommand, IsCommand,
         Remote!IsOther, IsOther, Remote!ecell_button_ewindow, ecell_button_ewindow,
         Remote!ecell_mouse_ewindow, ecell_mouse_ewindow, Remote!Keys, Keys, Remote!MouseEvents, MouseEvents,
         Remote!Buttons, Buttons, Remote!Scrolls, Scrolls, Remote!PressCodes, PressCodes

LEMMA SameRest ==
    /\ Remote!Nothing = Nothing
    /\ Remote!Shots = Shots
    /\ \A s : Remote!Fresh(s) <=> Fresh(s)
  BY DEF Remote!Nothing, Nothing, Remote!Shots, Shots, Remote!Fresh, Fresh, Neutral

LEMMA SessIs ==
    /\ Sess = [c \in Conn |-> Sess[c]]
    /\ \A c \in Conn : Sess[c] = IF IsOpen(c) THEN st ELSE NoConn
  BY DEF Sess

LEMMA OpenStep ==
    ASSUME NEW c \in Conn, Sess[c] = NoConn, Sess'[c] # NoConn, Fresh(Sess'[c]), UNCHANGED out,
           \A d \in Conn \ {c} : Sess'[d] = Sess[d]
    PROVE  Remote!Open(c)
  <1>1. Sess' = [Sess EXCEPT ![c] = Sess'[c]]
    BY DEF Sess
  <1>. QED
    BY <1>1, SameRest DEF Remote!Open, Sess

LEMMA CloseStep ==
    ASSUME NEW c \in Conn, Sess[c] # NoConn, Sess'[c] = NoConn, UNCHANGED out,
           \A d \in Conn \ {c} : Sess'[d] = Sess[d]
    PROVE  Remote!Close(c)
  <1>1. Sess' = [Sess EXCEPT ![c] = NoConn]
    BY DEF Sess
  <1>. QED
    BY <1>1 DEF Remote!Close, Sess

LEMMA TreatStep ==
    ASSUME NEW c \in Conn, NEW l, NEW shot, Sess[c] # NoConn,
           out' = Effect(Sess[c], l, shot), Sess'[c] = AfterEvent(Sess[c], l, shot),
           \A d \in Conn \ {c} : Sess'[d] = Sess[d]
    PROVE  Remote!Treat(c, l, shot)
  <1>1. Sess' = [Sess EXCEPT ![c] = AfterEvent(Sess[c], l, shot)]
    BY DEF Sess
  <1>2. out' = Remote!Effect(Sess[c], l, shot)
    BY SameEffect
  <1>3. Sess' = [Sess EXCEPT ![c] = Remote!AfterEvent(Sess[c], l, shot)]
    BY <1>1, SameAfter
  <1>. QED
    BY <1>2, <1>3 DEF Remote!Treat, Sess

LEMMA StutterStep ==
    ASSUME UNCHANGED out, \A c \in Conn : Sess'[c] = Sess[c]
    PROVE  UNCHANGED Remote!vars
  <1>1. Sess' = Sess
    BY DEF Sess
  <1>. QED
    BY <1>1 DEF Remote!vars, Sess

(* The steps in which the sessions have no part. *)
LEMMA OtherStep ==
    ASSUME [Next]_vars,
           ~Accept, ~ContextDelete, ~ShotCrashes, ~(FinishLines /\ Closing), ~TreatLine, ~ReturnZero
    PROVE  UNCHANGED <<peer, st, out>>
<1>1. CASE ContextNew \/ Start \/ LoopStep \/ AcceptFails \/ ReadLines \/ ReadFails \/ ReadSpins
  BY <1>1 DEF ContextNew, Start, LoopStep, AcceptFails, ReadLines, ReadFails, ReadSpins, NotInCallback, netVars, taskVars
<1>2. CASE FinishLines
  BY <1>2 DEF FinishLines
<1>3. ASSUME NEW c \in Conn, PhoneStep(c) PROVE UNCHANGED <<peer, st, out>>
  BY <1>3 DEF PhoneStep, Connect, Begin, Send, HangUp, Vanish, Withdraw, Notice, netVars, taskVars
<1>4. CASE AtRest \/ UNCHANGED vars
  BY <1>4 DEF AtRest, vars, netVars, taskVars
<1>. QED
  BY <1>1, <1>2, <1>3, <1>4 DEF Next, ServerStep

LEMMA RemoteStep ==
    ASSUME ServerInv, ServerInv', OnePhone, TurnInv, [Next]_vars
    PROVE  [Remote!Next]_(Remote!vars)
<1>t. TypeOK /\ TypeOK' /\ OnePlace /\ Lifecycle
  BY DEF ServerInv
<1>s. st \in SessionState /\ st # NoConn /\ st' # NoConn
  BY <1>t, SessionAssumption DEF TypeOK
<1>p. /\ \A c \in Conn : Sess[c] = IF IsOpen(c) THEN st ELSE NoConn
      /\ \A c \in Conn : Sess'[c] = IF IsOpen(c)' THEN st' ELSE NoConn
  BY SessIs DEF Sess
<1>1. CASE Accept
  <2>1. /\ Head(backlog) \in Conn /\ IsLinked(Head(backlog))
        /\ \A c \in Conn : IsOpen(c)' <=> IsOpen(c) \/ c = Head(backlog)
    BY <1>t, <1>1, AcceptOpens
  <2>2. PICK c \in Conn : c = Head(backlog)
    BY <2>1
  <2>3. server # "exited" /\ UNCHANGED <<st, out>> /\ backlog # <<>>
    BY <1>1 DEF Accept, InServerCb
  <2>4. ~IsOpen(c)
    <3>1. 1 \in 1 .. Len(backlog) /\ c = backlog[1]
      BY <1>t, <2>2, <2>3 DEF TypeOK
    <3>. QED
      BY <1>t, <3>1 DEF OnePlace, IsOpen
  <2>5. \A d \in Conn : ~IsOpen(d)
    BY <2>1, <2>2, <2>4, OpenIsLinked DEF OnePhone
  <2>6. Fresh(st)
    BY <2>3, <2>5 DEF TurnInv
  <2>7. /\ Sess[c] = NoConn /\ Sess'[c] = st
        /\ \A d \in Conn \ {c} : Sess'[d] = Sess[d]
    BY <1>p, <2>1, <2>2, <2>3, <2>5
  <2>8. Remote!Open(c)
    BY <1>s, <2>3, <2>6, <2>7, OpenStep
  <2>. QED
    BY <2>8 DEF Remote!Next
<1>2. CASE TreatLine
  <2>1. PICK c \in Conn, l \in Line, shot \in Shots :
              /\ IsOpen(c) /\ \A d \in Conn : IsOpen(d) => d = c
              /\ l.of[1] = c
              /\ out' = Effect(st, l, shot)
              /\ st' = AfterEvent(st, l, shot)
    BY <1>2, TreatIs
  <2>2. \A d \in Conn : IsOpen(d)' <=> IsOpen(d)
    BY <1>2, LinkedKept DEF TreatLine, netVars
  <2>3. /\ Sess[c] = st /\ Sess'[c] = st'
        /\ \A d \in Conn \ {c} : Sess'[d] = Sess[d]
    BY <1>p, <2>1, <2>2
  <2>4. Remote!Treat(c, l, shot)
    BY <1>s, <2>1, <2>3, TreatStep
  <2>. QED
    BY <2>1, <2>4, SameRest DEF Remote!Next
<1>3. CASE FinishLines /\ Closing
  <2>1. /\ Client \in Conn /\ IsOpen(Client)
        /\ \A c \in Conn : IsOpen(c)' <=> IsOpen(c) /\ c # Client
    BY <1>t, <1>3, DropCloses
  <2>2. PICK c \in Conn : c = Client
    BY <2>1
  <2>3. UNCHANGED <<st, out>>
    BY <1>3 DEF FinishLines
  <2>4. /\ Sess[c] = st /\ Sess'[c] = NoConn
        /\ \A d \in Conn \ {c} : Sess'[d] = Sess[d]
    BY <1>p, <2>1, <2>2, <2>3
  <2>5. Remote!Close(c)
    BY <1>s, <2>3, <2>4, CloseStep
  <2>. QED
    BY <2>5 DEF Remote!Next
<1>4. CASE ContextDelete \/ ShotCrashes
  <2>1. UNCHANGED <<st, out>>
    BY <1>4 DEF ContextDelete, ShotCrashes, taskVars
  <2>2. \A c \in Conn : Sess'[c] = NoConn
    BY <1>p, <1>4, ExitCloses
  <2>3. CASE \E c \in Conn : IsOpen(c)
    <3>1. PICK c \in Conn : IsOpen(c)
      BY <2>3
    <3>2. \A d \in Conn \ {c} : ~IsOpen(d)
      BY <3>1, OpenIsLinked DEF OnePhone
    <3>3. Remote!Close(c)
      BY <1>s, <1>p, <2>1, <2>2, <3>1, <3>2, CloseStep
    <3>. QED
      BY <3>3 DEF Remote!Next
  <2>4. CASE \A c \in Conn : ~IsOpen(c)
    BY <1>p, <2>1, <2>2, <2>4, StutterStep
  <2>. QED
    BY <2>3, <2>4
<1>5. CASE ReturnZero
  <2>1. UNCHANGED <<peer, st>> /\ out' = Nothing
    BY <1>5 DEF ReturnZero, netVars
  <2>2. Sess' = Sess
    BY <2>1 DEF Sess, IsOpen
  <2>3. Remote!Rest
    BY <2>1, <2>2, SameRest DEF Remote!Rest, Sess
  <2>. QED
    BY <2>3 DEF Remote!Next
<1>6. CASE ~Accept /\ ~ContextDelete /\ ~ShotCrashes /\ ~(FinishLines /\ Closing) /\ ~TreatLine /\ ~ReturnZero
  <2>1. UNCHANGED <<peer, st, out>>
    BY <1>6, OtherStep
  <2>2. \A c \in Conn : Sess'[c] = Sess[c]
    BY <1>p, <2>1 DEF IsOpen
  <2>. QED
    BY <2>1, <2>2, StutterStep
<1>. QED
  BY <1>1, <1>2, <1>3, <1>4, <1>5, <1>6

(* The refinement: under the mapping that gives the open connection the    *)
(* statics and the others none, every step of the server is a step of      *)
(* RemoteSession, where each connection has statics of its own, or changes *)
(* nothing there.                                                          *)
THEOREM ServesEachAlone ==
    ASSUME ~Overlap, ~Rude
    PROVE  Spec => OneSessionEach
<1>1. Init => Remote!Init
  <2>1. ASSUME Init, NEW c \in Conn PROVE ~IsOpen(c)
    BY <2>1, ConnAssumption DEF Init, IsOpen
  <2>. QED
    BY <2>1, SameRest DEF Init, Remote!Init
<1>2. ServerInv /\ ServerInv' /\ OnePhone /\ TurnInv /\ [Next]_vars => [Remote!Next]_(Remote!vars)
  BY RemoteStep
<1>. QED
  BY <1>1, <1>2, Invariant, OnePhoneInvariant, TurnInvariant, PTL DEF Spec, OneSessionEach, Remote!Spec
=============================================================================
