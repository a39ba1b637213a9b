------------------------------ MODULE Session ------------------------------
(* What the amora server remembers between two lines of its protocol, and   *)
(* what it does with a line: treat_events and treat_command of              *)
(* amora-cli/src/amora.c, as operators on a record of their static          *)
(* variables.  The server has one such record, whatever the number of       *)
(* phones; RemoteSession has one for each connection.                       *)
(*                                                                          *)
(* A line is a record:                                                      *)
(*   cmd  the code that the decoders of protocol.c give it, "NONE" for      *)
(*        text that is no code (they compare a line with a prefix of each   *)
(*        code, so an abbreviation is the same line as the code it decodes  *)
(*        to, and the empty line is an UP);                                 *)
(*   n    what atoi() makes of it: a number, or Zero when it is not one;    *)
(*   of   the gesture of the user that it is a part of: the phone's         *)
(*        connection, the gesture's place in it, and its name.  The server  *)
(*        does not see it: it is there to say what the lines were meant for.*)
(* Numbers are opaque and positive: a number is <<of, axis>>.               *)
EXTENDS Integers

CONSTANTS
    Zero,          \* atoi() of a text that is not a number
    W176, H208,    \* the size of a screenshot before any phone has been here
    W320, H240     \* and after a phone has closed its connection

Keys == {"UP", "DOWN", "LEFT", "RIGHT", "ENTER", "ESC", "SPACE", "DEL", "ALT", "TAB",
         "SLIDESHOW", "FULLSCREEN"}

Buttons     == {"MOUSE_BUTTON_RIGHT", "MOUSE_BUTTON_LEFT", "MOUSE_BUTTON_MIDDLE"}
Scrolls     == {"MOUSE_SCROLL_UP", "MOUSE_SCROLL_DOWN"}
PressCodes  == {"MOUSE_BUTTON_PRESS", "MOUSE_BUTTON_RELEASE"}
MouseEvents == {"MOUSE_MOVE"} \cup Buttons \cup Scrolls \cup PressCodes

Commands == {"CONN_CLOSE", "SERVER_STOP", "RESOLUTION", "IMG_FORMAT", "SCREEN_MODE_ON",
             "SCREEN_MODE_OFF", "SCREEN_ROTATE", "SCREEN_NORMAL", "SCREEN_RESOLUTION",
             "SCREEN_WIDTH", "SCREEN_HEIGHT", "SCREEN_TAKE"}

ecell_button_ewindow(l) == IF l.cmd \in Keys THEN l.cmd ELSE "NONE"
ecell_mouse_ewindow(l)  == IF l.cmd \in MouseEvents THEN l.cmd ELSE "NONE"
protocol_command(l)     == IF l.cmd \in Commands THEN l.cmd ELSE "NONE"

(* The static variables.  button is the one of the three button_* flags     *)
(* that is set; dim_times is the times of treat_command; y_mouse and        *)
(* do_capture are written and never read again, and left out.               *)
Statics == [
    mouse_event   |-> FALSE,
    times         |-> 0,
    x_mouse       |-> Zero,
    button        |-> "NONE",
    screen_rotate |-> FALSE,
    width         |-> W176,
    height        |-> H208,
    flag          |-> FALSE,
    dim_times     |-> 0]

(* What a screenshot may come to when treat_command returns: the picture is *)
(* sent, it cannot be made (capture, rescaling, rotation or saving failed), *)
(* or the phone is gone when it is sent.  It does not return when mkdtemp,  *)
(* or after the sending unlink or rmdir, fails: the message for perror() is *)
(* then written over a string literal, which kills the process (ShotCrashes *)
(* of AmoraServer; "crashed" in Screenshot).                                *)
Shots == {"sent", "not_made", "not_sent"}

----------------------------------------------------------------------------
(* treat_command: its result, and what it leaves in the statics.            *)

CommandResult(s, l, shot) ==
    LET code == protocol_command(l)
    IN  CASE code = "SCREEN_TAKE" /\ shot = "not_made" -> "NONE"
          [] code = "SCREEN_TAKE" /\ shot = "not_sent" -> "CONN_CLOSE"
          [] code = "NONE" /\ s.flag                   -> "SCREEN_RESOLUTION"
          [] OTHER                                     -> code

(* Mutant of Closed: the screen settings are kept. *)
ClosedKeepsScreen(s) == [s EXCEPT !.flag = FALSE]

Closed(s) == [s EXCEPT !.screen_rotate = FALSE, !.width = W320, !.height = H240, !.flag = FALSE]

(* Mutant of Dimension: the height is not followed by a new width. *)
DimensionKeepsTimes(s, n) ==
    IF s.dim_times = 0
    THEN [s EXCEPT !.dim_times = 1, !.width = IF n # Zero THEN n ELSE @]
    ELSE [s EXCEPT !.flag = FALSE, !.height = IF n # Zero THEN n ELSE @]

(* A number after SCREEN_RESOLUTION is the width, the next one the height.  *)
Dimension(s, n) ==
    IF s.dim_times = 0
    THEN [s EXCEPT !.dim_times = 1, !.width = IF n # Zero THEN n ELSE @]
    ELSE [s EXCEPT !.dim_times = 0, !.flag = FALSE, !.height = IF n # Zero THEN n ELSE @]

AfterCommand(s, l) ==
    LET code == protocol_command(l)
    IN  CASE code = "CONN_CLOSE"        -> Closed(s)
          [] code = "SCREEN_ROTATE"     -> [s EXCEPT !.screen_rotate = TRUE]
          [] code = "SCREEN_NORMAL"     -> [s EXCEPT !.screen_rotate = FALSE]
          [] code = "SCREEN_RESOLUTION" -> [s EXCEPT !.flag = TRUE]
          [] code = "NONE" /\ s.flag    -> Dimension(s, l.n)
          [] OTHER                      -> s

----------------------------------------------------------------------------
(* treat_events.                                                            *)

(* The line is neither a key nor a mouse event. *)
IsOther(l) == ecell_button_ewindow(l) = "NONE" /\ ecell_mouse_ewindow(l) = "NONE"

(* After MOUSE_MOVE the next two such lines are coordinates, whatever they  *)
(* say; any other one is a command.                                         *)
IsX(s, l)       == IsOther(l) /\ s.mouse_event /\ s.times = 0
IsY(s, l)       == IsOther(l) /\ s.mouse_event /\ s.times = 1
IsCommand(s, l) == IsOther(l) /\ ~s.mouse_event

(* The result of the line; "moved" is what mouse_move returns. *)
EventResult(s, l, shot) ==
    CASE IsX(s, l)       -> "NONE"
      [] IsY(s, l)       -> "moved"
      [] IsCommand(s, l) -> CommandResult(s, l, shot)
      [] OTHER           -> l.cmd

(* Mutants of NoMove: the move is over and its count of coordinates is not; *)
(* the count is over and the move is not.                                   *)
NoMoveKeepsTimes(s) == [s EXCEPT !.mouse_event = FALSE]
NoMoveKeepsEvent(s) == [s EXCEPT !.times = 0]

NoMove(s) == [s EXCEPT !.mouse_event = FALSE, !.times = 0]

(* Mutant of AfterEvent: the button of a click is only taken the first time. *)
AfterEventFirstButton(s, l, shot) ==
    CASE l.cmd = "MOUSE_MOVE" -> [s EXCEPT !.mouse_event = TRUE]
      [] l.cmd \in Buttons    -> [s EXCEPT !.button = IF @ = "NONE" THEN l.cmd ELSE @]
      [] IsX(s, l)            -> [s EXCEPT !.x_mouse = l.n, !.times = 1]
      [] IsY(s, l)            -> NoMove(s)
      [] IsCommand(s, l)      -> IF CommandResult(s, l, shot) = "CONN_CLOSE"
                                 THEN NoMove(AfterCommand(s, l))
                                 ELSE AfterCommand(s, l)
      [] OTHER                -> s

(* What the line leaves in the statics. *)
AfterEvent(s, l, shot) ==
    CASE l.cmd = "MOUSE_MOVE" -> [s EXCEPT !.mouse_event = TRUE]
      [] l.cmd \in Buttons    -> [s EXCEPT !.button = l.cmd]
      [] IsX(s, l)            -> [s EXCEPT !.x_mouse = l.n, !.times = 1]
      [] IsY(s, l)            -> NoMove(s)
      [] IsCommand(s, l)      -> IF CommandResult(s, l, shot) = "CONN_CLOSE"
                                 THEN NoMove(AfterCommand(s, l))
                                 ELSE AfterCommand(s, l)
      [] OTHER                -> s

IsTake(s, l) == IsCommand(s, l) /\ l.cmd = "SCREEN_TAKE"

Nothing == [kind |-> "nothing"]

(* send_event, called for the press and the release of a key. *)
send_event(key, of) == [kind |-> "key", key |-> key, of |-> of]

(* mouse_move: the pointer goes by x and y from where it is. *)
mouse_move(x, y, of) == [kind |-> "warp", x |-> x, y |-> y, of |-> of]

(* mouse_click: the events that the X server gets, each a button's number   *)
(* and whether it goes down.                                                *)
XButton == [MOUSE_BUTTON_LEFT |-> 1, MOUSE_BUTTON_MIDDLE |-> 2, MOUSE_BUTTON_RIGHT |-> 3,
            MOUSE_SCROLL_UP |-> 4, MOUSE_SCROLL_DOWN |-> 5]

mouse_click(button, status, of) ==
    LET n == XButton[button]
    IN  [kind |-> "click", of |-> of,
         events |-> IF button \in Scrolls              THEN <<<<n, TRUE>>, <<n, FALSE>>>>
                    ELSE IF status = "MOUSE_BUTTON_PRESS" THEN <<<<n, TRUE>>>>
                    ELSE <<<<n, FALSE>>>>]

(* The picture, as large and as turned as the statics say. *)
Picture(s, of) ==
    [kind |-> "image", width |-> s.width, height |-> s.height, rotate |-> s.screen_rotate, of |-> of]

(* What the line makes the server do to the desktop, or send to the phone.  *)
Effect(s, l, shot) ==
    CASE l.cmd \in Keys                             -> send_event(l.cmd, l.of)
      [] l.cmd \in Scrolls                          -> mouse_click(l.cmd, "NONE", l.of)
      [] l.cmd \in PressCodes /\ s.button # "NONE" -> mouse_click(s.button, l.cmd, l.of)
      [] IsY(s, l)                                  -> mouse_move(s.x_mouse, l.n, l.of)
      [] IsTake(s, l) /\ shot = "sent"              -> Picture(s, l.of)
      [] OTHER                                      -> Nothing
=============================================================================
