------------------------------ MODULE PhoneApp ------------------------------
(* The S60 client as its one thread and its timers see it: the main loop of *)
(* amora.py, the states and menus of application, its bt_client, Keyboard   *)
(* and stopwatch.  Callbacks (menus, timers, answers) run while the main    *)
(* loop yields; a popup is modal, but timers fire under it.  While the      *)
(* thread waits for a picture of the server nothing else runs.              *)
EXTENDS Integers, FiniteSets

CONSTANTS
    None,
    Keys,          \* keys in use, of KeyNames
    MaxKeys,       \* bound: keys that are down or have a press waiting, at once
    MaxQuestions,  \* bound: timers of __start_control
    MaxTicks       \* bound: timers of the stopwatch

(* One key for each way of treating keys: repeated ones, arrows, 1, Select, *)
(* and 2, which takes a screenshot when that is configured.                 *)
KeyNames == {"repeat", "arrow", "hold", "click", "screen"}

ASSUME KeyAssumption == Keys \subseteq KeyNames
ASSUME NoneAssumption == None \notin {"silent", "open"} \cup [down : SUBSET KeyNames, downs : SUBSET KeyNames]
ASSUME BoundAssumption == MaxKeys \in Nat /\ MaxQuestions \in Nat /\ MaxTicks \in Nat

VARIABLES
    loop,        \* of amora.py: "running", "ended" or "dead" of an exception;
                 \* in readline, "asking" for a size or "reading" a picture
    running,
    menu,
    body,        \* what the screen shows, and so who gets the keys
    bt,          \* None; a client without a port, silent; one with a port
    link,        \* whether the server is at its other end
    keyboard,    \* keys that are down and presses not yet treated, or None
    press_flag,  \* -1: not set yet
    auto,        \* click_and_screen: a click is followed by a screenshot
    choosing,    \* __connect is in bt_client.connect
    questions,   \* timers that will ask whether to start
    asked,       \* such questions on the screen
    timer,       \* whether that of the key repeat is set
    clock,       \* whether the stopwatch runs
    ticks,       \* its timers
    held,        \* the left button of the desktop is down
    abandoned,   \* and was when the session that pressed it ended
    late         \* control was started without a connection, or after Exit

btVars == <<bt, link>>
timerVars == <<questions, asked, timer>>
clockVars == <<clock, ticks>>
desktopVars == <<held, abandoned>>
screenVars == <<running, menu, body, keyboard, clock, late, auto>>
vars == <<loop, screenVars, btVars, press_flag, choosing, timerVars, ticks, desktopVars>>

Fresh == [down |-> {}, downs |-> {}]

Alive == loop = "running"
Modal == choosing \/ asked > 0
Free == Alive /\ ~Modal

(* Mutant of Raises: a failing send() is ignored. *)
RaisesUnused == bt = None

(* write_line raises an exception; without a port it does nothing.          *)
Raises == bt = None \/ (bt = "open" /\ ~link)
Delivers == bt = "open" /\ link

(* Mutant of Reset: the screens are cleaned up, running is not. *)
ResetScreens ==
    /\ menu' = "initial" /\ body' = "wallpaper" /\ keyboard' = None
    /\ clock' = FALSE /\ auto' = FALSE
    /\ abandoned' = held' /\ late' = late /\ UNCHANGED running

(* reset(); timers go on. *)
Reset ==
    /\ running' = 0 /\ menu' = "initial" /\ body' = "wallpaper" /\ keyboard' = None
    /\ clock' = FALSE /\ auto' = FALSE
    /\ abandoned' = held' /\ late' = FALSE

----------------------------------------------------------------------------
(* Connecting.                                                              *)

Search ==
    /\ Free /\ running # -1 /\ menu = "initial"
    /\ questions + asked < MaxQuestions
    /\ choosing' = TRUE
    /\ bt' = "silent" /\ link' = FALSE
    /\ UNCHANGED <<loop, screenVars, press_flag, timerVars, ticks, desktopVars>>

Chosen == Alive /\ choosing /\ asked = 0 /\ choosing' = FALSE

(* No device, no choice or no answer: nobody catches the exception.         *)
ConnectFails ==
    /\ Chosen
    /\ bt' \in {"silent", "open"}
    /\ UNCHANGED <<loop, screenVars, link, press_flag, timerVars, ticks, desktopVars>>

Connected ==
    /\ Chosen
    /\ bt' = "open" /\ link' = TRUE
    /\ running' = 2 /\ menu' = "connected" /\ body' = "wallpaper"
    /\ questions' = questions + 1
    /\ late' = FALSE
    /\ UNCHANGED <<loop, keyboard, clock, auto, press_flag, asked, timer, ticks, desktopVars>>

(* The server goes while it is told about the screen. *)
ConnectedInVain ==
    /\ Chosen
    /\ bt' = None
    /\ UNCHANGED held /\ Reset
    /\ UNCHANGED <<loop, link, press_flag, timerVars, ticks>>

Lose ==
    /\ link /\ link' = FALSE
    /\ UNCHANGED <<loop, screenVars, bt, press_flag, choosing, timerVars, ticks, desktopVars>>

----------------------------------------------------------------------------
(* Starting and ending control.                                             *)

(* start() sets up the session only the first time. *)
BeginsControl == running \in {0, 2}

(* toggle() and, with the keymap, presentationdisplay(): a timer each.      *)
StartClock ==
    IF BeginsControl
    THEN clock' = ~clock /\ ticks' = IF clock THEN ticks ELSE ticks + 2
    ELSE UNCHANGED clockVars

Start ==
    /\ ticks + 2 <= MaxTicks
    /\ StartClock
    /\ IF keyboard = None THEN keyboard' = Fresh /\ body' = "presentation"
                          ELSE UNCHANGED <<keyboard, body>>
    /\ IF BeginsControl THEN menu' = "started" /\ press_flag' = 0
                        ELSE UNCHANGED <<menu, press_flag>>
    /\ running' = 1
    /\ late' = (late \/ bt # "open" \/ running = -1)
    /\ UNCHANGED <<loop, auto, btVars, choosing, questions, timer, desktopVars>>

MenuStart == Free /\ running # -1 /\ menu = "connected" /\ Start /\ UNCHANGED asked

(* The timer of __connect: __start_control, whatever came in between.       *)
Ask ==
    /\ Alive
    /\ questions > 0 /\ questions' = questions - 1
    /\ asked' = asked + IF running # 1 THEN 1 ELSE 0
    /\ UNCHANGED <<loop, screenVars, btVars, press_flag, choosing, timer, ticks, desktopVars>>

Answer ==
    /\ Alive
    /\ asked > 0 /\ asked' = asked - 1
    /\ \/ Start
       \/ UNCHANGED <<loop, screenVars, btVars, press_flag, choosing, questions, timer, ticks, desktopVars>>

(* __reset.  A client that was told good-bye stays, without a port. *)
Disconnect ==
    /\ Free /\ running # -1 /\ menu # "initial"
    /\ bt' = IF Raises THEN None ELSE "silent"
    /\ link' = FALSE
    /\ UNCHANGED held /\ Reset
    /\ UNCHANGED <<loop, press_flag, choosing, timerVars, ticks>>

(* quit.  An exception of write_line leaves the client as it is.            *)
Quit ==
    /\ Free /\ running # -1
    /\ running' = -1
    /\ IF Raises THEN UNCHANGED btVars ELSE bt' = "silent" /\ link' = FALSE
    /\ abandoned' = held
    /\ UNCHANGED <<loop, menu, body, keyboard, clock, late, auto, press_flag, choosing, timerVars, ticks, held>>

----------------------------------------------------------------------------
(* Keys.                                                                    *)

(* Bound: one press of a key waits.  Those of arrows nobody looks at.       *)
KeyDown(k) ==
    /\ Free /\ keyboard # None /\ body = "presentation"
    /\ k \notin keyboard.down \cup keyboard.downs
    /\ Cardinality(keyboard.down \cup keyboard.downs) < MaxKeys
    /\ keyboard' = [down |-> keyboard.down \cup {k}, downs |-> keyboard.downs \cup ({k} \ {"arrow"})]
    /\ UNCHANGED <<loop, running, menu, body, clock, late, auto, btVars, press_flag, choosing, timerVars, ticks, desktopVars>>

KeyUp(k) ==
    /\ Free /\ keyboard # None /\ body = "presentation"
    /\ k \in keyboard.down
    /\ keyboard' = [keyboard EXCEPT !.down = @ \ {k}]
    /\ UNCHANGED <<loop, running, menu, body, clock, late, auto, btVars, press_flag, choosing, timerVars, ticks, desktopVars>>

(* The order of otherkeys_process: arrows by their being down, the others   *)
(* by presses, of which one is used up.                                     *)
IsNext(k) ==
    CASE k = "arrow" -> k \in keyboard.down
      [] k = "click" -> k \in keyboard.downs /\ "arrow" \notin keyboard.down
      [] k = "hold" -> k \in keyboard.downs /\ "arrow" \notin keyboard.down /\ "click" \notin keyboard.downs
      [] k = "screen" -> /\ k \in keyboard.downs /\ "arrow" \notin keyboard.down
                         /\ keyboard.downs \cap {"click", "hold"} = {}
      [] OTHER -> FALSE

Used(k) == keyboard' = IF k = "arrow" THEN keyboard ELSE [keyboard EXCEPT !.downs = @ \ {k}]

(* Mutant of Toggled: the press does not set the flag. *)
ToggledBack == 0

Toggled == 1 - press_flag

(* What its lines do to the desktop and to press_flag. *)
Does(k) ==
    /\ press_flag' = IF k = "hold" THEN Toggled ELSE press_flag
    /\ held' = IF ~Delivers \/ k \notin {"hold", "click"} THEN held
               ELSE k = "hold" /\ press_flag = 0
    /\ abandoned' = (abandoned /\ held' /\ (k # "hold" \/ ~Delivers))

Excepts(k) == Raises \/ (k = "hold" /\ press_flag = -1)

(* The except clauses: close(), which fails for None, None and reset().     *)
Caught == bt # None /\ bt' = None /\ Reset

(* __take_screenshot, of the key 2 or after a click. *)
Shoots(k) == k = "screen" \/ (k = "click" /\ auto)

ProcessedOther(k) ==
    \/ /\ ~Excepts(k) /\ ~Shoots(k)
       /\ Does(k) /\ Used(k)
       /\ UNCHANGED <<loop, running, menu, body, clock, late, auto, btVars>>
    \/ /\ Shoots(k) /\ Delivers
       /\ Does(k) /\ Used(k)
       /\ loop' = "asking"
       /\ UNCHANGED <<running, menu, body, clock, late, auto, btVars>>
    \/ \* without a port nothing comes, and the empty file is no image; or the
       \* server is lost while the phone sleeps between click and screenshot
       /\ Shoots(k) /\ ~Raises
       /\ held' = (held /\ ~(k = "click" /\ Delivers)) /\ link' = FALSE
       /\ UNCHANGED <<loop, press_flag>> /\ Caught
    \/ /\ Excepts(k)
       /\ UNCHANGED <<loop, link, press_flag, held>> /\ Caught
    \/ \* lost between the press and the release of a click
       /\ k = "click" /\ Delivers
       /\ held' = TRUE /\ link' = FALSE
       /\ UNCHANGED <<loop, press_flag>> /\ Caught
    \/ /\ Excepts(k) /\ bt = None
       /\ loop' = "dead"
       /\ Used(k)
       /\ UNCHANGED <<running, menu, body, clock, late, auto, btVars, press_flag, desktopVars>>

OtherKeys ==
    /\ Free /\ running = 1 /\ "repeat" \notin keyboard.downs
    /\ \E k \in Keys : IsNext(k) /\ ProcessedOther(k)
    /\ UNCHANGED <<choosing, timerVars, ticks>>

(* int(recv(10)): a number, or what int() does not take, as when the link   *)
(* is over; readline catches that, and the empty file is no image.          *)
ReadSize ==
    /\ loop = "asking"
    /\ \/ loop' = "reading" /\ UNCHANGED <<screenVars, bt, desktopVars>>
       \/ loop' = "running" /\ UNCHANGED held /\ Caught
    /\ UNCHANGED <<link, press_flag, choosing, timerVars, ticks>>

(* The bytes are there and the picture is shown, or they are no image, or   *)
(* recv() raises an exception.  When it returns nothing for ever, as it may *)
(* once the link is over, there is no step.                                 *)
ReadPicture ==
    /\ loop = "reading" /\ loop' = "running"
    /\ \/ /\ ticks + 1 <= MaxTicks
          /\ ticks' = IF clock THEN ticks + 1 ELSE ticks
          /\ UNCHANGED <<screenVars, bt, desktopVars>>
       \/ UNCHANGED <<ticks, held>> /\ Caught
    /\ UNCHANGED <<link, press_flag, choosing, timerVars>>

RepeatKey ==
    /\ Free /\ running = 1 /\ "repeat" \in keyboard.downs
    /\ \/ /\ ~Raises
          /\ Used("repeat")
          /\ UNCHANGED <<running, menu, body, clock, late, auto, loop, bt, desktopVars>>
       \/ Raises /\ UNCHANGED <<loop, held>> /\ Caught
       \/ /\ bt = None /\ loop' = "dead"
          /\ Used("repeat")
          /\ UNCHANGED <<running, menu, body, clock, late, auto, bt, desktopVars>>
    /\ timer' = (loop' = "running")
    /\ UNCHANGED <<link, press_flag, choosing, questions, asked, ticks>>

IsRepeated == IF keyboard = None THEN FALSE ELSE "repeat" \in keyboard.down

(* pressablekeys_followup.  An exception that leaves it is the end of the   *)
(* timer, not of the program.                                               *)
Followup ==
    /\ Alive /\ timer
    /\ \/ /\ bt = None \/ ~IsRepeated
          /\ timer' = FALSE
          /\ UNCHANGED <<screenVars, bt, desktopVars>>
       \/ /\ IsRepeated /\ ~Raises
          /\ UNCHANGED <<timer, screenVars, bt, desktopVars>>
       \/ /\ IsRepeated /\ Raises
          /\ UNCHANGED <<timer, held>> /\ Caught
    /\ UNCHANGED <<loop, link, press_flag, choosing, questions, asked, ticks>>

EndLoop ==
    /\ Free /\ running = -1
    /\ loop' = "ended"
    /\ UNCHANGED <<screenVars, btVars, press_flag, choosing, timerVars, ticks, desktopVars>>

----------------------------------------------------------------------------
(* The stopwatch.                                                           *)

(* Mutant of ToggledOn: the timers still there are relied upon. *)
ToggledOnOnly == ticks

(* A new timer each time, whether or not an old one is still there. *)
ToggledOn == ticks + 1

Toggle ==
    /\ Free /\ menu = "started" /\ ticks < MaxTicks
    /\ clock' = ~clock
    /\ ticks' = IF clock THEN ticks ELSE ToggledOn
    /\ UNCHANGED <<loop, running, menu, body, keyboard, late, auto, btVars, press_flag, choosing, timerVars, desktopVars>>

(* __click_screen of the menu. *)
ClickScreen ==
    /\ Free /\ running # -1 /\ menu = "started"
    /\ auto' = ~auto
    /\ UNCHANGED <<loop, running, menu, body, keyboard, clock, late, btVars, press_flag, choosing, timerVars, ticks, desktopVars>>

(* presentationdisplay() as the callback of the canvas. *)
Redraw ==
    /\ Alive /\ body = "presentation" /\ clock /\ ticks < MaxTicks
    /\ ticks' = ticks + 1
    /\ UNCHANGED <<loop, screenVars, btVars, press_flag, choosing, timerVars, desktopVars>>

(* update(): sets its timer again while the stopwatch runs. *)
Tick ==
    /\ Alive /\ ticks > 0
    /\ ticks' = IF clock THEN ticks ELSE ticks - 1
    /\ UNCHANGED <<loop, screenVars, btVars, press_flag, choosing, timerVars, desktopVars>>

Init ==
    /\ loop = "running" /\ running = 0 /\ menu = "initial" /\ body = "wallpaper"
    /\ bt = None /\ link = FALSE /\ keyboard = None /\ press_flag = -1
    /\ choosing = FALSE /\ questions = 0 /\ asked = 0 /\ timer = FALSE
    /\ clock = FALSE /\ ticks = 0 /\ auto = FALSE
    /\ held = FALSE /\ abandoned = FALSE /\ late = FALSE

MainLoop == OtherKeys \/ RepeatKey \/ EndLoop
ReadLine == ReadSize \/ ReadPicture
Timers == Ask \/ Followup \/ Tick
Connect == ConnectFails \/ Connected \/ ConnectedInVain
Type == \E k \in Keys : KeyDown(k)
Press == \E k \in Keys \ {"arrow"} : KeyDown(k)
LetGo == \E k \in Keys : KeyUp(k)
User == Search \/ MenuStart \/ Answer \/ Disconnect \/ Quit \/ Type \/ LetGo \/ Toggle \/ ClickScreen

Next == MainLoop \/ ReadLine \/ Timers \/ Connect \/ User \/ Lose \/ Redraw

Spec == Init /\ [][Next]_vars

(* The main loop runs, and the user does not hold a key or leave a popup    *)
(* for ever, and goes on typing, not only arrows: one that is pressed and   *)
(* let go between two turns of the main loop is not seen.  recv() returns   *)
(* once the link is over; no more is assumed of a server that is asked for  *)
(* a picture.                                                               *)
FairSpec ==
    /\ Spec
    /\ WF_vars(MainLoop) /\ WF_vars(Connect) /\ WF_vars(Answer) /\ WF_vars(Press)
    /\ \A k \in Keys : WF_vars(KeyUp(k))
    /\ WF_vars(ReadSize /\ ~link)

----------------------------------------------------------------------------
(* Properties.                                                              *)

(* While the phone controls a desktop there is a client with a port behind  *)
(* the keys and a keyboard, and no exception ends the main loop: unless the *)
(* question of __start_control was answered when the connection it was      *)
(* about, or the program, had already been left.                            *)
InControl ==
    ~late => /\ loop # "dead"
             /\ running = 1 => bt = "open" /\ keyboard # None /\ press_flag # -1

(* A button that is down on the desktop is one that the next press of its   *)
(* key releases, or one that a session left behind when it ended in a drag  *)
(* or a click.                                                              *)
DragCanEnd == held => abandoned \/ (running = 1 /\ press_flag = 1)

(* A stopwatch that runs is redrawn, however timers of stopped and started  *)
(* ones overlap: the last of them never ends while it runs.                 *)
ClockGoesOn == clock => ticks > 0

(* A phone whose user types on its control screen, after its server is gone *)
(* (see InControl for the exception), finds out and ends the session:       *)
(* unless it is in the middle of a picture, where recv() may return nothing *)
(* for ever and nothing but the end of the program gets it out.             *)
LossIsNoticed ==
    (running = 1 /\ ~late /\ body = "presentation" /\ ~link) ~> (running # 1 \/ loop = "reading")
=============================================================================
