--------------------------- MODULE PhoneAppProofs ---------------------------
(* Theorems about PhoneApp, for every number of late questions and of       *)
(* overlapping timers.                                                      *)
(*                                                                          *)
(* That control means a connection rests on the menus: a session that has   *)
(* one is not on the initial menu, which alone can replace its client, and  *)
(* while a client is being connected it has no port.                        *)
EXTENDS PhoneApp, TLAPS

Boards == [down : SUBSET KeyNames, downs : SUBSET KeyNames]

Values ==
    /\ keyboard \in Boards \cup {None}
    /\ press_flag \in {-1, 0, 1}
    /\ running \in {-1, 0, 1, 2}
    /\ ticks \in Nat
    /\ bt \in {None, "silent", "open"}

Menus ==
    /\ choosing => bt = "silent" /\ ~link
    /\ (~late /\ running = 1) => menu # "initial"
    /\ Delivers => menu # "initial"
    /\ running = 1 => keyboard # None
    /\ loop \in {"asking", "reading"} => ~choosing

(* The button that this session holds, and can still release. *)
OwnDrag ==
    (held /\ ~abandoned) => running = 1 /\ press_flag = 1 /\ bt = "open" /\ menu # "initial"

Inv == Values /\ Menus /\ InControl /\ OwnDrag /\ ClockGoesOn

USE NoneAssumption, BoundAssumption

LEMMA InitInv == Init => Inv
  BY DEF Init, Inv, Values, Menus, Delivers, InControl, OwnDrag, ClockGoesOn

LEMMA StartKeeps ==
    ASSUME Inv, Start, UNCHANGED abandoned
    PROVE  Inv'
<1>. USE DEF Inv, Start
<1>1. Values' /\ ClockGoesOn'
  BY DEF Values, Boards, Fresh, ClockGoesOn, StartClock, BeginsControl, clockVars, btVars
<1>2. keyboard' # None
  <2>1. Fresh # None
    BY DEF Fresh
  <2>. QED
    BY <2>1
<1>3. ~late' => ~late /\ bt = "open" /\ running # -1
  OBVIOUS
<1>4. Menus'
  <2>1. (~late /\ running # -1) => menu' # "initial"
    BY DEF Values, Menus, BeginsControl
  <2>2. Delivers' => menu' # "initial"
    BY DEF Menus, Delivers, btVars
  <2>. QED
    BY <1>2, <1>3, <2>1, <2>2 DEF Menus, btVars
<1>5. InControl'
  <2>1. bt' = bt /\ loop' = loop
    BY DEF btVars
  <2>2. (~late /\ running # -1) => press_flag' # -1
    BY DEF Values, InControl, BeginsControl
  <2>. QED
    BY <1>2, <1>3, <2>1, <2>2 DEF InControl
<1>6. OwnDrag'
  BY DEF OwnDrag, btVars, BeginsControl, desktopVars
<1>. QED
  BY <1>1, <1>4, <1>5, <1>6

(* reset() ends the session, and the client has no port or is gone. *)
LEMMA ResetKeeps ==
    ASSUME Inv, loop' = "running", Reset, bt' \in {None, "silent"},
           press_flag' \in {-1, 0, 1}, ticks' \in Nat, ~choosing'
    PROVE  Inv'
<1>1. Values'
  BY DEF Reset, Values
<1>2. Menus' /\ InControl' /\ OwnDrag' /\ ClockGoesOn'
  BY DEF Reset, Menus, Delivers, InControl, OwnDrag, ClockGoesOn
<1>. QED
  BY <1>1, <1>2 DEF Inv

LEMMA CaughtKeeps ==
    ASSUME Inv, ~choosing, Caught, loop' = "running", UNCHANGED <<choosing, ticks>>,
           press_flag' \in {-1, 0, 1}
    PROVE  Inv'
<1>1. Reset /\ bt' = None
  BY DEF Caught
<1>2. ticks' \in Nat
  BY DEF Inv, Values
<1>. QED
  BY <1>1, <1>2, ResetKeeps

(* Steps that change the keyboard, the timers or the clock. *)
LEMMA SessionKeeps ==
    ASSUME Inv, UNCHANGED <<running, menu, late, bt, choosing, press_flag, held, abandoned>>,
           loop' = loop \/ (~choosing /\ loop' \in {"running", "asking", "reading"}),
           link' => link, keyboard' \in Boards \cup {None},
           keyboard # None => keyboard' # None, ticks' \in Nat, clock' => ticks' > 0
    PROVE  Inv'
<1>1. Values' /\ ClockGoesOn'
  BY DEF Inv, Values, ClockGoesOn
<1>2. Menus'
  BY DEF Inv, Menus, Delivers
<1>3. InControl'
  BY DEF Inv, InControl
<1>4. OwnDrag'
  BY DEF Inv, OwnDrag
<1>. QED
  BY <1>1, <1>2, <1>3, <1>4 DEF Inv

LEMMA KeysKeep ==
    ASSUME Inv, keyboard' \in Boards,
           UNCHANGED <<loop, running, menu, late, bt, link, choosing, press_flag, held, abandoned, ticks, clock>>
    PROVE  Inv'
<1>1. keyboard' # None
  BY DEF Boards
<1>2. ticks' \in Nat /\ (clock' => ticks' > 0)
  BY DEF Inv, Values, ClockGoesOn
<1>. QED
  BY <1>1, <1>2, SessionKeeps

(* A press of the button is either followed by its release, or is a drag of *)
(* this session, or is left behind by it.                                   *)
LEMMA DoesKeeps ==
    ASSUME Inv, NEW k \in KeyNames, running = 1, ~Excepts(k), Does(k), keyboard' \in Boards,
           loop' = loop \/ (~choosing /\ loop' = "asking"),
           UNCHANGED <<running, menu, body, clock, late, btVars, choosing, ticks>>
    PROVE  Inv'
<1>1. Values'
  BY DEF Inv, Values, Does, Toggled, Excepts, btVars
<1>2. keyboard' # None
  BY DEF Boards
<1>3. Menus' /\ ClockGoesOn'
  BY <1>2 DEF Inv, Menus, Delivers, ClockGoesOn, btVars
<1>4. InControl'
  BY <1>2 DEF Inv, Values, InControl, Does, Toggled, Excepts, btVars
<1>5. OwnDrag'
  <2>0. /\ held' = IF ~Delivers \/ k \notin {"hold", "click"} THEN held ELSE k = "hold" /\ press_flag = 0
        /\ abandoned' = (abandoned /\ held' /\ (k # "hold" \/ ~Delivers))
        /\ press_flag' = IF k = "hold" THEN 1 - press_flag ELSE press_flag
    BY DEF Does, Toggled
  <2>1. CASE Delivers
    <3>1. bt' = "open" /\ menu' # "initial" /\ running' = 1
      BY <2>1 DEF Inv, Menus, Delivers, btVars
    <3>2. CASE k = "hold"
      BY <2>0, <2>1, <3>1, <3>2 DEF OwnDrag
    <3>3. CASE k = "click"
      BY <2>0, <2>1, <3>3 DEF OwnDrag
    <3>4. CASE k \notin {"hold", "click"}
      <4>1. held' = held /\ press_flag' = press_flag
        BY <2>0, <3>4
      <4>2. ASSUME held, abandoned PROVE abandoned'
        <5>1. held' /\ (k # "hold" \/ ~Delivers)
          BY <3>4, <4>1, <4>2
        <5>. QED
          BY <2>0, <4>2, <5>1, Zenon
      <4>. QED
        BY <3>1, <4>1, <4>2 DEF Inv, OwnDrag
    <3>. QED
      BY <3>2, <3>3, <3>4
  <2>2. CASE ~Delivers
    <3>1. held' = held
      BY <2>2 DEF Does
    <3>2. bt = "silent"
      BY <2>2 DEF Inv, Values, Excepts, Raises, Delivers
    <3>3. held => abandoned
      BY <3>2 DEF Inv, OwnDrag
    <3>4. ASSUME held, abandoned PROVE abandoned'
      <4>1. held' /\ (k # "hold" \/ ~Delivers)
        BY <2>2, <3>1, <3>4
      <4>. QED
        BY <2>0, <3>4, <4>1, Zenon
    <3>. QED
      BY <3>1, <3>3, <3>4 DEF OwnDrag
  <2>. QED
    BY <2>1, <2>2
<1>. QED
  BY <1>1, <1>3, <1>4, <1>5 DEF Inv

----------------------------------------------------------------------------
(* Connecting.                                                              *)

LEMMA ConnectKeeps ==
    ASSUME Inv, Search \/ Connect
    PROVE  Inv'
<1>. USE DEF Inv, Chosen, Alive, Free, Modal
<1>1. CASE Search
  <2>1. Values' /\ ClockGoesOn'
    BY <1>1 DEF Search, screenVars, desktopVars, Values, ClockGoesOn
  <2>2. late' = late /\ running' = running /\ menu' = "initial" /\ loop' = loop /\ loop' = "running"
    BY <1>1 DEF Search, screenVars
  <2>3. (~late /\ running = 1) => FALSE
    BY <1>1 DEF Search, Menus
  <2>4. Menus'
    BY <1>1, <2>2, <2>3 DEF Search, Menus, Delivers, screenVars
  <2>5. InControl'
    BY <2>2, <2>3 DEF InControl
  <2>6. OwnDrag'
    BY <1>1 DEF Search, OwnDrag, screenVars, desktopVars
  <2>. QED
    BY <2>1, <2>4, <2>5, <2>6
<1>2. CASE ConnectFails
  <2>1. Values' /\ ClockGoesOn'
    BY <1>2 DEF ConnectFails, screenVars, desktopVars, Values, ClockGoesOn
  <2>2. Menus'
    BY <1>2 DEF ConnectFails, screenVars, Menus, Delivers
  <2>3. InControl'
    BY <1>2 DEF ConnectFails, screenVars, Menus, Values, InControl
  <2>4. OwnDrag'
    BY <1>2 DEF ConnectFails, screenVars, desktopVars, Menus, OwnDrag
  <2>. QED
    BY <2>1, <2>2, <2>3, <2>4
<1>3. CASE Connected
  <2>1. Values' /\ ClockGoesOn' /\ Menus'
    BY <1>3 DEF Connected, Values, ClockGoesOn, Menus
  <2>2. InControl'
    BY <1>3 DEF Connected, InControl
  <2>3. OwnDrag'
    BY <1>3 DEF Connected, Menus, OwnDrag, desktopVars
  <2>. QED
    BY <2>1, <2>2, <2>3
<1>4. CASE ConnectedInVain
  BY <1>4, ResetKeeps DEF ConnectedInVain, Values
<1>. QED
  BY <1>1, <1>2, <1>3, <1>4 DEF Connect

----------------------------------------------------------------------------
(* The inductive invariant.                                                 *)

LEMMA OtherKeysKeep ==
    ASSUME Inv, OtherKeys
    PROVE  Inv'
<1>1. PICK k \in KeyNames : IsNext(k) /\ ProcessedOther(k)
  BY KeyAssumption DEF OtherKeys
<1>2. Alive /\ ~choosing /\ running = 1 /\ UNCHANGED <<choosing, ticks>>
  BY DEF OtherKeys, Free, Modal
<1>3. Used(k) => keyboard' \in Boards
  BY <1>2 DEF Used, Boards, Inv, Values, Menus
<1>4. CASE /\ ~Excepts(k) /\ Does(k) /\ Used(k) /\ loop' \in {loop, "asking"}
           /\ UNCHANGED <<running, menu, body, clock, late, btVars>>
  BY <1>2, <1>3, <1>4, DoesKeeps
<1>5. CASE Caught /\ UNCHANGED <<loop, press_flag>>
  BY <1>2, <1>5, CaughtKeeps DEF Alive, Inv, Values
<1>6. CASE /\ Excepts(k) /\ bt = None /\ Used(k) /\ loop' = "dead"
           /\ UNCHANGED <<running, menu, body, clock, late, btVars, press_flag, desktopVars>>
  <2>1. keyboard' # None
    BY <1>3, <1>6 DEF Boards
  <2>2. late
    BY <1>2, <1>6, NoneAssumption DEF Inv, InControl
  <2>3. Values' /\ ClockGoesOn'
    BY <1>2, <1>3, <1>6 DEF Inv, Values, ClockGoesOn, btVars
  <2>4. Menus' /\ InControl' /\ OwnDrag'
    BY <1>2, <1>6, <2>1, <2>2 DEF Inv, Menus, Delivers, InControl, OwnDrag, btVars, desktopVars
  <2>. QED
    BY <2>3, <2>4 DEF Inv
<1>. QED
  <2>1. Shoots(k) /\ Delivers => ~Excepts(k)
    BY NoneAssumption DEF Shoots, Delivers, Excepts, Raises
  <2>. QED
    BY <1>1, <1>4, <1>5, <1>6, <2>1 DEF ProcessedOther

LEMMA RepeatKeyKeeps ==
    ASSUME Inv, RepeatKey
    PROVE  Inv'
<1>1. Alive /\ ~choosing /\ running = 1 /\ UNCHANGED <<link, choosing, press_flag, ticks>>
  BY DEF RepeatKey, Free, Modal
<1>2. Used("repeat") => keyboard' \in Boards
  BY <1>1 DEF Used, Boards, Inv, Values, Menus
<1>3. CASE Used("repeat") /\ UNCHANGED <<running, menu, body, clock, late, loop, bt, desktopVars>>
  BY <1>1, <1>2, <1>3, KeysKeep DEF desktopVars
<1>4. CASE Caught /\ UNCHANGED <<loop, held>>
  BY <1>1, <1>4, CaughtKeeps DEF Alive, Inv, Values
<1>5. CASE /\ bt = None /\ loop' = "dead" /\ Used("repeat")
           /\ UNCHANGED <<running, menu, body, clock, late, bt, desktopVars>>
  <2>1. keyboard' # None
    BY <1>2, <1>5 DEF Boards
  <2>2. late
    BY <1>1, <1>5, NoneAssumption DEF Inv, InControl
  <2>3. Values' /\ ClockGoesOn'
    BY <1>1, <1>2, <1>5 DEF Inv, Values, ClockGoesOn
  <2>4. Menus' /\ InControl' /\ OwnDrag'
    BY <1>1, <1>5, <2>1, <2>2 DEF Inv, Menus, Delivers, InControl, OwnDrag, desktopVars
  <2>. QED
    BY <2>3, <2>4 DEF Inv
<1>. QED
  BY <1>3, <1>4, <1>5 DEF RepeatKey

LEMMA FollowupKeeps ==
    ASSUME Inv, Followup
    PROVE  Inv'
<1>1. Alive /\ UNCHANGED <<loop, link, choosing, press_flag, ticks>>
  BY DEF Followup
<1>2. CASE UNCHANGED <<screenVars, bt, desktopVars>>
  <2>1. ticks' \in Nat /\ (clock' => ticks' > 0)
    BY <1>1, <1>2 DEF screenVars, Inv, Values, ClockGoesOn
  <2>. QED
    BY <1>1, <1>2, <2>1, SessionKeeps DEF screenVars, desktopVars, Inv, Values
<1>3. CASE Raises /\ Caught
  <2>1. ~choosing
    BY <1>3, NoneAssumption DEF Inv, Menus, Raises
  <2>. QED
    BY <1>1, <1>3, <2>1, CaughtKeeps DEF Alive, Inv, Values
<1>. QED
  BY <1>2, <1>3 DEF Followup

LEMMA ReadLineKeeps ==
    ASSUME Inv, ReadLine
    PROVE  Inv'
<1>1. /\ loop \in {"asking", "reading"} /\ ~choosing
      /\ UNCHANGED <<link, choosing, press_flag>> /\ press_flag' \in {-1, 0, 1}
  BY DEF ReadLine, ReadSize, ReadPicture, Inv, Menus, Values
<1>2. CASE Caught /\ loop' = "running" /\ UNCHANGED ticks
  BY <1>1, <1>2, CaughtKeeps
<1>3. CASE /\ UNCHANGED <<screenVars, bt, desktopVars>> /\ loop' \in {"running", "reading"}
           /\ ticks' \in {ticks, ticks + 1}
  <2>1. ticks' \in Nat /\ (clock' => ticks' > 0)
    BY <1>3 DEF screenVars, Inv, Values, ClockGoesOn
  <2>. QED
    BY <1>1, <1>3, <2>1, SessionKeeps DEF screenVars, desktopVars, Inv, Values
<1>. QED
  BY <1>2, <1>3 DEF ReadLine, ReadSize, ReadPicture

LEMMA QuitKeeps ==
    ASSUME Inv, Quit
    PROVE  Inv'
<1>1. /\ running' = -1 /\ abandoned' = held
      /\ UNCHANGED <<loop, menu, keyboard, clock, late, choosing, ticks, press_flag, held>>
      /\ ~choosing /\ loop = "running"
      /\ UNCHANGED btVars \/ (bt' = "silent" /\ link' = FALSE)
  BY DEF Quit, Free, Modal, Alive
<1>2. Values' /\ ClockGoesOn'
  BY <1>1 DEF Inv, Values, ClockGoesOn, btVars
<1>3. Menus' /\ InControl' /\ OwnDrag'
  BY <1>1 DEF Inv, Menus, Delivers, InControl, OwnDrag, btVars
<1>. QED
  BY <1>2, <1>3 DEF Inv

LEMMA NextInv == Inv /\ [Next]_vars => Inv'
<1>. SUFFICES ASSUME Inv, [Next]_vars PROVE Inv'
  OBVIOUS
<1>0. /\ ticks \in Nat /\ (clock => ticks > 0)
      /\ keyboard \in Boards \cup {None}
  BY DEF Inv, Values, ClockGoesOn
<1>. USE DEF btVars, screenVars, desktopVars
<1>1. CASE Search \/ Connect
  BY <1>1, ConnectKeeps
<1>2. CASE Lose \/ Ask \/ UNCHANGED vars
  BY <1>0, <1>2, SessionKeeps DEF Lose, Ask, vars
<1>3. CASE MenuStart \/ Answer
  <2>1. CASE Start
    BY <2>1, StartKeeps DEF Start
  <2>2. CASE UNCHANGED <<loop, screenVars, btVars, press_flag, choosing, ticks, desktopVars>>
    BY <1>0, <2>2, SessionKeeps
  <2>. QED
    BY <1>3, <2>1, <2>2 DEF MenuStart, Answer
<1>4. CASE Disconnect
  BY <1>0, <1>4, ResetKeeps DEF Disconnect, Free, Alive, Modal, Inv, Values
<1>5. CASE Quit
  BY <1>5, QuitKeeps
<1>6. CASE Type \/ LetGo
  <2>1. PICK k \in KeyNames : KeyDown(k) \/ KeyUp(k)
    BY <1>6, KeyAssumption DEF Type, LetGo
  <2>2. keyboard' \in Boards
    BY <1>0, <2>1 DEF KeyDown, KeyUp, Boards
  <2>. QED
    BY <2>1, <2>2, KeysKeep DEF KeyDown, KeyUp
<1>7. CASE OtherKeys
  BY <1>7, OtherKeysKeep
<1>8. CASE RepeatKey
  BY <1>8, RepeatKeyKeeps
<1>9. CASE Followup
  BY <1>9, FollowupKeeps
<1>10. CASE EndLoop
  <2>1. Values' /\ Menus' /\ OwnDrag' /\ ClockGoesOn'
    BY <1>10 DEF EndLoop, Inv, Values, Menus, Delivers, OwnDrag, ClockGoesOn
  <2>2. InControl'
    BY <1>10 DEF EndLoop, Inv, InControl
  <2>. QED
    BY <2>1, <2>2 DEF Inv
<1>11. CASE Toggle \/ ClickScreen
  BY <1>0, <1>11, SessionKeeps DEF Toggle, ToggledOn, ClickScreen
<1>12. CASE Redraw \/ Tick
  <2>1. ticks' \in Nat /\ (clock' => ticks' > 0)
    BY <1>0, <1>12 DEF Redraw, Tick
  <2>. QED
    BY <1>0, <1>12, <2>1, SessionKeeps DEF Redraw, Tick
<1>13. CASE ReadLine
  BY <1>13, ReadLineKeeps
<1>. QED
  BY <1>1, <1>2, <1>3, <1>4, <1>5, <1>6, <1>7, <1>8, <1>9, <1>10, <1>11, <1>12, <1>13
  DEF Next, MainLoop, Timers, User

----------------------------------------------------------------------------
(* A phone that controls has a connection behind its keys, and no exception *)
(* ends its main loop, unless control was started by a late answer.         *)
THEOREM StaysInControl == Spec => []InControl
<1>1. Inv => InControl
  BY DEF Inv
<1>. QED
  BY <1>1, InitInv, NextInv, PTL DEF Spec

(* A button held on the desktop can be released by the session that holds   *)
(* it, however its keys, menus and losses are interleaved.                  *)
THEOREM DragIsReleasable == Spec => []DragCanEnd
<1>1. Inv => DragCanEnd
  BY DEF Inv, OwnDrag, DragCanEnd
<1>. QED
  BY <1>1, InitInv, NextInv, PTL DEF Spec

(* A running stopwatch has a timer, however many chains of them overlap.    *)
THEOREM WatchIsTimed == Spec => []ClockGoesOn
<1>1. Inv => ClockGoesOn
  BY DEF Inv
<1>. QED
  BY <1>1, InitInv, NextInv, PTL DEF Spec
=============================================================================
