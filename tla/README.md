# A formal model of amora

Amora turns a phone into a remote control: a server on the desktop accepts
Bluetooth connections, reads lines such as `MOUSE_MOVE`, `10`, `0` or
`SCREEN_TAKE` from each, moves the pointer, clicks, types, and sends pictures of
the screen back.  This directory holds TLA+ models of the program, the TLC runs
that check them on small instances and the TLAPS proofs of what holds for every
value of the constants.  Paths below are relative to `src/`; `C/` is
`amora-server/amora-cli/src/`.

    tlc -config MCEventLoop.cfg EventLoop       # a run: its cfg, then its module
    tlapm EventLoopProofs.tla                   # the proofs of a module

`PROJECT.json` lists the components, runs, mutants, hazards, findings and
theorems, and maps each definition to the lines it models.

## Inventory

| Component | State | Operations | What makes it correct |
|---|---|---|---|
| event loop, `C/loop.c` | `loop_set`: watched descriptors, a callback for each, the highest one, one context; `loop()`'s own copy of the set and scan index | `loop_add`, `loop_remove`, `loop` | nothing unregistered is called, no ready descriptor is skipped or starves, although callbacks change the set during the scan |
| connections and sessions, `C/amora.c` | the context (sockets, display, name of the last phone), and the `static` variables of `treat_events` and `treat_command` | `server_socket_cb`, `client_socket_cb`, `process_events`, `treat_events`, `treat_command`, start and end | each phone's gestures have their own effect and no other; dead connections are closed; no phone ends the server by what it sends, only a failing call does |
| reading of lines, `C/bluecode.c` | a buffer of 300 bytes, the room believed left | `read_socket` | stays in the buffer; no byte is treated twice or out of order; returns |
| sending of files, `C/bluecode.c` | bytes sent | `send_file`, `hack_send_file` | all of the picture, or an error |
| protocol decoders, `C/protocol.c` | none | three decoders, asked in turn | each code has one meaning |
| X11 events, `C/x11_event.c`; screenshots, `C/imscreen.c` | the display; the image of imlib's context | `send_event`, `mouse_move`, `mouse_click`; `screen_capture`, `rescale_image`, `rotate_image`, `save_image` | press and release come in pairs; images are freed, files removed |
| Bluetooth start-up, `C/linux.c` | service record, device and server sockets | `build_bluetooth_socket`, `describe_service`, ... | what is opened is closed on every path |
| D-Bus watch, `C/dbus.c` | the bus connection, `dongle_removed` | watch callbacks, `signal_handler` | the server ends when its dongle is removed |
| log, `C/log.c`; command line, `C/main.c` | a log file; options | `log_build_resources`, `log_message`; `main` | messages go where they are sent |
| applet, `amora-server/amora-applet` | list of connected phones; the server in a thread of its own | connection and disconnection slots, Quit | the list is that of the open connections; Quit closes what is the server's |
| S60 client, `amora-client/pys60` | connection, keys held, timers, screens | `__connect`, `__reset`, `otherkeys_process`, `__take_screenshot`, ... | a gesture is a fixed sequence of lines; the phone recovers from a lost server |
| tablet client, `amora-client/maemo` | one connection object | discovery, connect, controller callbacks | a device can be chosen again |

How they interact: the phones' lines arrive over RFCOMM; `loop()` calls
`server_socket_cb` or `client_socket_cb` with the one context; these call
`loop_add` and `loop_remove` from inside the scan, read with blocking calls, and
go down through `process_events` and `treat_events` to `treat_command`, X11 and
`send_file`.  The applet's callbacks are called from the server's thread.  D-Bus
registers its own descriptor with the same loop.

What is hard here: a loop whose registry changes under its scan; one set of
static variables for all connections, with multi-line gestures that others can
interrupt; phones that vanish anywhere; a hand-made buffer loop on a stream
that may cut lines anywhere; blocking calls in a single thread.  The list of
hazards, each at its line, is in `PROJECT.json`.

## The modules

| Module | Models | Uses |
|---|---|---|
| `EventLoop` | `loop.c`: registry, `select()`, scan, dispatch, and the callers' rules | |
| `EventLoopProofs` | theorems about it | `EventLoop`, TLAPS |
| `Session` | `treat_events` and `treat_command` as operators on a record of their statics; `protocol.c` and `x11_event.c` by what they do | |
| `RemoteSession` | abstract: what a remote control promises, one session for each connection | `Session` |
| `AmoraServer` | the server process, its sockets and callbacks, and the phones that send to it | `Session`, an instance of `EventLoop`, `RemoteSession` as a property |
| `AmoraServerProofs` | theorems about its descriptors and sockets | `AmoraServer`, an instance of `EventLoopProofs`, TLAPS |
| `AmoraTurnsProofs` | theorems about phones that take turns, and the refinement of `RemoteSession` | `AmoraServerProofs` |
| `ReadSocket` | `read_socket` and the cutting into lines, byte by byte | |
| `ReadSocketProofs` | theorems about it | `ReadSocket`, TLAPS |
| `Startup` | the process from `amora_context_new` to `amora_context_delete`, its descriptors, the D-Bus watch, the log's descriptor, both programs | an instance of `EventLoop` |
| `StartupProofs` | theorems about it | `Startup`, TLAPS |
| `Screenshot` | one `SCREEN_TAKE` from the capture to the phone's screen: images, file, `send_file`, the phone's `readline` | |
| `ScreenshotProofs` | theorems about it | `Screenshot`, TLAPS |
| `PhoneApp` | the S60 client: main loop, menus, connecting, keys, timers, popups | |
| `PhoneAppProofs` | theorems about it | `PhoneApp`, TLAPS |

Three models overlap on purpose, each with the others' part made small.
`AmoraServer` has what the lines of several phones do to one another, with a
start that succeeds and a screenshot in one step.  `Startup` has descriptors
and failures, with one phone that sends nothing.  `Screenshot` has the inside of
the one step.  `PhoneApp` is the phone of `AmoraServer` seen from inside, with
its server reduced to a connection that is there or not.

### EventLoop

The variables are the fields of `loop_set` and the locals of `loop()`; `pc`
says whether `loop()` is not running, in `select()`, scanning, or inside a
callback.  `Select` lets `select()` return any non-empty set of readable watched
descriptors as they are at that moment (`io`, which changes as it likes);
`Dispatch` goes to the first descriptor that the copy holds, under the `nfds`
of this moment, and so skips as the loop's `continue` does.  `Add` and `Remove`
happen while `loop()` is stopped or inside a callback.  The rule that a callback
only removes the descriptor it was called for (`Removable`) is the callers':
`client_socket_cb` is the only function of the server that removes one while the
loop runs.  `loop_remove` looks for the new `nfds` among the descriptors up to
the old one even if it removed nothing, which `Removed` says as it is.

### Session and RemoteSession

A line is a record: the code it decodes to, the number that `atoi` makes of it,
and, for the properties only, the user's gesture it is a part of.  The decoders
compare with `strncasecmp` up to the length of the line, so an abbreviation is a
line of the code it abbreviates; a line is therefore identified with its code.
`EventResult`, `AfterEvent` and `Effect` are what a line returns, leaves in the
statics and does to the desktop.  Numbers are opaque (`<<gesture, axis>>`), so a
coordinate that ends up in another gesture is seen.  `y_mouse` and `do_capture`
are written and never read again, and left out; `mouse_event` and
`times` are kept as the two variables they are, because a mistake in one only
is what makes gestures run into each other.

`RemoteSession` runs the same operators on one record for each connection.  A
session begins `Fresh`: no gesture under way, no rotation, and one of the two
default sizes (176x208 for the first phone, 320x240 for those after a
`CONN_CLOSE`).  That the program, with one record for all, implements it is
`OneSessionEach`, under the mapping that gives every open connection the one
record.  It is a fact about the resets of `CONN_CLOSE`, and it needs its
premises: phones that take turns and say good-bye.

### AmoraServer

The loop is an instance of `EventLoop` whose `io` is computed from the sockets.
Each callback is a few actions, cut where it can be observed or interrupted:
`Accept`/`AcceptFails`; `ReadLines`/`ReadFails`/`ReadSpins`, then one
`TreatLine` for each line, then `FinishLines` with the decision to close, then
`ReturnZero`.  Phones move between any two of them.  A phone
(`application.py`) connects, sends its greeting, then gestures line by line
(`Begin`, `Send`), waits for the picture after `SCREEN_TAKE`, hangs up, notices
that the server has closed the connection, or vanishes.  Its gestures are the
keys, moves, clicks and scrolling, the key 1 that holds the button down and lets
it go, screenshots, and a click that is followed by a screenshot.  A connection is
used once: a phone that comes back is another member of `Conn`.

`Faults` is what may go wrong in a run.  With `withdraw`, a phone that is gone
leaves the accept queue before it is accepted (`Withdraw`), also between
`select()` and `accept()`; the listening socket is not set non-blocking, so
`accept()` then waits for the next phone and nobody else is served (`InAccept`).
`withdrawn` remembers who left so since `select()` last returned.  With `shot` a
picture cannot be made and the command returns NONE; with `tmp` its directory
cannot be made, or its file or directory not be removed, and the message for
`perror()` is printed into a string literal, which kills the process
(`ShotCrashes`); with `select` and `accept` these calls fail, and end it by way of
`loop()`; with `eof` a `read()` returns 0 and `read_socket` spins.  `accept()`
returns the lowest free descriptor, so numbers are used again at once.

`phones` is the applet's list as a set: a connection and a disconnection
callback each change it when they are called.  The queue between the threads of
Qt delays this and does not reorder it.

### ReadSocket

The stream is the bytes 1 .. TOTAL, each named by its place, so that what is
handed to `treat_events` can be compared with what was sent.  The test of the
while loop, the `read()` and the end of the function are actions of their own,
because bytes arrive between them.  They arrive at any pace, byte by byte or as
whole lines, and pile up in the socket while the server is busy; a `read()`
takes what fits the room that is believed left.  `cuts` is a history variable: the
places where a `read()` ended in the middle of a line.  Where `read()` writes
(always at the start of the buffer) and how `length` shrinks (by the running
total, not by the bytes just read) are as in the code.

### Startup

`at` is where the server's thread is: one value for each call of
`amora_context_new` that may fail, then the loop, then the end.  `After` is the
order of the calls.  `owner` is the kernel's table, from descriptor to what it
refers to; `fd` is the number that each field of the context remembers (with
`conn` for libdbus's own connection).  The two only agree if numbers are taken
when free and released by their owners.  `hci_close_dev(sd->hci_id)` in
`OpenDevice` releases the number of the adapter instead.  The labels `destroy`
and `cleanup` are actions, and what they do not close stays open in `owner`: the
device socket, the server socket that `bind()` accepted, the bus; and the log
when `check_device` or the display fails.  The process exits then.

The loop is an instance of `EventLoop` whose `io` is computed from the table, the
messages on the bus and the phone.  `dispatch` (`dbus.c`) reads all that has
come in one action (`ReadBus`) and dispatches message by message.  The behaviour
of libdbus is external and taken from how `dbus.c` uses it: it adds an enabled
watch for reading and a disabled one for writing on the same descriptor, and
enables and disables the second around an answer.  `toggle_watch` then removes
the first, since the registry knows descriptors only, and does not add it again.
HAVE_DBUS is assumed.  The phone comes, leaves and comes again, or gives up before
it is accepted; `accept()` then waits for its next call (`WaitsForPhone`).

`DeleteContext` and `CloseLog` are `amora_context_delete`.  In the command line
program they come after the loop.  In the applet they may come at any time: Quit
runs in the main thread, and the destructor neither stops nor waits for the
server's.  When the server's thread ends first, its `exit(0)` is that of
`QThread`, and the applet lives on without a server.  `RightCallback` is stated
for a context that lives; with a deleted one the closed socket is still watched,
and `accept()` fails when it is called for it.

### Screenshot

The picture is the bytes 1 .. SIZE, each named by its place, and the digits of
its size are zeros.  `sent` is everything that `write()` was given, `wire` what of
it is still under way; `write()` takes as much as `WINDOW` leaves room for.  Each
function of the code is an action with its failure: a capture that returns
nothing, a rescaling that does, a directory, file or image that cannot be
made, a phone that vanishes, a server that is killed.  Two of the failures end
the process by themselves: the error messages for `mkdtemp`, and for `unlink`
or `rmdir`, print into a constant.  On the path of a failed `save_image` the
results of `unlink` and `rmdir` are not looked at (`Discarded`), and `refused`
remembers which of them failed.  When there is no rescaled image, imlib
leaves its error variable as it is, uninitialised; the model takes either value.
The phone reads a size of at most `FIRST` bytes and then the picture, from
wherever the stream was cut.

### PhoneApp

The client has one thread, which yields in its main loop; menus, timers and
answers to questions run then.  Variables are the fields of `application` and
`Keyboard`, with `bt` as no client, one without a port (`silent`, whose
`write_line` does nothing), or an open one.  Popups are modal for keys and
menus (`Free`) and not for timers (`Alive`).  One key stands for each way of
treating keys: repeated, arrow, `1` that holds the button, Select that clicks,
`2` that takes a screenshot.  `auto` is `click_and_screen`, with which a click
takes one too.  A screenshot blocks the thread twice in `readline`: for the size
(`loop` is `asking`), and for the bytes (`reading`).  No menu, key, timer or popup
gets a turn until then.  When the link is over, `recv()` for the size raises or
returns nothing, which `int()` refuses; for the bytes it may return nothing again
and again, and `readline` does not end, so that `ReadPicture` need not come.
`Caught` is the `except` clause, which itself raises an exception when there is
no client.

The question whether to start comes from a timer 0.8 seconds after connecting,
and nobody takes it back.  Answered after a Disconnect, during another
connecting or after Exit, it starts control without a connection, and the first
key then ends the program with an exception.  `late` marks these sessions, and
`InControl` and `LossIsNoticed` leave them out.  If such an answer comes while
the client is being connected, the keyboard is there before the session is, and
the session then keeps showing the wallpaper and takes no keys; `LossIsNoticed`
is about the screen that takes them.  A drag in which the session ends leaves the button
down on the desktop (`abandoned`).  Each redraw and each start of the stopwatch
adds a chain of timers, so that they grow; `MaxTicks` bounds them.

## The runs

| Run | Module, cfg | Bounds | Shows |
|---|---|---|---|
| `loop` | `EventLoop`, `MCEventLoop.cfg` | 3 descriptors, 1 callback, `select()` may fail | registry, scan and fairness of the loop |
| `turns` | `AmoraServer`, `MCServerTurns.cfg` | 2 connections, one at a time, 2 gestures each of 6 kinds (a move, a drag's two halves, a right click, a click with a screenshot, a rotated screenshot), reads of up to 3 lines | gestures have their own effect; `OneSessionEach`; the applet's list; screenshots are answered |
| `live` | `AmoraServer`, `MCServerLive.cfg` | 2 connections at once, 1 gesture each, vanishing anywhere, failing `select()`, `accept()` and screenshots, phones that give up before they are accepted | only a failing call ends the server; it closes the dead and reads what was sent |
| `faults` | `AmoraServer`, `MCServerFaults.cfg` | 3 connections for 2 descriptors, failing `select()`, `accept()`, `read()` = 0, phones that give up before they are accepted | the callbacks use the loop as it expects (`LoopContract`); no blocking call blocks, but the `accept()` of one that gave up |
| `read` | `ReadSocket`, `MCReadSocket.cfg` | buffer of 6, stream of 11 bytes, lines of 1, 2 and 3 bytes, up to all of them pending | in the buffer; what is lost is what a cut loses; returns |
| `startup` | `Startup`, `MCStartup.cfg` | both programs, with and without a log, every failure, adapter 0, 10 descriptors, one phone that comes again and again, 3 kinds of messages on the bus | descriptors, callbacks and context stay right; the removal of the adapter ends the server |
| `screenshot` | `Screenshot`, `MCScreenshot.cfg` | 5 bytes, 2 digits, buffer, window and reads of 3, every failure | the right bytes, nothing left behind but what cannot be removed, nobody waits |
| `phone` | `PhoneApp`, `MCPhoneApp.cfg` | a key of each kind, 2 keys at once, 2 questions, 4 timers | control means a connection; drags end; the stopwatch goes on; a loss is noticed |
| `two_phones` | `AmoraServer`, `MCServerTwoPhones.cfg` | 2 phones moving the pointer at once | violation of `WarpIsOneGesture` |
| `read_split` | `ReadSocket`, `MCReadSplit.cfg` | as `read`, bytes one by one | violation of `LinesIntact` |
| `read_eof` | `ReadSocket`, `MCReadEof.cfg` | as `read`, `read()` = 0 | violation of `EndIsReported` |
| `stray_close` | `Startup`, `MCStartupHci1.cfg` | the command line program with `-i 1`, no failures | violation of `OutIsStdout` |

Why the bounds are enough to be worth something.  Three descriptors let a pass
have one behind, at and ahead of the scan, and let the highest be removed while
lower and higher ones are pending.  Two connections are all that the shared
statics can mix pairwise, and with two gestures each, every gesture follows
every other within a phone and across the change of phones; the gestures of
`turns` are one for each way of leaving the statics: a click of its own, scrolling
and a key leave nothing that these do not leave.  Three connections for two
descriptors reach the descriptor that `select()` cannot hold.  With a
buffer of six, a read can get part of a line, a line, several, or the end of one
with the start of the next, and `length` can fall below `res`; the stream of
eleven is more than two full reads, so that whole lines can pile up and be cut.  Ten descriptors are three standard ones, the seven that `Startup` can
have open at once, and so none is ever missing: running out of them is the
matter of run `faults`.  A picture of five bytes in chunks of three has a last
chunk that is short; a window of three cuts the writes, and cuts the size from
its second digit.  Two keys
(`MaxKeys`) are enough for one to be handled before another and for an arrow to
be held meanwhile.  Two questions can both be late, or one late and one not;
four timers are two chains of an old run of the stopwatch and two of a new one.
The theorems about these models have no bounds.  The counters
`count` (bound `MaxGestures`), the size of a read (`MaxBatch`), keys (`MaxKeys`, and
one waiting press for each), questions and timers are bounded by the guards that
use them; the rest of the state is finite by itself.

The four violations are disagreements between a document and the code, each a
finding with the line quoted:

* `amora_descr.t2t` announces several phones at the same time; the coordinates
  of two phones that move the pointer at once are mixed.
* `bluecode.h` says that a new line ends a command; a line that arrives in two
  pieces loses the first.  Whole lines are cut in the same way if more than
  299 bytes of them are pending, as may be after a picture.
* `bluecode.h` says that `read_socket` returns 0 on an error; when `read()`
  returns 0 it does not return at all.  A lost RFCOMM link is usually reported
  by -1, so this needs a link that is shut down without an error.
* `log.h` says that OUT is the standard output; with the adapter hci1,
  `hci_close_dev` closes descriptor 1, the server socket gets its number, and what
  is logged to OUT goes to that socket.

### Properties

The properties look for what no test of the repository reaches: the callback of
a descriptor that an earlier callback of the pass removed (`PendingIsWatched`,
`NoNullDispatch`), a ready descriptor behind a shrinking bound
(`PassServesAllReady`), a reason to read that is gone when the callback runs
(`NoBlockingRead`; it names the one case, a connection that was withdrawn since
`select()`), a remainder of one gesture or phone in the next
(`WarpIsOneGesture`, `ClickIsOwnButton`, `PictureIsOwn`, `OneSessionEach`), a
descriptor that is closed and watched or open and forgotten (`WatchedIsOpen`), a
dead connection that is never closed because another line came after its
`CONN_CLOSE` (`GoneIsClosed`), a callback of a phone that ends the server where
only a failing call of the system should (`EndsByFault`).  In `ReadSocket`: a byte
that is lost though its line was not cut, or treated twice, or a connection
closed because its lines piled up (`LossIsAtCuts`).  In `Startup`: a number that is closed by one part
and used by another (`OwnDescriptors`, `RightCallback`), the context that the bus
overwrites (`ContextIsServer`), a dispatch without anything to read
(`DispatchNeverBlocks`), the removal of the adapter among other messages of the
same read (`RemovalEndsServer`, except after the watch was lost to a toggle, or
while `accept()` waits for a phone that gave up).  In
`Screenshot`: bytes sent twice or left out at a partial write (`SentInOrder`),
files and images left by one of the error paths although nothing refused to
remove them (`NothingLeft`), a picture that is
refused for another reason than the first read of its size (`OnlySizeMatters`),
either side waiting for the other (`NobodyWaits`; a server that is killed in the
middle leaves the phone reading nothing for ever, and is left out).  In
`PhoneApp`: control without a connection (`InControl`), a button that its session
cannot release (`DragCanEnd`), the last timer of a running stopwatch
(`ClockGoesOn`), a loss that nobody finds anywhere but in the middle of a picture
(`LossIsNoticed`).  Each comes with a mutant of the code, next to
the definition it changes, under which the run finds it violated.

### Fairness

`EventLoop` asks for weak fairness of the loop's own steps and of the return of
callbacks: one thread that runs, with callbacks that come back.  `AmoraServer`
asks for weak fairness of the server's steps taken together: it is one
sequential thread, and the operating system runs it; but a `select()` or
`accept()` that waits is not made to fail (`CallFails`), or every wait would end
that way.  It does not assume that
a callback comes back, which follows except where `ReadSpins` is allowed (run
`faults`, which has no liveness property) and where `accept()` waits, which is a
state without a step of the server; `GoneIsClosed` and `LinesAreRead` except it
by name (`InAccept`).  Of the phones it only asks that they
notice when the connection is closed, as their next write does; users may stop
in the middle of anything.  `ReadSocket` asks for weak fairness of
`read_socket`, nothing of the phone.  `Startup` asks for weak fairness of the
server's thread, with the same exception, and of `main` after it in the command line program; nothing of
the bus, the phone or the user of the applet.  `Screenshot` asks for it of the
server's thread and of the phone's, separately: a phone that stays and does not
read stops `write()`, and then the server.  `PhoneApp` asks for it of the main
loop, of an attempt to connect (which succeeds or fails), and of a user who
answers questions, goes on typing, not only arrows, and lets keys go; without
them nothing would be written, and only a write finds a loss.  Of `recv()` it
asks that the one for the size returns once the link is over, and nothing in the
middle of a picture.

`CHECK_DEADLOCK FALSE` is set for `faults`, where the server may exit or spin
while phones wait, for `ReadSocket`, whose connection ends closed, and for
`Startup`, `Screenshot` and `PhoneApp`, which end with the process, the transfer
and the program.
Elsewhere a state without a step would be an error, and `AtRest` is the only
place where everyone may stop.

## The proofs

`EventLoopProofs`, for every `FD_SETSIZE > 0` and every set of callbacks and
contexts, from the named assumptions of `EventLoop`:

* `TypeCorrect`, `RegistryCorrect`, `ScanCorrect`: `TypeOK`, `LoopSetOK` and
  `PendingIsWatched` are invariants.  The inductive invariant is their
  conjunction, `LoopInv`.  They need one another: that `loop_remove` finds the
  right `nfds` among the descriptors below the old one needs `nfds` to have
  covered them; that the next dispatch has a callback needs both that it is
  watched and that the watched ones are those with a callback.  That a
  callback's `loop_remove` does not hurt the rest of the scan is the step that
  uses `Removable`: what is removed is behind the index.
* `NeverNull`, `ServesAllReady`: the two action properties, from `LoopInv`.

`AmoraServerProofs`, for every finite set of connections, every number of
descriptors and of gestures, and every set of faults:

* `KeepsLoopContract`: every step of the server is one that `EventLoop` allows
  its callers, so the theorems about the loop are theorems about the server.
  Two are stated for it: `ServerNeverNull`, no descriptor is dispatched without a
  callback, and `ServerServesAll`, no phone that `select()` reported is skipped
  when the callback of another removes its descriptor.
* `TypeCorrect`; `WatchesTheOpen`: `WatchedIsOpen`, the descriptors that the
  loop watches are the server socket's and those of the open connections it can
  hold; `CallbacksDoNotBlock`: `NoBlockingRead`, no callback runs for a
  descriptor without anything to read, unless it is the listening socket and a
  connection was withdrawn since `select()`.  The inductive invariant `ServerInv` has
  two parts that carry the argument.  `OnePlace`: a connection is at one
  descriptor or once in the backlog, without which `close()` would close another
  phone's.  `StillReadable`: what `select()` reported stays readable until its
  callback runs, with the same exception.  It needs `EventLoop`'s `LoopInv`, which says what the scan has
  still to visit.
* `EndsOnlyByFault`: `EndsByFault`.  The server ends where `select()` or
  `accept()` fails, or where it crashes because the directory or file of a
  screenshot cannot be made or removed; nothing a phone does, and no `read()`
  that fails, gets there otherwise.

`AmoraTurnsProofs`, about phones that take turns (`~Overlap`: a phone connects
when no other is linked).  The run `two_phones` shows what happens without
turns; these theorems say that nothing else goes wrong when they are taken:

* `ShowsThePhones`: `PhonesAreShown`.  `OnePhone` says that the phone which is
  open is the only one linked.
* `ClicksTheirButton`: `ClickIsOwnButton`, also when phones vanish in the middle
  of a click, and with every fault.  `ClickInv` says that a press comes directly
  after the line of its gesture that sets its button, or after another press of
  that gesture, or finds the button set if it is the next to be treated.  That a
  phone which vanishes leaves half a click does not matter, because the next
  gesture that clicks begins with its button.
* `MovesAreWhole` and `PicturesTheirSize`: `WarpIsOneGesture` and
  `PictureIsOwn`, if phones also say good-bye (`~Rude`).  This second hypothesis
  is needed: a phone that vanishes between `MOUSE_MOVE` and its numbers leaves
  `mouse_event` set, and the next phone's first number is taken for the
  coordinate; with `Rude` TLC finds both violated.
* `ServesEachAlone`: `OneSessionEach`, the refinement of `RemoteSession`, step
  by step and under the same two hypotheses.  The proof has a lemma for each
  kind of step: a line that is treated, a connection that opens or closes, a
  step that shows nothing.

  The last three rest on `TurnInv`, about the lines of a phone that are on their
  way, those it has yet to send included (`Waiting`): the statics are what the
  first of them needs (`Needs`), treating one leaves what the next needs
  (`Leads`), and the last leaves no gesture under way (`Ends`).  When none is on
  its way nothing is under way, and when no phone is connected the statics are
  those of a new session (`Fresh`).  That the lines of each gesture lead from
  one such state to another (`Complete`) is proved of `treat_command` and
  `treat_events`, gesture by gesture.  The lemmas `ReadWaits`, `TreatWaits`,
  `SendWaits`, `BeginWaits`, `ConnectWaits` and `HangUpWaits` say what each step
  does to the lines on their way, once for `TurnInv` and `ClickInv`.

`ReadSocketProofs`, for every buffer of at least two bytes and every stream:

* `TypeCorrect`; `MemorySafe`, that `read()` and the closing NUL stay in the
  buffer.  The strengthening is `RoomInv`: as long as another `read()` is
  possible, `length + res` is at most `BUF_SIZE - 1`, which the double
  subtraction keeps because it only makes `length` smaller.
* `ZeroIsNeverReturned`.
* `LossIsExact`: `LossIsAtCuts`.  A byte is treated exactly if no `read()` ended
  between it and the newline of its line; what is treated is in order and not
  twice; and if lines arrive unbroken and each fits the buffer, the connection
  closes only when all that was sent has been read.  The strengthening `ReadInv` says
  that the buffer holds the bytes of the last `read()` at its start and no
  newline after them (`LastRead`), that all before them is dealt with, and that
  the last place read is a newline or a cut.  It needs no assumption on how
  bytes arrive.

`StartupProofs`, for every number of descriptors, every set of failures and both
programs:

* `NumbersAreOwn` and `CallbackIsRight`: `OwnDescriptors` and `RightCallback`
  are invariants if every adapter is below hci3 (the assumption `AdapterIsLow`
  of both theorems; the code has no such bound, and with hci3 the first fails,
  because 3 is the log or the display).  The argument is that `open()` and its
  like take a number only when it is nobody's, and that each `close()` is of the
  number's owner.  The exception is `hci_close_dev`, and there `Early` helps:
  until then the numbers below 3 are the standard descriptors.  `Clients` says
  that a descriptor with the phones' callback is watched and a phone's, also
  after the context is deleted under the loop, so that this callback closes its
  own.
* `SocketsGetContext`: `ContextIsServer` is an invariant, without an assumption.
  `ContextInv` says that no socket is registered before the bus, and that the
  context is the server's as soon as one is.
* `TypeCorrect`, `StartupNeverNull` and `StartupServesAll`.  The start-up runs
  the loop of `EventLoop`: `UsesLoop` shows that each of its steps is one that
  `EventLoop` allows, so `LoopInv`, `NoNullDispatch` and `PassServesAllReady`
  hold here by the theorems there.
* `DispatchHasWork`: `DispatchNeverBlocks` is an invariant if every adapter is
  below hci3.  It is about the bus alone; `accept()` may wait (`WaitsForPhone`).  `DispatchInv` says that only the bus's connection has a callback
  that dispatches, and that what `select()` reported for it is still there,
  since the bus is read by that callback alone and each number is its owner's
  (`OwnDescriptors`, hence the assumption about the adapter).

`ScreenshotProofs`, for every picture, buffer, window and set of failures:

* `SendsInOrder`: `SentInOrder` is an invariant.  `SendInv` says at each step
  how much has been sent: in the middle of a chunk the size and the first
  `bytes + tmp1` bytes, with the chunk in the buffer beginning at byte
  `bytes + 1`.  Its lemmas are about consecutive bytes: a part of a run of bytes is a run, and a
  run appended to the one before it is a run.
* `LeavesNothing`: `NothingLeft` is an invariant: no image is left, and of the
  file and the directory only what `unlink()` or `rmdir()` refused to remove.
  `LeftInv` says what there is to remove at each step.
* `TypeCorrect` and `ShowsWhatWasSent`: `OnlySizeMatters` is an invariant.
  `ShapeInv` says how the phone's state goes with the server's, and `PhoneInv`
  that for a phone that read the size right, what was sent is the digits of the
  size, then what the phone has taken, then what is on the wire, and that a
  phone gives up only with a size that is wrong; the lemma `Prefixes` is that
  fewer digits than all make a smaller number.  The assumption `PowerAssumption`
  states the two facts about powers of `BASE` that the prover cannot compute;
  they hold for every base of at least 2, and TLC evaluates them for the run's.

`PhoneAppProofs`, for every number of questions and timers:

* `StaysInControl`, `DragIsReleasable`, `WatchIsTimed`: `InControl`,
  `DragCanEnd` and `ClockGoesOn` are invariants.  The strengthening is about the
  menus: a session with a connection is never on the initial menu, the only one
  from which its client can be replaced, and a client that is being connected
  has no port, so that an answer that comes then is a late one.

Each invariant and action property of a passing run is thus a theorem.  Only
model-checked, because temporal properties under fairness are beyond the prover:
`NoStarvation` of the loop; `GoneIsClosed`, `LinesAreRead` and `ShotIsAnswered`
of the server; `CallReturns` of `read_socket`; `RemovalEndsServer` of the
start-up; `NobodyWaits` of a screenshot; `LossIsNoticed` of the phone.  The
violations are TLC's, too: a theorem can say that a hypothesis is enough, and
only a counterexample that it is needed.

## Not modelled, and the plan

What the models leave out of the parts they cover: the allocation of the buffer
and its failure, the text of names and logs, key codes, the -1 that `mouse_move` returns without
a display (there always is one: `amora_context_new` fails otherwise), the text of prefixes in
the decoders, a server without XTest, and the choice of the window that is
captured.  A signal is the only reason given for `select()` to fail.  In
`Startup`: messages of the bus that arrive while `dbus_init` runs, the end that
libdbus brings about when the bus itself goes (`exit_on_disconnect`), the
contents of the service record, and what a thread does with a context that was
deleted under it.  In `Screenshot`: a phone that stays and does not read.
In `PhoneApp`: the forms of configuration, help and about, the layout of the
screens, and a write that the phone's system takes although the server is
already gone (the next one fails).  An arrow is down or not, and other keys have at
most one press waiting.  Of the applet: menus, icons, balloons and the
delay of its queued notifications.  The usage messages of both programs.

Where the code itself waits or ends, the models do too, and the properties say
so by name: `accept()` waits after a phone that was withdrawn (`InAccept`,
`WaitsForPhone`); `readline` of the phone may not end when the server is lost in
the middle of a picture (`loop = "reading"`); a phone whose screenshot could not
be made waits for it (`ShotIsAnswered` is checked without the failures); and the
process crashes where a screenshot's directory or file cannot be made or removed
(`ShotCrashes`).

Not modelled at all: the unit tests, read for how the loop and the watch are meant
to be used; the pictures, layouts and packaging, which have no behaviour; and,
for now, the tablet client.

In this order:

1. `TabletClient`: discovery, connect and the controller's callbacks over its one
   connection object, which is closed and connected again.
2. The applet's queued notifications: the list of phones as the main thread sees
   it, late, with Quit in between.
3. Proofs: what remains of `MovesAreWhole` and `PicturesTheirSize` when
   phones vanish; the theorems of `TabletClient`.
