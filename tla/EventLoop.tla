----------------------------- MODULE EventLoop -----------------------------
(* The event loop of the amora server (amora-cli/src/loop.c): one thread,   *)
(* one file-scope loop_set, select() for readability without a timeout, and *)
(* a scan of the ready descriptors from the lowest to the highest that      *)
(* calls the callback of each.                                              *)
(*                                                                          *)
(* Part of a callback's body is visible here: it may call loop_add, and it  *)
(* may call loop_remove on the descriptor it was called for, before it      *)
(* returns.  What makes a descriptor readable is outside the loop: io is    *)
(* the set of descriptors that select() would report, and the environment   *)
(* changes it as it likes.                                                  *)
EXTENDS Integers, FiniteSets

CONSTANTS
    FD_SETSIZE,    \* the descriptors select() can watch are 0 .. FD_SETSIZE-1
    Callback,      \* the functions a descriptor may be registered with
    Context,       \* what a registration may ask to have passed to them
    NULL,
    SelectMayFail  \* whether select() may return -1 (a signal, a bad fd)

ASSUME FdSetSizeAssumption == FD_SETSIZE \in Nat \ {0}
ASSUME NullAssumption      == NULL \notin Callback
ASSUME SelectAssumption    == SelectMayFail \in BOOLEAN

VARIABLES
    readfds,   \* loop_set.readfds: the watched descriptors
    callback,  \* loop_set.callback
    nfds,      \* loop_set.nfds: the highest watched descriptor
    context,   \* loop_set.context: one for all the descriptors
    ready,     \* loop()'s own readfds: a copy of the above, cut by select()
    i,         \* loop()'s scan index
    ret,       \* loop()'s result so far
    pc,        \* where loop() is
    io         \* the descriptors that are readable, whoever watches them

loop_set == <<readfds, callback, nfds, context>>
locals   == <<ready, i, ret>>
loopVars == <<loop_set, locals, pc>>
vars     == <<loopVars, io>>

Fd == 0 .. FD_SETSIZE - 1

(* Types; an index into callback[] is always in its range.                  *)
TypeOK ==
    /\ readfds \subseteq Fd
    /\ callback \in [Fd -> Callback \cup {NULL}]
    /\ nfds \in Fd
    /\ context \in Context \cup {NULL}
    /\ ready \subseteq Fd
    /\ i \in 0 .. FD_SETSIZE
    /\ pc = "callback" => i \in Fd
    /\ ret \in {-1, 0}
    /\ pc \in {"stopped", "select", "scan", "callback"}
    /\ io \subseteq Fd

(* The static loop_set starts zeroed, before loop() is called. *)
LoopInit ==
    /\ readfds = {}
    /\ callback = [f \in Fd |-> NULL]
    /\ nfds = 0
    /\ context = NULL
    /\ ready = {}
    /\ i = 0
    /\ ret = 0
    /\ pc = "stopped"

----------------------------------------------------------------------------
(* The registry: loop_add and loop_remove.                                  *)

(* m is the highest member of S, or 0 when S is empty. *)
IsHighest(m, S) ==
    /\ S = {} => m = 0
    /\ S # {} => m \in S /\ \A f \in S : f <= m

(* Mutant of Added: the range of the descriptor is not checked. *)
AddedUnchecked(f, x, c) ==
    /\ f \notin readfds
    /\ c # NULL
    /\ context' = x
    /\ readfds' = readfds \cup {f}
    /\ callback' = [callback EXCEPT ![f] = c]
    /\ nfds' = IF f > nfds THEN f ELSE nfds

(* loop_add returns 0: the descriptor is watched, and the context replaces  *)
(* that of every earlier registration.                                      *)
Added(f, x, c) ==
    /\ f \in Fd \ readfds
    /\ c # NULL
    /\ context' = x
    /\ readfds' = readfds \cup {f}
    /\ callback' = [callback EXCEPT ![f] = c]
    /\ nfds' = IF f > nfds THEN f ELSE nfds

(* loop_add returns -1 and changes nothing. *)
NotAdded(f, c) ==
    /\ f \notin Fd \/ c = NULL \/ f \in readfds
    /\ UNCHANGED loop_set

(* Mutants of Removed: nfds is left as it was; nfds is only looked for      *)
(* below the removed descriptor.                                            *)
RemovedStaleNfds(f) ==
    /\ readfds' = readfds \ {f}
    /\ callback' = [callback EXCEPT ![f] = NULL]
    /\ UNCHANGED <<nfds, context>>

RemovedLowNfds(f) ==
    /\ readfds' = readfds \ {f}
    /\ callback' = [callback EXCEPT ![f] = NULL]
    /\ nfds' \in Fd
    /\ IsHighest(nfds', {g \in readfds' : g < f})
    /\ UNCHANGED context

(* loop_remove of a descriptor in range: nfds is found again among the      *)
(* descriptors up to the old one, whether or not f was watched.             *)
Removed(f) ==
    /\ f \in Fd
    /\ readfds' = readfds \ {f}
    /\ callback' = IF f \in readfds THEN [callback EXCEPT ![f] = NULL] ELSE callback
    /\ nfds' \in Fd
    /\ IsHighest(nfds', {g \in readfds' : g <= nfds})
    /\ UNCHANGED context

(* Mutant of Removable: a callback may remove any descriptor. *)
RemovableAny(f) == TRUE

(* Who calls them: the program while the loop is not running, a callback    *)
(* while it is.  A callback only removes the descriptor it was called for.  *)
CallerRuns   == pc \in {"stopped", "callback"}
Removable(f) == pc = "callback" => f = i

Add(f, x, c) ==
    /\ CallerRuns
    /\ Added(f, x, c) \/ NotAdded(f, c)
    /\ UNCHANGED <<locals, pc>>

Remove(f) ==
    /\ CallerRuns
    /\ Removable(f)
    /\ Removed(f)
    /\ UNCHANGED <<locals, pc>>

----------------------------------------------------------------------------
(* loop().                                                                  *)

(* loop() is called.  On an empty set it would sleep in select() for ever;  *)
(* its callers register a descriptor first.                                 *)
Enter ==
    /\ pc = "stopped"
    /\ readfds # {}
    /\ ready' = readfds
    /\ ret' = 0
    /\ pc' = "select"
    /\ UNCHANGED <<loop_set, i>>

(* Mutant of Readable: the scan tests the watched set, not select()'s copy. *)
ReadableWatched == ready \cap 0 .. nfds

Readable == io \cap ready \cap 0 .. nfds

Select ==
    /\ pc = "select"
    /\ Readable # {}
    /\ ready' = Readable
    /\ i' = 0
    /\ pc' = "scan"
    /\ UNCHANGED <<loop_set, ret>>

(* select() returns -1: loop() returns the result of the last callback. *)
SelectFails ==
    /\ SelectMayFail
    /\ pc = "select"
    /\ pc' = "stopped"
    /\ UNCHANGED <<loop_set, locals>>

(* What the scan still has ahead of it, under the nfds of this instant. *)
Pending == {f \in ready : i <= f /\ f <= nfds}

Dispatch ==
    /\ pc = "scan"
    /\ i' \in Pending
    /\ \A f \in Pending : i' <= f
    /\ pc' = "callback"
    /\ UNCHANGED <<loop_set, ready, ret>>

(* A callback returns: a negative result ends loop(). *)
Return(r) ==
    /\ pc = "callback"
    /\ ret' = r
    /\ IF r < 0 THEN /\ pc' = "stopped"
                     /\ UNCHANGED i
                ELSE /\ pc' = "scan"
                     /\ i' = i + 1
    /\ UNCHANGED <<loop_set, ready>>

IsEmpty == \A f \in 0 .. nfds : f \notin readfds

EndOfPass ==
    /\ pc = "scan"
    /\ Pending = {}

LeaveWhenEmpty ==
    /\ EndOfPass
    /\ IsEmpty
    /\ pc' = "stopped"
    /\ UNCHANGED <<loop_set, locals>>

(* Mutant of NextPass: select() is given what the last one left of the set. *)
NextPassNoCopy ==
    /\ EndOfPass
    /\ ~IsEmpty
    /\ pc' = "select"
    /\ UNCHANGED <<loop_set, locals>>

NextPass ==
    /\ EndOfPass
    /\ ~IsEmpty
    /\ ready' = readfds
    /\ pc' = "select"
    /\ UNCHANGED <<loop_set, i, ret>>

Registering ==
    \/ \E f \in -1 .. FD_SETSIZE, x \in Context \cup {NULL}, c \in Callback \cup {NULL} : Add(f, x, c)
    \/ \E f \in Fd : Remove(f)

Looping == Select \/ Dispatch \/ (\E r \in {-1, 0} : Return(r)) \/ LeaveWhenEmpty \/ NextPass

LoopNext == Enter \/ SelectFails \/ Looping \/ Registering \/ UNCHANGED loopVars

Init == LoopInit /\ io \in SUBSET Fd
Next == io' \in SUBSET Fd /\ LoopNext

Spec == Init /\ [][Next]_vars

(* The thread of loop() keeps running and every callback comes back.  That  *)
(* each callback of the server does so is a property of those callbacks:    *)
(* AmoraServer models the one that may not.                                 *)
FairSpec == Spec /\ WF_loopVars(Looping)

----------------------------------------------------------------------------
(* Properties.                                                              *)

(* nfds covers every watched descriptor and is no higher than it needs to   *)
(* be, and exactly the watched descriptors have a callback.                 *)
LoopSetOK ==
    /\ IsHighest(nfds, readfds)
    /\ \A f \in Fd : callback[f] = NULL <=> f \notin readfds

NextToScan ==
    CASE pc = "scan"     -> i
      [] pc = "callback" -> i + 1
      [] OTHER           -> 0

(* loop_set.callback[fd] is called through without a test (loop.c:59): the  *)
(* scan works on a copy of the set, so what it is about to dispatch must    *)
(* still be registered whatever the earlier callbacks of the pass did.      *)
PendingIsWatched ==
    pc # "stopped" =>
        \A f \in ready : f >= NextToScan => f \in readfds

(* And so no dispatch calls through NULL.                                   *)
NoNullDispatch == [][pc = "scan" /\ pc' = "callback" => callback[i'] # NULL]_vars

(* A pass skips no descriptor that select() reported: not when the scan     *)
(* moves on, and not when it ends, although its bound nfds shrinks when a   *)
(* callback removes the highest descriptor.                                 *)
PassServesAllReady ==
    [][pc = "scan" /\ pc' # "scan" =>
          \A f \in ready : f < i \/ (pc' = "callback" /\ i' <= f)]_vars

Served(f) == pc = "callback" /\ i = f

(* A descriptor that stays watched and readable is served: no other one can *)
(* keep the loop busy for ever.                                             *)
NoStarvation ==
    \A f \in Fd :
        (pc = "select" /\ f \in readfds /\ f \in io)
            ~> (Served(f) \/ f \notin readfds \/ f \notin io \/ pc = "stopped")
=============================================================================
