-------------------------- MODULE EventLoopProofs --------------------------
(* Proofs about the event loop, for every FD_SETSIZE and every set of       *)
(* callbacks and contexts.                                                  *)
(*                                                                          *)
(* The inductive invariant is LoopInv: types, the agreement of the parts of *)
(* loop_set, and the fact that what the scan has still to visit is watched. *)
(* The last is what carries the argument: it survives a callback because a  *)
(* callback removes no descriptor but its own, and the next position of the *)
(* scan is beyond it.                                                       *)
EXTENDS EventLoop, TLAPS

LoopInv == TypeOK /\ LoopSetOK /\ PendingIsWatched

USE FdSetSizeAssumption, NullAssumption, SelectAssumption DEF Fd

----------------------------------------------------------------------------
(* Facts about the registry.                                                *)

(* The highest of a set of descriptors is unique. *)
LEMMA HighestUnique ==
    ASSUME NEW S \in SUBSET Fd, NEW m \in Fd, NEW n \in Fd,
           IsHighest(m, S), IsHighest(n, S)
    PROVE  m = n
  BY DEF IsHighest

(* loop_add keeps the registry in order. *)
LEMMA AddedKeeps ==
    ASSUME TypeOK, LoopSetOK, NEW f \in -1 .. FD_SETSIZE, NEW x \in Context \cup {NULL},
           NEW c \in Callback \cup {NULL}, Added(f, x, c)
    PROVE  /\ readfds' \subseteq Fd
           /\ callback' \in [Fd -> Callback \cup {NULL}]
           /\ nfds' \in Fd
           /\ context' \in Context \cup {NULL}
           /\ LoopSetOK'
  <1>1. f \in Fd /\ readfds' = readfds \cup {f} /\ nfds' \in Fd
    BY DEF TypeOK, Added
  <1>2. callback' \in [Fd -> Callback \cup {NULL}]
    BY DEF TypeOK, Added
  <1>3. IsHighest(nfds', readfds')
    BY <1>1 DEF TypeOK, LoopSetOK, IsHighest, Added
  <1>4. \A g \in Fd : callback'[g] = NULL <=> g \notin readfds'
    BY <1>1 DEF TypeOK, LoopSetOK, Added
  <1>. QED
    BY <1>1, <1>2, <1>3, <1>4 DEF TypeOK, LoopSetOK, Added

(* loop_remove keeps the registry in order: since nfds covered every        *)
(* watched descriptor, searching up to the old nfds finds the new one.      *)
LEMMA RemovedKeeps ==
    ASSUME TypeOK, LoopSetOK, NEW f \in Fd, Removed(f)
    PROVE  /\ readfds' \subseteq Fd
           /\ callback' \in [Fd -> Callback \cup {NULL}]
           /\ nfds' \in Fd
           /\ context' \in Context \cup {NULL}
           /\ LoopSetOK'
  <1>1. readfds' = readfds \ {f} /\ nfds' \in Fd
    BY DEF Removed
  <1>2. callback' \in [Fd -> Callback \cup {NULL}]
    BY DEF TypeOK, Removed
  <1>3. {g \in readfds' : g <= nfds} = readfds'
    BY <1>1 DEF TypeOK, LoopSetOK, IsHighest
  <1>4. IsHighest(nfds', readfds')
    BY <1>3 DEF Removed
  <1>5. \A g \in Fd : callback'[g] = NULL <=> g \notin readfds'
    BY <1>1 DEF TypeOK, LoopSetOK, Removed
  <1>. QED
    BY <1>1, <1>2, <1>4, <1>5 DEF TypeOK, LoopSetOK, Removed

----------------------------------------------------------------------------
(* The inductive invariant.                                                 *)

LEMMA InitInv == Init => LoopInv
  BY DEF Init, LoopInit, LoopInv, TypeOK, LoopSetOK, IsHighest, PendingIsWatched

LEMMA NextInv == LoopInv /\ [Next]_vars => LoopInv'
<1>. SUFFICES ASSUME LoopInv, [Next]_vars PROVE LoopInv'
  OBVIOUS
<1>. USE DEF LoopInv
<1>io. io' \subseteq Fd
  BY DEF Next, vars, TypeOK
<1>1. CASE Enter
  <2>1. UNCHANGED <<readfds, callback, nfds, context, i>> /\ ready' = readfds /\ ret' = 0 /\ pc' = "select"
    BY <1>1 DEF Enter, loop_set
  <2>. QED
    BY <1>io, <2>1 DEF TypeOK, LoopSetOK, PendingIsWatched
<1>2. CASE SelectFails
  <2>1. UNCHANGED <<readfds, callback, nfds, context, ready, i, ret>> /\ pc' = "stopped"
    BY <1>2 DEF SelectFails, loop_set, locals
  <2>. QED
    BY <1>io, <2>1 DEF TypeOK, LoopSetOK, PendingIsWatched
<1>3. CASE Select
  <2>1. /\ UNCHANGED <<readfds, callback, nfds, context, ret>> /\ pc = "select"
        /\ i' = 0 /\ pc' = "scan" /\ ready' = io \cap ready \cap 0 .. nfds
    BY <1>3 DEF Select, loop_set, Readable
  <2>2. PendingIsWatched'
    BY <2>1 DEF TypeOK, PendingIsWatched, NextToScan
  <2>. QED
    BY <1>io, <2>1, <2>2 DEF TypeOK, LoopSetOK
<1>4. CASE Dispatch
  <2>1. /\ UNCHANGED <<readfds, callback, nfds, context, ready, ret>>
        /\ pc = "scan" /\ pc' = "callback" /\ i' \in Fd /\ i <= i'
    BY <1>4 DEF Dispatch, loop_set, Pending, TypeOK
  <2>2. PendingIsWatched'
    BY <2>1 DEF TypeOK, PendingIsWatched, NextToScan
  <2>. QED
    BY <1>io, <2>1, <2>2 DEF TypeOK, LoopSetOK
<1>5. ASSUME NEW r \in {-1, 0}, Return(r) PROVE LoopInv'
  <2>1. UNCHANGED <<readfds, callback, nfds, context, ready>> /\ ret' = r /\ pc = "callback"
    BY <1>5 DEF Return, loop_set
  <2>2. \/ pc' = "stopped" /\ i' = i
        \/ pc' = "scan" /\ i' = i + 1
    BY <1>5 DEF Return
  <2>3. PendingIsWatched'
    BY <2>1, <2>2 DEF TypeOK, PendingIsWatched, NextToScan
  <2>. QED
    BY <1>5, <1>io, <2>1, <2>2, <2>3 DEF TypeOK, LoopSetOK
<1>6. CASE LeaveWhenEmpty
  <2>1. UNCHANGED <<readfds, callback, nfds, context, ready, i, ret>> /\ pc' = "stopped"
    BY <1>6 DEF LeaveWhenEmpty, loop_set, locals
  <2>. QED
    BY <1>io, <2>1 DEF TypeOK, LoopSetOK, PendingIsWatched
<1>7. CASE NextPass
  <2>1. UNCHANGED <<readfds, callback, nfds, context, i, ret>> /\ ready' = readfds /\ pc' = "select"
    BY <1>7 DEF NextPass, loop_set
  <2>. QED
    BY <1>io, <2>1 DEF TypeOK, LoopSetOK, PendingIsWatched
<1>8. ASSUME NEW f \in -1 .. FD_SETSIZE, NEW x \in Context \cup {NULL}, NEW c \in Callback \cup {NULL},
             Add(f, x, c)
      PROVE  LoopInv'
  <2>1. UNCHANGED <<ready, i, ret, pc>>
    BY <1>8 DEF Add, locals
  <2>2. CASE Added(f, x, c)
    BY <1>io, <2>1, <2>2, AddedKeeps DEF TypeOK, PendingIsWatched, NextToScan, Added
  <2>3. CASE NotAdded(f, c)
    BY <1>io, <2>1, <2>3 DEF TypeOK, LoopSetOK, PendingIsWatched, NextToScan, NotAdded, loop_set
  <2>. QED
    BY <1>8, <2>2, <2>3 DEF Add
<1>9. ASSUME NEW f \in Fd, Remove(f) PROVE LoopInv'
  <2>1. UNCHANGED <<ready, i, ret, pc>> /\ Removed(f)
    BY <1>9 DEF Remove, locals
  <2>2. pc = "callback" => f = i
    BY <1>9 DEF Remove, Removable
  <2>3. PendingIsWatched'
    BY <1>9, <2>1, <2>2 DEF TypeOK, PendingIsWatched, NextToScan, Removed, Remove, CallerRuns
  <2>. QED
    BY <1>io, <2>1, <2>3, RemovedKeeps DEF TypeOK
<1>10. CASE UNCHANGED loopVars
  BY <1>io, <1>10 DEF loopVars, loop_set, locals, TypeOK, LoopSetOK, PendingIsWatched, NextToScan
<1>11. CASE UNCHANGED vars
  BY <1>10, <1>11 DEF vars
<1>. QED
  BY <1>1, <1>2, <1>3, <1>4, <1>5, <1>6, <1>7, <1>8, <1>9, <1>10, <1>11
  DEF Next, LoopNext, Looping, Registering

LEMMA LoopInvariant == Spec => []LoopInv
  BY InitInv, NextInv, PTL DEF Spec

----------------------------------------------------------------------------
(* The results.                                                             *)

(* Every variable of the loop keeps its type, whatever is registered and    *)
(* whatever becomes readable.                                               *)
THEOREM TypeCorrect == Spec => []TypeOK
  BY LoopInvariant, PTL DEF LoopInv

(* nfds is the highest watched descriptor and exactly the watched           *)
(* descriptors have a callback, after any sequence of registrations and     *)
(* removals, in and out of callbacks.                                       *)
THEOREM RegistryCorrect == Spec => []LoopSetOK
  BY LoopInvariant, PTL DEF LoopInv

(* What the scan of the ready descriptors has still to visit is watched.    *)
THEOREM ScanCorrect == Spec => []PendingIsWatched
  BY LoopInvariant, PTL DEF LoopInv

(* The loop never calls through a NULL callback, although it scans a copy   *)
(* of the set that its callbacks change under it.                           *)
THEOREM NeverNull == Spec => NoNullDispatch
<1>1. LoopInv /\ [Next]_vars => [pc = "scan" /\ pc' = "callback" => callback[i'] # NULL]_vars
  <2>. SUFFICES ASSUME LoopInv, Next, pc = "scan", pc' = "callback"
                PROVE  callback[i'] # NULL
    OBVIOUS
  <2>1. Dispatch
    BY DEF Next, LoopNext, Looping, Registering, Enter, SelectFails, Select, Return, LeaveWhenEmpty,
           NextPass, Add, Remove, CallerRuns, loopVars
  <2>2. i' \in readfds
    BY <2>1 DEF LoopInv, TypeOK, PendingIsWatched, NextToScan, Dispatch, Pending
  <2>. QED
    BY <2>2 DEF LoopInv, TypeOK, LoopSetOK
<1>. QED
  BY <1>1, LoopInvariant, PTL DEF Spec, NoNullDispatch

(* A pass serves every descriptor that select() reported, in order, unless  *)
(* a callback fails: a shrinking nfds never hides a ready descriptor.       *)
THEOREM ServesAllReady == Spec => PassServesAllReady
<1>1. LoopInv /\ [Next]_vars =>
        [pc = "scan" /\ pc' # "scan" =>
            \A f \in ready : f < i \/ (pc' = "callback" /\ i' <= f)]_vars
  <2>. SUFFICES ASSUME LoopInv, Next, pc = "scan", pc' # "scan", NEW f \in ready
                PROVE  f < i \/ (pc' = "callback" /\ i' <= f)
    OBVIOUS
  <2>1. f \in Fd /\ i \in Nat /\ nfds \in Fd
    BY DEF LoopInv, TypeOK
  <2>2. f >= i => f \in Pending
    BY <2>1 DEF LoopInv, TypeOK, PendingIsWatched, NextToScan, LoopSetOK, IsHighest, Pending
  <2>3. Dispatch \/ LeaveWhenEmpty \/ NextPass
    BY DEF Next, LoopNext, Looping, Registering, Enter, SelectFails, Select, Return,
           Add, Remove, CallerRuns, loopVars
  <2>4. CASE Dispatch
    BY <2>1, <2>2, <2>4 DEF Dispatch
  <2>5. CASE LeaveWhenEmpty \/ NextPass
    BY <2>1, <2>2, <2>5 DEF LeaveWhenEmpty, NextPass, EndOfPass
  <2>. QED
    BY <2>3, <2>4, <2>5
<1>. QED
  BY <1>1, LoopInvariant, PTL DEF Spec, PassServesAllReady
=============================================================================
