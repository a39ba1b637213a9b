--------------------------- MODULE StartupProofs ---------------------------
(* Theorems about Startup, for every number of descriptors, every adapter   *)
(* and every failure: whose number a descriptor is, whose callback, and     *)
(* that dispatch finds something to read.                                   *)
(*                                                                          *)
(* What carries the argument is that numbers are only taken when they are   *)
(* free and only released by whoever has them.  hci_close_dev breaks the    *)
(* second half: it releases the number of the adapter.  Early is why that   *)
(* does no harm as long as this is one of the standard descriptors.         *)
(*                                                                          *)
(* The process uses the loop of EventLoop as its callers should, so what    *)
(* EventLoopProofs says of the loop holds here (UsesLoop).                  *)
EXTENDS Startup, TLAPS

AdapterIsLow == HciArgs \cup Routes \subseteq 0 .. 2

Tables ==
    /\ owner \in [Fd -> Kind \cup {NULL}]
    /\ fd \in [Field -> Fd \cup {NoFd, Freed}]
    /\ callback \in [Fd -> Callback \cup {NULL}]
    /\ readfds \subseteq Fd
    /\ args.hci \in HciArgs \cup {-1}

(* Until hci_close_dev the standard descriptors are what they were. *)
Early ==
    at \in {"log", "device", "display", "sd", "hci"} =>
        \A f \in Fd : f \in 0 .. 2 => owner[f] \in Standard

(* Connections are closed by their own callback, which finds them open. *)
Clients ==
    \A f \in Fd : callback[f] = "client_socket_cb" => f \in readfds /\ owner[f] = "client"

Inv == Tables /\ OwnDescriptors /\ Early /\ Clients /\ RightCallback

USE NullAssumption DEF Kind, Field, Standard, Callback, NoFd, Freed

----------------------------------------------------------------------------
(* The kernel's table.                                                      *)

LEMMA FdIsInt == Fd \subseteq Int
  BY DEF Fd

(* What is opened gets a number that was nobody's. *)
LEMMA OpenedKeeps ==
    ASSUME Inv, NEW r \in Field, Opened(r)
    PROVE  /\ owner' \in [Fd -> Kind \cup {NULL}]
           /\ fd' \in [Field -> Fd \cup {NoFd, Freed}]
           /\ OwnDescriptors'
           /\ \A f \in Fd : owner[f] # NULL => owner'[f] = owner[f]
<1>1. PICK f \in Fd : owner[f] = NULL /\ owner' = [owner EXCEPT ![f] = r] /\ fd' = [fd EXCEPT ![r] = f]
  BY DEF Opened, Lowest
<1>2. owner' \in [Fd -> Kind \cup {NULL}] /\ fd' \in [Field -> Fd \cup {NoFd, Freed}]
  BY <1>1 DEF Inv, Tables
<1>3. OwnDescriptors'
  BY <1>1 DEF Inv, Tables, OwnDescriptors
<1>. QED
  BY <1>1, <1>2, <1>3 DEF Inv, Tables

(* What is closed was its own. *)
LEMMA ClosedKeeps ==
    ASSUME Inv, NEW R \in SUBSET Field, Closed(R)
    PROVE  /\ owner' \in [Fd -> Kind \cup {NULL}]
           /\ fd' \in [Field -> Fd \cup {NoFd, Freed}]
           /\ OwnDescriptors'
           /\ \A f \in Fd : owner[f] \notin R => owner'[f] = owner[f]
<1>. DEFINE open == {r \in R : fd[r] # NoFd}
<1>1. /\ owner' = [f \in Fd |-> IF \E r \in open : fd[r] = f THEN NULL ELSE owner[f]]
      /\ fd' = [r \in Field |-> IF r \in open THEN Freed ELSE fd[r]]
  BY DEF Closed
<1>2. \A r \in open : fd[r] \in Fd => owner[fd[r]] = r
  BY DEF Inv, OwnDescriptors
<1>3. owner' \in [Fd -> Kind \cup {NULL}] /\ fd' \in [Field -> Fd \cup {NoFd, Freed}]
  BY <1>1 DEF Inv, Tables
<1>4. \A f \in Fd : owner[f] \notin R => owner'[f] = owner[f]
  BY <1>1, <1>2
<1>5. Freed \notin Fd
  BY DEF Fd
<1>6. ASSUME NEW r \in Field, fd'[r] \in Fd PROVE owner'[fd'[r]] = r
  <2>1. r \notin open /\ fd'[r] = fd[r]
    BY <1>1, <1>5, <1>6
  <2>2. owner[fd[r]] = r
    BY <1>6, <2>1 DEF Inv, OwnDescriptors
  <2>3. ~ \E s \in open : fd[s] = fd[r]
    BY <1>2, <1>6, <2>1, <2>2
  <2>. QED
    BY <1>1, <1>6, <2>1, <2>2, <2>3
<1>. QED
  BY <1>3, <1>4, <1>6 DEF OwnDescriptors

----------------------------------------------------------------------------
(* Steps that leave the registry of the loop as it is.                      *)

Registry == <<readfds, callback>>

(* No watched descriptor is opened or closed. *)
LEMMA SameWatched ==
    ASSUME Inv, UNCHANGED Registry,
           \A f \in Fd : owner[f] = "client" => owner'[f] = owner[f],
           deleted' = 0 =>
               /\ deleted = 0
               /\ \A f \in Fd : owner[f] \in {"conn", "server_socket"} => owner'[f] = owner[f]
    PROVE  Clients' /\ RightCallback'
<1>1. Clients'
  BY DEF Inv, Clients, Registry
<1>2. ASSUME deleted' = 0, NEW f \in readfds'
      PROVE  owner'[f] \in {"conn", "server_socket", "client"} /\ callback'[f] = CallbackOf(owner'[f])
  <2>1. deleted = 0 /\ readfds' = readfds /\ callback' = callback /\ f \in readfds /\ f \in Fd
    BY <1>2 DEF Inv, Tables, Registry
  <2>2. owner[f] \in {"conn", "server_socket", "client"} /\ callback[f] = CallbackOf(owner[f])
    BY <2>1 DEF Inv, RightCallback
  <2>3. owner'[f] = owner[f]
    BY <1>2, <2>1, <2>2
  <2>. QED
    BY <2>1, <2>2, <2>3 DEF CallbackOf
<1>. QED
  BY <1>1, <1>2 DEF RightCallback, CallbackOf

(* Neither goes back. *)
EarlySteps == {"log", "device", "display", "sd", "hci"}
Onward ==
    /\ args' = args
    /\ at' \in EarlySteps => at \in EarlySteps
    /\ deleted' = 0 => deleted = 0

LEMMA SameKeeps ==
    ASSUME Inv, Onward, UNCHANGED <<Registry, owner, fd>>
    PROVE  Inv'
<1>1. Clients' /\ RightCallback'
  BY SameWatched DEF Onward
<1>2. Tables'
  BY DEF Inv, Tables, Onward, Registry
<1>3. OwnDescriptors' /\ Early'
  BY DEF Inv, OwnDescriptors, Early, Onward, EarlySteps
<1>. QED
  BY <1>1, <1>2, <1>3 DEF Inv

LEMMA OpeningKeeps ==
    ASSUME Inv, Onward, UNCHANGED Registry, NEW r \in Field, Opened(r)
    PROVE  Inv'
<1>1. /\ owner' \in [Fd -> Kind \cup {NULL}]
      /\ fd' \in [Field -> Fd \cup {NoFd, Freed}]
      /\ OwnDescriptors'
      /\ \A f \in Fd : owner[f] # NULL => owner'[f] = owner[f]
  BY OpenedKeeps
<1>2. Clients' /\ RightCallback'
  BY <1>1, SameWatched DEF Onward
<1>3. Tables'
  BY <1>1 DEF Inv, Tables, Onward, Registry
<1>4. Early'
  BY <1>1 DEF Inv, Early, Onward, EarlySteps
<1>. QED
  BY <1>1, <1>2, <1>3, <1>4 DEF Inv

LEMMA ClosingKeeps ==
    ASSUME Inv, Onward, UNCHANGED Registry, NEW R \in SUBSET Field, Closed(R),
           deleted' = 0 => R \cap {"conn", "server_socket"} = {}
    PROVE  Inv'
<1>1. /\ owner' \in [Fd -> Kind \cup {NULL}]
      /\ fd' \in [Field -> Fd \cup {NoFd, Freed}]
      /\ OwnDescriptors'
      /\ \A f \in Fd : owner[f] \notin R => owner'[f] = owner[f]
  BY ClosedKeeps
<1>2. Clients' /\ RightCallback'
  <2>1. \A f \in Fd : owner[f] = "client" => owner'[f] = owner[f]
    BY <1>1
  <2>2. deleted' = 0 => \A f \in Fd : owner[f] \in {"conn", "server_socket"} => owner'[f] = owner[f]
    BY <1>1
  <2>. QED
    BY <2>1, <2>2, SameWatched DEF Onward
<1>3. Tables'
  BY <1>1 DEF Inv, Tables, Onward, Registry
<1>4. Early'
  <2>1. \A f \in Fd : owner[f] \in Standard => owner'[f] = owner[f]
    BY <1>1
  <2>. QED
    BY <2>1 DEF Inv, Early, Onward, EarlySteps
<1>. QED
  BY <1>1, <1>2, <1>3, <1>4 DEF Inv

(* hci_close_dev closes a standard descriptor, if any. *)
LEMMA OpenDeviceKeeps ==
    ASSUME AdapterIsLow, Inv, OpenDevice
    PROVE  Inv'
<1>0. Onward /\ UNCHANGED Registry /\ at = "hci"
  BY DEF OpenDevice, Done, Fails, Elsewhere, Building, loopVars, Onward, EarlySteps, Registry
<1>1. CASE UNCHANGED tableVars
  BY <1>0, <1>1, SameKeeps DEF tableVars
<1>2. CASE Done("hci") /\ hci_id' \in (IF args.hci = -1 THEN Routes ELSE {args.hci})
           /\ \E f \in Fd :
              /\ Lowest(f)
              /\ fd' = [fd EXCEPT !["device_socket"] = f]
              /\ owner' = [g \in Fd |-> IF g = hci_id' THEN NULL ELSE IF g = f THEN "device_socket" ELSE owner[g]]
  <2>1. PICK f \in Fd :
              /\ owner[f] = NULL
              /\ fd' = [fd EXCEPT !["device_socket"] = f]
              /\ owner' = [g \in Fd |-> IF g = hci_id' THEN NULL ELSE IF g = f THEN "device_socket" ELSE owner[g]]
    BY <1>2 DEF Lowest
  <2>2. hci_id' \in 0 .. 2
    BY <1>2 DEF AdapterIsLow, Inv, Tables
  <2>3. hci_id' \in Fd => owner[hci_id'] \in Standard
    BY <1>0, <2>2 DEF Inv, Early
  <2>4. f # hci_id'
    BY <2>1, <2>3
  <2>5. Tables'
    BY <1>0, <2>1 DEF Inv, Tables, Onward, Registry
  <2>6. OwnDescriptors'
    BY <2>1, <2>3, <2>4 DEF Inv, Tables, OwnDescriptors
  <2>7. \A g \in Fd : owner[g] \in {"client", "conn", "server_socket"} => owner'[g] = owner[g]
    BY <2>1, <2>3
  <2>8. Clients' /\ RightCallback'
    BY <1>0, <2>7, SameWatched DEF Onward
  <2>9. Early'
    BY <1>2 DEF Done, After, Early
  <2>. QED
    BY <2>5, <2>6, <2>8, <2>9 DEF Inv
<1>. QED
  BY <1>1, <1>2 DEF OpenDevice, Fails

----------------------------------------------------------------------------
(* Steps that change the registry.                                          *)

LEMMA AddKeeps ==
    ASSUME Inv, NEW f, NEW x, NEW c \in Callback, Loop!Add(f, x, c)
    PROVE  \/ UNCHANGED Registry
           \/ /\ f \in Fd
              /\ readfds' = readfds \cup {f}
              /\ callback' = [callback EXCEPT ![f] = c]
<1>1. CASE Loop!Added(f, x, c)
  BY <1>1 DEF Loop!Added, Loop!Fd, Fd
<1>2. CASE Loop!NotAdded(f, c)
  BY <1>2 DEF Loop!NotAdded, Loop!loop_set, Registry
<1>. QED
  BY <1>1, <1>2 DEF Loop!Add

(* A descriptor is watched for what it refers to. *)
LEMMA NewWatch ==
    ASSUME Inv, NEW f \in Fd, NEW c \in Callback,
           readfds' = readfds \cup {f}, callback' = [callback EXCEPT ![f] = c],
           owner'[f] \in {"conn", "server_socket", "client"}, c = CallbackOf(owner'[f]),
           \A h \in Fd \ {f} : owner[h] # NULL => owner'[h] = owner[h],
           deleted' = 0 => deleted = 0
    PROVE  Clients' /\ RightCallback'
<1>1. callback'[f] = c /\ \A h \in Fd \ {f} : callback'[h] = callback[h]
  BY DEF Inv, Tables
<1>2. Clients'
  BY <1>1 DEF Inv, Clients, CallbackOf
<1>3. ASSUME deleted' = 0, NEW h \in readfds'
      PROVE  owner'[h] \in {"conn", "server_socket", "client"} /\ callback'[h] = CallbackOf(owner'[h])
  <2>1. CASE h = f
    BY <1>1, <2>1 DEF CallbackOf
  <2>2. CASE h # f
    <3>1. deleted = 0 /\ h \in readfds /\ h \in Fd \ {f}
      BY <1>3, <2>2 DEF Inv, Tables
    <3>2. owner[h] \in {"conn", "server_socket", "client"} /\ callback[h] = CallbackOf(owner[h])
      BY <3>1 DEF Inv, RightCallback
    <3>3. owner'[h] = owner[h] /\ callback'[h] = callback[h]
      BY <1>1, <3>1, <3>2
    <3>. QED
      BY <3>2, <3>3 DEF CallbackOf
  <2>. QED
    BY <2>1, <2>2
<1>. QED
  BY <1>2, <1>3 DEF RightCallback, CallbackOf

(* The watch of the bus. *)
LEMMA DbusInitKeeps ==
    ASSUME Inv, DbusInit
    PROVE  Inv'
<1>0. Onward
  BY DEF DbusInit, Done, Fails, After, Building, Onward, EarlySteps
<1>1. CASE UNCHANGED loopVars /\ (Opened("conn") \/ UNCHANGED <<owner, fd>>)
  BY <1>0, <1>1, OpeningKeeps, SameKeeps DEF loopVars, Registry
<1>2. CASE Opened("conn") /\ \E f \in Fd : Lowest(f) /\ add_watch(f)
  <2>1. PICK f \in Fd : Lowest(f) /\ add_watch(f)
    BY <1>2
  <2>2. CASE UNCHANGED Registry
    BY <1>0, <1>2, <2>2, OpeningKeeps
  <2>3. CASE readfds' = readfds \cup {f} /\ callback' = [callback EXCEPT ![f] = "dispatch"]
    <3>1. PICK g \in Fd : Lowest(g) /\ owner' = [owner EXCEPT ![g] = "conn"]
      BY <1>2 DEF Opened
    <3>2. f = g
      BY <2>1, <3>1 DEF Lowest, Fd
    <3>3. /\ owner' \in [Fd -> Kind \cup {NULL}]
          /\ fd' \in [Field -> Fd \cup {NoFd, Freed}]
          /\ OwnDescriptors'
          /\ \A h \in Fd : owner[h] # NULL => owner'[h] = owner[h]
      BY <1>2, OpenedKeeps
    <3>4. Tables'
      BY <1>0, <2>3, <3>3 DEF Inv, Tables, Onward
    <3>5. Early'
      BY <1>0, <3>3 DEF Inv, Early, Onward, EarlySteps
    <3>6. owner'[f] = "conn" /\ "dispatch" = CallbackOf(owner'[f])
      BY <3>1, <3>2 DEF Inv, Tables, CallbackOf
    <3>7. Clients' /\ RightCallback'
      BY <1>0, <2>3, <3>3, <3>6, NewWatch DEF Onward
    <3>. QED
      BY <3>3, <3>4, <3>5, <3>7 DEF Inv
  <2>. QED
    BY <2>1, <2>2, <2>3, AddKeeps DEF add_watch
<1>. QED
  BY <1>1, <1>2 DEF DbusInit

LEMMA RegisterServerKeeps ==
    ASSUME Inv, RegisterServer
    PROVE  Inv'
<1>0. Onward /\ UNCHANGED <<owner, fd>>
  BY DEF RegisterServer, Done, After, Building, tableVars, Onward, EarlySteps
<1>. DEFINE f == fd["server_socket"]
<1>1. Loop!Add(f, "amora", "server_socket_cb")
  BY DEF RegisterServer
<1>2. CASE UNCHANGED Registry
  BY <1>0, <1>2, SameKeeps
<1>3. CASE f \in Fd /\ readfds' = readfds \cup {f} /\ callback' = [callback EXCEPT ![f] = "server_socket_cb"]
  <2>1. owner'[f] = "server_socket" /\ "server_socket_cb" = CallbackOf(owner'[f])
    BY <1>0, <1>3 DEF Inv, OwnDescriptors, CallbackOf
  <2>2. Tables' /\ OwnDescriptors' /\ Early'
    BY <1>0, <1>3 DEF Inv, Tables, OwnDescriptors, Early, Onward, EarlySteps
  <2>3. Clients' /\ RightCallback'
    BY <1>0, <1>3, <2>1, NewWatch DEF Onward
  <2>. QED
    BY <2>2, <2>3 DEF Inv
<1>. QED
  BY <1>1, <1>2, <1>3, AddKeeps

(* accept(): the number was free, so that nobody watches it, unless the     *)
(* context was deleted under the loop.                                      *)
LEMMA AcceptKeeps ==
    ASSUME Inv, Accept
    PROVE  Inv'
<1>0. Onward /\ fd' = fd /\ at = "loop"
  BY DEF Accept, InAccept, In, Onward, EarlySteps
<1>1. PICK f \in Fd :
        /\ owner[f] = NULL
        /\ owner' = [owner EXCEPT ![f] = "client"]
        /\ Loop!Add(f, context, "client_socket_cb")
  BY DEF Accept, Lowest
<1>2. owner'[f] = "client" /\ \A h \in Fd \ {f} : owner'[h] = owner[h]
  BY <1>1 DEF Inv, Tables
<1>3. readfds' \subseteq Fd /\ callback' \in [Fd -> Callback \cup {NULL}]
  BY <1>1, AddKeeps DEF Inv, Tables, Registry
<1>4. Tables'
  BY <1>0, <1>1, <1>3 DEF Inv, Tables, Onward
<1>5. OwnDescriptors' /\ Early'
  BY <1>0, <1>1, <1>2 DEF Inv, OwnDescriptors, Early, Onward, EarlySteps
<1>6. Clients' /\ RightCallback'
  <2>1. \A h \in Fd : owner[h] # NULL => owner'[h] = owner[h]
    BY <1>1, <1>2
  <2>2. CASE UNCHANGED Registry
    BY <1>0, <2>1, <2>2, SameWatched DEF Onward
  <2>3. CASE readfds' = readfds \cup {f} /\ callback' = [callback EXCEPT ![f] = "client_socket_cb"]
    <3>1. "client_socket_cb" = CallbackOf(owner'[f])
      BY <1>2 DEF CallbackOf
    <3>. QED
      BY <1>0, <1>2, <2>1, <2>3, <3>1, NewWatch DEF Onward
  <2>. QED
    BY <1>1, <2>2, <2>3, AddKeeps
<1>. QED
  BY <1>4, <1>5, <1>6 DEF Inv

(* What is not watched any more has no callback. *)
LEMMA RemoveKeeps ==
    ASSUME Inv, Onward, fd' = fd, NEW f, Loop!Remove(f),
           owner' \in [Fd -> Kind \cup {NULL}],
           \A h \in Fd \ {f} : owner'[h] = owner[h],
           owner'[f] = owner[f] \/ (owner[f] = "client" /\ at = "loop")
    PROVE  Inv'
<1>1. /\ f \in Fd
      /\ readfds' = readfds \ {f}
      /\ callback' = IF f \in readfds THEN [callback EXCEPT ![f] = NULL] ELSE callback
  BY DEF Loop!Remove, Loop!Removed, Loop!Fd, Fd
<1>2. Tables'
  BY <1>1 DEF Inv, Tables, Onward
<1>3. OwnDescriptors' /\ Early'
  BY <1>1 DEF Inv, OwnDescriptors, Early, Onward, EarlySteps
<1>4. \A h \in Fd \ {f} : callback'[h] = callback[h]
  BY <1>1 DEF Inv, Tables
<1>5. Clients'
  <2>1. callback'[f] # "client_socket_cb"
    BY <1>1 DEF Inv, Tables, Clients
  <2>. QED
    BY <1>1, <1>4, <2>1 DEF Inv, Clients
<1>6. ASSUME deleted' = 0, NEW h \in readfds'
      PROVE  owner'[h] \in {"conn", "server_socket", "client"} /\ callback'[h] = CallbackOf(owner'[h])
  <2>1. deleted = 0 /\ h \in readfds /\ h \in Fd \ {f}
    BY <1>1, <1>6 DEF Inv, Tables, Onward
  <2>2. owner[h] \in {"conn", "server_socket", "client"} /\ callback[h] = CallbackOf(owner[h])
    BY <2>1 DEF Inv, RightCallback
  <2>. QED
    BY <1>4, <2>1, <2>2 DEF CallbackOf
<1>. QED
  BY <1>2, <1>3, <1>5, <1>6 DEF Inv, RightCallback, CallbackOf

LEMMA CloseClientKeeps ==
    ASSUME Inv, CloseClient
    PROVE  Inv'
<1>1. /\ callback[i] = "client_socket_cb" /\ at = "loop"
      /\ Loop!Remove(i)
      /\ owner' = [owner EXCEPT ![i] = NULL]
      /\ fd' = fd
  BY DEF CloseClient, In, Dropped
<1>2. Onward
  BY DEF CloseClient, In, Onward, EarlySteps
<1>3. i \in Fd
  BY <1>1 DEF Loop!Remove, Loop!Removed, Loop!Fd, Fd
<1>4. owner[i] = "client"
  BY <1>1, <1>3 DEF Inv, Clients
<1>5. owner' \in [Fd -> Kind \cup {NULL}] /\ \A h \in Fd \ {i} : owner'[h] = owner[h]
  BY <1>1, <1>3 DEF Inv, Tables
<1>. QED
  BY <1>1, <1>2, <1>4, <1>5, RemoveKeeps

----------------------------------------------------------------------------
(* The inductive invariant.                                                 *)

LEMMA InitInv == Init => Inv
<1>. SUFFICES ASSUME Init PROVE Inv
  OBVIOUS
<1>1. Tables
  BY DEF Init, Loop!LoopInit, Tables, Loop!Fd, Fd
<1>2. OwnDescriptors
  BY DEF Init, OwnDescriptors, Fd
<1>3. Early
  BY DEF Init, Early
<1>4. Clients /\ RightCallback
  BY DEF Init, Loop!LoopInit, Clients, RightCallback, Loop!Fd, Fd
<1>. QED
  BY <1>1, <1>2, <1>3, <1>4 DEF Inv

LEMMA ContextNewKeeps ==
    ASSUME AdapterIsLow, Inv, ContextNew
    PROVE  Inv'
<1>. USE DEF Elsewhere, Building, loopVars, tableVars, Done, Fails, After, Onward, EarlySteps, Registry
<1>1. CASE BuildLog
  BY <1>1, OpeningKeeps, SameKeeps DEF BuildLog
<1>2. CASE CheckDevice
  BY <1>2, SameKeeps DEF CheckDevice
<1>3. CASE ConstructDisplay
  BY <1>3, OpeningKeeps, SameKeeps DEF ConstructDisplay
<1>4. CASE DescribeService
  BY <1>4, OpeningKeeps, SameKeeps DEF DescribeService
<1>5. CASE OpenDevice
  BY <1>5, OpenDeviceKeeps
<1>6. CASE BuildSocket
  BY <1>6, OpeningKeeps, SameKeeps DEF BuildSocket
<1>7. CASE DbusInit
  BY <1>7, DbusInitKeeps
<1>8. CASE RegisterServer
  BY <1>8, RegisterServerKeeps
<1>9. CASE Destroy
  BY <1>9, ClosingKeeps DEF Destroy
<1>10. CASE Cleanup
  BY <1>10, SameKeeps DEF Cleanup
<1>. QED
  BY <1>1, <1>2, <1>3, <1>4, <1>5, <1>6, <1>7, <1>8, <1>9, <1>10 DEF ContextNew

LEMMA LoopStepKeeps ==
    ASSUME Inv, LoopStep
    PROVE  Inv'
<1>1. UNCHANGED Registry
  BY DEF LoopStep, Registry, Loop!Select, Loop!SelectFails, Loop!Dispatch, Loop!LeaveWhenEmpty, Loop!NextPass,
         Loop!loop_set
<1>2. Onward /\ UNCHANGED <<owner, fd>>
  BY DEF LoopStep, Building, tableVars, Onward, EarlySteps
<1>. QED
  BY <1>1, <1>2, SameKeeps

LEMMA DispatchMessageKeeps ==
    ASSUME Inv, DispatchMessage
    PROVE  Inv'
<1>1. Onward /\ UNCHANGED <<owner, fd>>
  BY DEF DispatchMessage, In, tableVars, Onward, EarlySteps
<1>2. CASE UNCHANGED loopVars
  BY <1>1, <1>2, SameKeeps DEF loopVars, Registry
<1>3. CASE toggle_watch
  <2>1. Loop!Remove(fd["conn"])
    BY <1>3 DEF toggle_watch
  <2>2. owner' \in [Fd -> Kind \cup {NULL}] /\ \A h \in Fd : owner'[h] = owner[h]
    BY <1>1 DEF Inv, Tables
  <2>. QED
    BY <1>1, <2>1, <2>2, RemoveKeeps
<1>. QED
  BY <1>2, <1>3 DEF DispatchMessage

LEMMA NextInv == AdapterIsLow /\ Inv /\ [Next]_vars => Inv'
<1>. SUFFICES ASSUME AdapterIsLow, Inv, [Next]_vars PROVE Inv'
  OBVIOUS
<1>. USE DEF Onward, EarlySteps, Registry, tableVars
<1>1. CASE ContextNew
  BY <1>1, ContextNewKeeps
<1>2. CASE Start
  BY <1>2, SameKeeps DEF Start, Building, loopVars, Loop!Enter, Loop!loop_set
<1>3. CASE LoopStep
  BY <1>3, LoopStepKeeps
<1>4. CASE ReadBus
  BY <1>4, SameKeeps DEF ReadBus, loopVars
<1>5. CASE DispatchMessage
  BY <1>5, DispatchMessageKeeps
<1>6. CASE DispatchReturns \/ AcceptFails \/ CallbackReturns
  BY <1>6, SameKeeps DEF DispatchReturns, AcceptFails, CallbackReturns, LeaveWith, Loop!Return, Loop!loop_set
<1>7. CASE Accept
  BY <1>7, AcceptKeeps
<1>8. CASE CloseClient
  BY <1>8, CloseClientKeeps
<1>9. CASE DeleteContext
  BY <1>9, ClosingKeeps DEF DeleteContext, loopVars
<1>10. CASE CloseLog
  BY <1>10, ClosingKeeps DEF CloseLog, loopVars
<1>11. CASE Exit \/ Signal \/ PhoneMoves
  BY <1>11, SameKeeps DEF Exit, Signal, PhoneMoves, loopVars
<1>12. CASE UNCHANGED vars
  BY <1>12, SameKeeps DEF vars, loopVars
<1>. QED
  BY <1>1, <1>2, <1>3, <1>4, <1>5, <1>6, <1>7, <1>8, <1>9, <1>10, <1>11, <1>12 DEF Next, ServerStep, End

----------------------------------------------------------------------------
(* With an adapter below 3 nobody ever closes, or gets from the kernel, the *)
(* number of a descriptor that the context still refers to, whatever fails  *)
(* and in either program: open and close in amora_context_new, on its way   *)
(* out, in the callbacks and in amora_context_delete belong together.       *)
THEOREM NumbersAreOwn ==
    ASSUME AdapterIsLow
    PROVE  Spec => []OwnDescriptors
<1>1. Inv => OwnDescriptors
  BY DEF Inv
<1>2. Inv /\ [Next]_vars => Inv'
  BY NextInv
<1>. QED
  BY <1>1, <1>2, InitInv, PTL DEF Spec

(* And as long as the context is not deleted, the loop calls for a          *)
(* descriptor the callback of what it refers to, although accept() uses the *)
(* numbers of closed connections again at once.                             *)
THEOREM CallbackIsRight ==
    ASSUME AdapterIsLow
    PROVE  Spec => []RightCallback
<1>1. Inv => RightCallback
  BY DEF Inv
<1>2. Inv /\ [Next]_vars => Inv'
  BY NextInv
<1>. QED
  BY <1>1, <1>2, InitInv, PTL DEF Spec

----------------------------------------------------------------------------
(* The one context of the loop.  The bus registers with NULL, and does so   *)
(* before any socket is; this needs no assumption on the adapter.           *)

SocketCallback == {"server_socket_cb", "client_socket_cb"}
BeforeSockets == EarlySteps \cup {"socket", "bus"}

ContextInv ==
    /\ readfds \subseteq Fd /\ ready \subseteq Fd
    /\ callback \in [Fd -> Callback \cup {NULL}]
    /\ pc = "callback" => i \in Fd
    /\ at \in BeforeSockets => \A f \in Fd : callback[f] \notin SocketCallback
    /\ (\E f \in Fd : callback[f] \in SocketCallback) => context = "amora"

(* No socket is registered, and nothing goes back. *)
LEMMA ContextKept ==
    ASSUME ContextInv, readfds' \subseteq Fd, ready' \subseteq Fd,
           callback' \in [Fd -> Callback \cup {NULL}],
           \A f \in Fd : callback'[f] \in SocketCallback => callback'[f] = callback[f],
           context' = context, pc' = "callback" => i' \in Fd,
           at' \in BeforeSockets => at \in BeforeSockets
    PROVE  ContextInv'
  BY DEF ContextInv

LEMMA ContextSame ==
    ASSUME ContextInv, UNCHANGED loopVars, at' \in BeforeSockets => at \in BeforeSockets
    PROVE  ContextInv'
  BY ContextKept DEF ContextInv, loopVars

LEMMA ContextRemove ==
    ASSUME ContextInv, NEW f, Loop!Remove(f), at' \in BeforeSockets => at \in BeforeSockets
    PROVE  ContextInv'
<1>1. /\ f \in Fd
      /\ readfds' = readfds \ {f}
      /\ callback' = IF f \in readfds THEN [callback EXCEPT ![f] = NULL] ELSE callback
      /\ context' = context /\ ready' = ready /\ i' = i /\ pc' = pc
  BY DEF Loop!Remove, Loop!Removed, Loop!locals, Loop!Fd, Fd
<1>. QED
  BY <1>1, ContextKept DEF ContextInv, SocketCallback

LEMMA ContextAdd ==
    ASSUME ContextInv, NEW f, NEW x, NEW c \in Callback, Loop!Add(f, x, c)
    PROVE  /\ ready' = ready /\ i' = i /\ pc' = pc
           /\ \/ UNCHANGED <<readfds, callback, context>>
              \/ /\ f \in Fd /\ context' = x
                 /\ readfds' = readfds \cup {f}
                 /\ callback' = [callback EXCEPT ![f] = c]
<1>1. CASE Loop!Added(f, x, c)
  BY <1>1 DEF Loop!Add, Loop!Added, Loop!locals, Loop!Fd, Fd
<1>2. CASE Loop!NotAdded(f, c)
  BY <1>2 DEF Loop!Add, Loop!NotAdded, Loop!loop_set, Loop!locals
<1>. QED
  BY <1>1, <1>2 DEF Loop!Add

LEMMA ContextNext == ContextInv /\ [Next]_vars => ContextInv'
<1>. SUFFICES ASSUME ContextInv, [Next]_vars PROVE ContextInv'
  OBVIOUS
<1>. USE DEF BeforeSockets, EarlySteps
<1>1. CASE DbusInit
  <2>1. CASE UNCHANGED loopVars
    BY <1>1, <2>1, ContextSame DEF DbusInit, Done, Fails, After
  <2>2. CASE at = "bus" /\ \E f \in Fd : add_watch(f)
    <3>1. PICK f \in Fd : Loop!Add(f, NULL, "dispatch")
      BY <2>2 DEF add_watch
    <3>2. at' \notin BeforeSockets
      BY <1>1 DEF DbusInit, Done, Fails, After
    <3>3. /\ readfds' \subseteq Fd /\ ready' = ready /\ pc' = pc /\ i' = i
          /\ callback' = callback \/ callback' = [callback EXCEPT ![f] = "dispatch"]
      BY <3>1, ContextAdd DEF ContextInv
    <3>4. \A g \in Fd : callback'[g] \notin SocketCallback
      BY <2>2, <3>3 DEF ContextInv, SocketCallback
    <3>. QED
      BY <3>2, <3>3, <3>4 DEF ContextInv
  <2>. QED
    BY <1>1, <2>1, <2>2 DEF DbusInit, Done, Fails
<1>2. CASE RegisterServer
  <2>1. Loop!Add(fd["server_socket"], "amora", "server_socket_cb") /\ at' \notin BeforeSockets
    BY <1>2 DEF RegisterServer, Done, After
  <2>. QED
    BY <2>1, ContextAdd DEF ContextInv
<1>3. CASE Accept
  <2>1. PICK f \in Fd : Loop!Add(f, context, "client_socket_cb")
    BY <1>3 DEF Accept
  <2>2. pc = "callback" /\ callback[i] = "server_socket_cb" /\ at' \notin BeforeSockets
    BY <1>3 DEF Accept, InAccept, In
  <2>3. context = "amora"
    BY <2>2 DEF ContextInv, SocketCallback
  <2>. QED
    BY <2>1, <2>2, <2>3, ContextAdd DEF ContextInv
<1>4. CASE CloseClient
  BY <1>4, ContextRemove DEF CloseClient, Dropped, In
<1>5. CASE DispatchMessage
  BY <1>5, ContextRemove, ContextSame DEF DispatchMessage, toggle_watch, In
<1>6. CASE Start \/ LoopStep
  <2>1. /\ UNCHANGED <<readfds, callback, context>> /\ ready' \subseteq Fd
        /\ pc' = "callback" => i' \in Fd
    <3>1. CASE Start
      BY <3>1 DEF Start, Loop!Enter, Loop!loop_set, ContextInv, loopVars
    <3>2. CASE Loop!Select
      BY <3>2 DEF Loop!Select, Loop!Readable, Loop!loop_set, ContextInv
    <3>3. CASE Loop!Dispatch
      BY <3>3 DEF Loop!Dispatch, Loop!Pending, Loop!loop_set, ContextInv
    <3>4. CASE Loop!SelectFails \/ Loop!LeaveWhenEmpty \/ Loop!NextPass
      BY <3>4 DEF Loop!SelectFails, Loop!LeaveWhenEmpty, Loop!NextPass, Loop!loop_set, Loop!locals, ContextInv
    <3>. QED
      BY <1>6, <3>1, <3>2, <3>3, <3>4 DEF LoopStep
  <2>2. at' \notin BeforeSockets
    BY <1>6 DEF Start, LoopStep
  <2>. QED
    BY <2>1, <2>2, ContextKept DEF ContextInv
<1>7. CASE DispatchReturns \/ AcceptFails \/ CallbackReturns
  <2>1. PICK r \in {-1, 0} : Loop!Return(r)
    BY <1>7 DEF DispatchReturns, AcceptFails, CallbackReturns, LeaveWith
  <2>2. UNCHANGED <<readfds, callback, context, ready>> /\ pc' # "callback"
    BY <2>1 DEF Loop!Return, Loop!loop_set
  <2>3. at' \notin BeforeSockets
    BY <1>7 DEF DispatchReturns, AcceptFails, CallbackReturns, LeaveWith
  <2>. QED
    BY <2>2, <2>3, ContextKept DEF ContextInv
<1>8. CASE \/ BuildLog \/ CheckDevice \/ ConstructDisplay \/ DescribeService \/ OpenDevice \/ BuildSocket
           \/ Destroy \/ Cleanup
  BY <1>8, ContextSame DEF BuildLog, CheckDevice, ConstructDisplay, DescribeService, OpenDevice, BuildSocket,
         Destroy, Cleanup, Done, Fails, After, Elsewhere
<1>9. CASE ReadBus \/ DeleteContext \/ CloseLog \/ Exit \/ Signal \/ PhoneMoves \/ UNCHANGED vars
  BY <1>9, ContextSame DEF ReadBus, DeleteContext, CloseLog, Exit, Signal, PhoneMoves, vars
<1>. QED
  BY <1>1, <1>2, <1>3, <1>4, <1>5, <1>6, <1>7, <1>8, <1>9 DEF Next, ServerStep, ContextNew, End

(* Although the loop keeps one context for all callbacks, and dbus_init     *)
(* sets it to NULL, the callbacks of the sockets are given the server's.    *)
THEOREM SocketsGetContext == Spec => []ContextIsServer
<1>1. Init => ContextInv
  BY DEF Init, Loop!LoopInit, Loop!Fd, Fd, ContextInv, SocketCallback
<1>2. ContextInv => ContextIsServer
  BY DEF ContextInv, ContextIsServer, SocketCallback
<1>. QED
  BY <1>1, <1>2, ContextNext, PTL DEF Spec

----------------------------------------------------------------------------
(* Types.                                                                   *)

LEMMA OpenedType ==
    ASSUME NEW r \in Field, Opened(r), owner \in [Fd -> Kind \cup {NULL}],
           fd \in [Field -> Fd \cup {NoFd, Freed}]
    PROVE  /\ owner' \in [Fd -> Kind \cup {NULL}]
           /\ fd' \in [Field -> Fd \cup {NoFd, Freed}]
           /\ \A s \in Field \ {r} : fd'[s] = fd[s]
<1>1. PICK f \in Fd : owner' = [owner EXCEPT ![f] = r] /\ fd' = [fd EXCEPT ![r] = f]
  BY DEF Opened
<1>. QED
  BY <1>1

LEMMA ClosedType ==
    ASSUME NEW R \in SUBSET Field, Closed(R), owner \in [Fd -> Kind \cup {NULL}],
           fd \in [Field -> Fd \cup {NoFd, Freed}]
    PROVE  /\ owner' \in [Fd -> Kind \cup {NULL}]
           /\ fd' \in [Field -> Fd \cup {NoFd, Freed}]
           /\ \A s \in Field \ R : fd'[s] = fd[s]
  BY DEF Closed

(* TypeOK without the loop's part, and with what was asked for. *)
OwnTypes ==
    /\ args \in [program : Programs, logfile : BOOLEAN, hci : HciArgs \cup {-1}]
    /\ at \in {"log", "device", "display", "sd", "hci", "socket", "bus", "register", "destroy", "cleanup",
               "start", "loop", "ended", "exited"}
    /\ owner \in [Fd -> Kind \cup {NULL}]
    /\ fd \in [Field -> Fd \cup {NoFd, Freed}]
    /\ hci_id \in Routes \cup HciArgs \cup {-1}
    /\ task \in {"idle", "dispatching", "done"}
    /\ bus \subseteq Message /\ inbox \subseteq Message
    /\ dongle_removed \in BOOLEAN
    /\ deleted \in 0 .. 2
    /\ phone \in {"away", "calling", "connected", "gone"}
    /\ context \in {"amora", NULL}

(* The steps that open or close. *)
LEMMA TablesTyped ==
    ASSUME OwnTypes, ContextNew \/ Accept \/ CloseClient \/ End
    PROVE  /\ owner' \in [Fd -> Kind \cup {NULL}]
           /\ fd' \in [Field -> Fd \cup {NoFd, Freed}]
           /\ hci_id' \in Routes \cup HciArgs \cup {-1}
<1>. USE DEF OwnTypes
<1>1. CASE BuildLog \/ ConstructDisplay \/ DescribeService \/ BuildSocket \/ DbusInit
  <2>1. \/ \E r \in Field : Opened(r)
        \/ UNCHANGED <<owner, fd>>
    BY <1>1 DEF BuildLog, ConstructDisplay, DescribeService, BuildSocket, DbusInit
  <2>2. hci_id' = hci_id
    BY <1>1 DEF BuildLog, ConstructDisplay, DescribeService, BuildSocket, DbusInit
  <2>3. owner' \in [Fd -> Kind \cup {NULL}] /\ fd' \in [Field -> Fd \cup {NoFd, Freed}]
    BY <2>1, OpenedType
  <2>. QED
    BY <2>2, <2>3
<1>2. CASE CheckDevice \/ RegisterServer \/ Cleanup \/ Exit
  BY <1>2 DEF CheckDevice, RegisterServer, Cleanup, Exit, tableVars
<1>3. CASE OpenDevice
  <2>1. CASE UNCHANGED tableVars
    BY <2>1 DEF tableVars
  <2>2. CASE /\ hci_id' \in IF args.hci = -1 THEN Routes ELSE {args.hci}
             /\ \E f \in Fd :
                 /\ Lowest(f)
                 /\ fd' = [fd EXCEPT !["device_socket"] = f]
                 /\ owner' = [g \in Fd |-> IF g = hci_id' THEN NULL ELSE IF g = f THEN "device_socket" ELSE owner[g]]
    BY <2>2
  <2>. QED
    BY <1>3, <2>1, <2>2 DEF OpenDevice
<1>4. CASE Destroy \/ DeleteContext \/ CloseLog
  <2>1. \E R \in SUBSET Field : Closed(R)
    BY <1>4 DEF Destroy, DeleteContext, CloseLog
  <2>2. hci_id' = hci_id
    BY <1>4 DEF Destroy, DeleteContext, CloseLog
  <2>. QED
    BY <2>1, <2>2, ClosedType
<1>5. CASE Accept
  <2>1. (\E f \in Fd : owner' = [owner EXCEPT ![f] = "client"]) /\ UNCHANGED <<fd, hci_id>>
    BY <1>5 DEF Accept, InAccept, In
  <2>. QED
    BY <2>1
<1>6. CASE CloseClient
  BY <1>6 DEF CloseClient
<1>. QED
  BY <1>1, <1>2, <1>3, <1>4, <1>5, <1>6 DEF ContextNew, End

(* A registration sets the context to NULL, to "amora" or to what it was.   *)
LEMMA ContextTyped ==
    ASSUME context \in {"amora", NULL}, [Next]_vars
    PROVE  context' \in {"amora", NULL}
<1>1. CASE DbusInit \/ RegisterServer \/ Accept
  <2>1. \/ \E f, x, c : x \in {"amora", NULL} /\ Loop!Add(f, x, c)
        \/ UNCHANGED loopVars
    BY <1>1 DEF DbusInit, RegisterServer, Accept, add_watch
  <2>. QED
    BY <2>1 DEF Loop!Add, Loop!Added, Loop!NotAdded, Loop!loop_set, loopVars
<1>2. CASE \/ BuildLog \/ CheckDevice \/ ConstructDisplay \/ DescribeService \/ OpenDevice \/ BuildSocket
           \/ Destroy \/ Cleanup
  BY <1>2 DEF BuildLog, CheckDevice, ConstructDisplay, DescribeService, OpenDevice, BuildSocket,
         Destroy, Cleanup, Elsewhere, loopVars
<1>3. CASE Start \/ LoopStep
  BY <1>3 DEF Start, LoopStep, Loop!Enter, Loop!Select, Loop!SelectFails, Loop!Dispatch, Loop!LeaveWhenEmpty,
         Loop!NextPass, Loop!loop_set, loopVars
<1>4. CASE DispatchMessage \/ CloseClient
  BY <1>4 DEF DispatchMessage, toggle_watch, CloseClient, Dropped, Loop!Remove, Loop!Removed, loopVars
<1>5. CASE DispatchReturns \/ AcceptFails \/ CallbackReturns
  BY <1>5 DEF DispatchReturns, AcceptFails, CallbackReturns, LeaveWith, Loop!Return, Loop!loop_set
<1>6. CASE ReadBus \/ DeleteContext \/ CloseLog \/ Exit \/ Signal \/ PhoneMoves \/ UNCHANGED vars
  BY <1>6 DEF ReadBus, DeleteContext, CloseLog, Exit, Signal, PhoneMoves, vars, loopVars
<1>. QED
  BY <1>1, <1>2, <1>3, <1>4, <1>5, <1>6 DEF Next, ServerStep, ContextNew, End

LEMMA OwnTypesNext == OwnTypes /\ [Next]_vars => OwnTypes'
<1>. SUFFICES ASSUME OwnTypes, [Next]_vars PROVE OwnTypes'
  OBVIOUS
<1>0. context' \in {"amora", NULL}
  BY ContextTyped DEF OwnTypes
<1>1. CASE ContextNew
  <2>1. UNCHANGED <<args, task, inbox, dongle_removed, deleted, bus, phone>>
    BY <1>1 DEF ContextNew, BuildLog, CheckDevice, ConstructDisplay, DescribeService, OpenDevice, BuildSocket,
           DbusInit, RegisterServer, Destroy, Cleanup, Elsewhere, Building, busVars, world
  <2>2. at' \in {"device", "display", "sd", "hci", "socket", "bus", "register", "start", "cleanup", "destroy", "exited"}
    <3>. USE DEF Done, Fails, After
    <3>1. CASE BuildLog \/ CheckDevice \/ ConstructDisplay \/ DescribeService
      BY <3>1 DEF BuildLog, CheckDevice, ConstructDisplay, DescribeService
    <3>2. CASE OpenDevice \/ BuildSocket \/ DbusInit
      BY <3>2 DEF OpenDevice, BuildSocket, DbusInit
    <3>3. CASE RegisterServer \/ Destroy \/ Cleanup
      BY <3>3 DEF RegisterServer, Destroy, Cleanup
    <3>. QED
      BY <1>1, <3>1, <3>2, <3>3 DEF ContextNew
  <2>3. /\ owner' \in [Fd -> Kind \cup {NULL}]
        /\ fd' \in [Field -> Fd \cup {NoFd, Freed}]
        /\ hci_id' \in Routes \cup HciArgs \cup {-1}
    BY <1>1, TablesTyped
  <2>. QED
    BY <1>0, <2>1, <2>2, <2>3 DEF OwnTypes
<1>2. CASE Accept \/ CloseClient
  <2>1. /\ owner' \in [Fd -> Kind \cup {NULL}]
        /\ fd' \in [Field -> Fd \cup {NoFd, Freed}]
        /\ hci_id' \in Routes \cup HciArgs \cup {-1}
    BY <1>2, TablesTyped
  <2>2. /\ UNCHANGED <<args, at, bus, inbox, dongle_removed, deleted>>
        /\ task' = "done" /\ phone' \in {"connected", "away"}
    BY <1>2 DEF Accept, CloseClient, busVars
  <2>. QED
    BY <1>0, <2>1, <2>2 DEF OwnTypes
<1>3. CASE End
  <2>1. /\ owner' \in [Fd -> Kind \cup {NULL}]
        /\ fd' \in [Field -> Fd \cup {NoFd, Freed}]
        /\ hci_id' \in Routes \cup HciArgs \cup {-1}
    BY <1>3, TablesTyped
  <2>2. /\ UNCHANGED <<args, task, bus, inbox, dongle_removed, phone>>
        /\ deleted' \in {deleted, 1, 2} /\ at' \in {at, "exited"}
    BY <1>3 DEF End, DeleteContext, CloseLog, Exit, busVars, world
  <2>. QED
    BY <1>0, <2>1, <2>2 DEF OwnTypes
<1>4. CASE Start \/ LoopStep
  <2>1. UNCHANGED <<args, owner, fd, hci_id, task, inbox, dongle_removed, deleted, bus, phone>>
    BY <1>4 DEF Start, LoopStep, Building, tableVars, busVars, world
  <2>2. at' \in {"loop", "ended"}
    BY <1>4 DEF Start, LoopStep
  <2>. QED
    BY <1>0, <2>1, <2>2 DEF OwnTypes
<1>5. CASE ReadBus
  BY <1>0, <1>5 DEF ReadBus, tableVars, OwnTypes
<1>6. CASE DispatchMessage
  <2>1. UNCHANGED <<args, at, owner, fd, hci_id, task, deleted, bus, phone>> /\ inbox' \subseteq inbox
    BY <1>6 DEF DispatchMessage, tableVars, world
  <2>2. dongle_removed' \in BOOLEAN
    BY <1>6 DEF DispatchMessage, signal_handler, OwnTypes
  <2>. QED
    BY <1>0, <2>1, <2>2 DEF OwnTypes
<1>7. CASE DispatchReturns \/ AcceptFails \/ CallbackReturns
  <2>1. UNCHANGED <<args, owner, fd, hci_id, inbox, dongle_removed, deleted, bus, phone>>
    BY <1>7 DEF DispatchReturns, AcceptFails, CallbackReturns, LeaveWith, tableVars, busVars, world
  <2>2. at' \in {"loop", "ended"} /\ task' = "idle"
    BY <1>7 DEF DispatchReturns, AcceptFails, CallbackReturns, LeaveWith
  <2>. QED
    BY <1>0, <2>1, <2>2 DEF OwnTypes
<1>8. CASE Signal \/ PhoneMoves
  <2>1. UNCHANGED <<args, at, owner, fd, hci_id, task, inbox, dongle_removed, deleted>>
    BY <1>8 DEF Signal, PhoneMoves, tableVars, busVars
  <2>2. bus' \subseteq Message /\ phone' \in {"away", "calling", "connected", "gone"}
    BY <1>8 DEF Signal, PhoneMoves, OwnTypes
  <2>. QED
    BY <1>0, <2>1, <2>2 DEF OwnTypes
<1>9. CASE UNCHANGED vars
  BY <1>0, <1>9 DEF vars, tableVars, busVars, world, OwnTypes
<1>. QED
  BY <1>1, <1>2, <1>3, <1>4, <1>5, <1>6, <1>7, <1>8, <1>9 DEF Next, ServerStep

LEMMA OwnTypesInvariant == Spec => []OwnTypes
<1>1. ASSUME Init PROVE OwnTypes
  <2>1. owner \in [Fd -> Kind \cup {NULL}]
    <3>1. owner = [f \in Fd |-> CASE f = 0 -> "stdin" [] f = 1 -> "stdout" [] f = 2 -> "stderr" [] OTHER -> NULL]
      BY <1>1 DEF Init
    <3>2. \A f \in Fd : (CASE f = 0 -> "stdin" [] f = 1 -> "stdout" [] f = 2 -> "stderr" [] OTHER -> NULL)
                        \in Kind \cup {NULL}
      OBVIOUS
    <3>. QED
      BY <3>1, <3>2
  <2>2. args \in [program : Programs, logfile : BOOLEAN, hci : HciArgs \cup {-1}]
    BY <1>1 DEF Init
  <2>3. fd \in [Field -> Fd \cup {NoFd, Freed}] /\ context = NULL
    BY <1>1 DEF Init, Loop!LoopInit
  <2>4. /\ at = "log" /\ hci_id = -1 /\ task = "idle" /\ bus = {} /\ inbox = {}
        /\ dongle_removed = FALSE /\ deleted = 0 /\ phone = "away"
    BY <1>1 DEF Init
  <2>5. hci_id \in Routes \cup HciArgs \cup {-1} /\ deleted \in 0 .. 2
    BY <2>4
  <2>6. dongle_removed \in BOOLEAN /\ bus \subseteq Message /\ inbox \subseteq Message
    BY <2>4
  <2>7. context \in {"amora", NULL}
    BY <2>3
  <2>. QED
    BY <2>1, <2>2, <2>3, <2>4, <2>5, <2>6, <2>7 DEF OwnTypes
<1>. QED
  BY <1>1, OwnTypesNext, PTL DEF Spec

----------------------------------------------------------------------------
(* The event loop of the process.                                           *)

LoopProofs == INSTANCE EventLoopProofs WITH
    Context <- {"amora"},
    io <- Readable

LEMMA ReadableIsFd == Readable \subseteq Fd
  BY DEF Readable

(* Every step is one that EventLoop allows the callers of the loop. *)
LEMMA NextLoop == OwnTypes /\ [Next]_vars => [Loop!Next]_(Loop!vars)
<1>. SUFFICES ASSUME OwnTypes, [Next]_vars PROVE Loop!LoopNext
  <2>1. Readable' \in SUBSET Loop!Fd
    BY DEF Readable, Loop!Fd, Fd
  <2>. QED
    BY <2>1 DEF Loop!Next
<1>0. ASSUME NEW f \in Fd \cup {NoFd, Freed}, NEW x \in {"amora", NULL}, NEW c \in Callback, Loop!Add(f, x, c)
      PROVE  Loop!LoopNext
  <2>1. CASE f = Freed
    <3>1. f \notin Loop!Fd
      BY <2>1, LoopAssumption DEF Loop!Fd
    <3>. QED
      BY <1>0, <3>1 DEF Loop!Add, Loop!Added, Loop!NotAdded, Loop!LoopNext, Loop!loopVars
  <2>2. CASE f # Freed
    <3>1. f \in -1 .. FD_SETSIZE
      BY <2>2, LoopAssumption DEF Fd
    <3>. QED
      BY <1>0, <3>1 DEF Loop!LoopNext, Loop!Registering
  <2>. QED
    BY <2>1, <2>2
<1>1. CASE UNCHANGED loopVars
  BY <1>1 DEF loopVars, Loop!LoopNext, Loop!loopVars, Loop!loop_set, Loop!locals
<1>2. CASE DbusInit
  BY <1>0, <1>1, <1>2 DEF DbusInit, add_watch
<1>3. CASE RegisterServer
  BY <1>0, <1>3 DEF RegisterServer, OwnTypes
<1>4. CASE Accept
  BY <1>0, <1>4 DEF Accept, InAccept, OwnTypes
<1>5. CASE Start
  BY <1>1, <1>5 DEF Start, Loop!LoopNext
<1>6. CASE LoopStep
  BY <1>6 DEF LoopStep, Loop!LoopNext, Loop!Looping
<1>7. ASSUME NEW f, Loop!Remove(f) PROVE Loop!LoopNext
  <2>1. f \in Loop!Fd
    BY <1>7 DEF Loop!Remove, Loop!Removed
  <2>. QED
    BY <1>7, <2>1 DEF Loop!LoopNext, Loop!Registering
<1>8. CASE DispatchMessage \/ CloseClient
  BY <1>1, <1>7, <1>8 DEF DispatchMessage, toggle_watch, CloseClient, Dropped
<1>9. CASE DispatchReturns \/ AcceptFails \/ CallbackReturns
  <2>1. \E r \in {-1, 0} : Loop!Return(r)
    BY <1>9 DEF DispatchReturns, AcceptFails, CallbackReturns, LeaveWith
  <2>. QED
    BY <2>1 DEF Loop!LoopNext, Loop!Looping
<1>10. CASE \/ BuildLog \/ CheckDevice \/ ConstructDisplay \/ DescribeService \/ OpenDevice \/ BuildSocket
            \/ Destroy \/ Cleanup
  BY <1>1, <1>10 DEF BuildLog, CheckDevice, ConstructDisplay, DescribeService, OpenDevice, BuildSocket,
         Destroy, Cleanup, Elsewhere
<1>11. CASE ReadBus \/ DeleteContext \/ CloseLog \/ Exit \/ Signal \/ PhoneMoves \/ UNCHANGED vars
  BY <1>1, <1>11 DEF ReadBus, DeleteContext, CloseLog, Exit, Signal, PhoneMoves, vars
<1>. QED
  BY <1>2, <1>3, <1>4, <1>5, <1>6, <1>8, <1>9, <1>10, <1>11 DEF Next, ServerStep, ContextNew, End

LEMMA UsesLoop == Spec => LoopProofs!Spec
<1>1. Init => LoopProofs!Init
  BY ReadableIsFd
  DEF Init, Loop!LoopInit, Loop!Fd, Fd, LoopProofs!Init, LoopProofs!LoopInit, LoopProofs!Fd
<1>2. OwnTypes /\ [Next]_vars => [LoopProofs!Next]_(LoopProofs!vars)
  BY NextLoop
  DEF Loop!Next, LoopProofs!Next, Loop!LoopNext, LoopProofs!LoopNext, Loop!Enter,
      LoopProofs!Enter, Loop!SelectFails, LoopProofs!SelectFails, Loop!Looping,
      LoopProofs!Looping, Loop!Select, LoopProofs!Select, Loop!Dispatch,
      LoopProofs!Dispatch, Loop!Return, LoopProofs!Return, Loop!LeaveWhenEmpty,
      LoopProofs!LeaveWhenEmpty, Loop!NextPass, LoopProofs!NextPass, Loop!Registering,
      LoopProofs!Registering, Loop!Add, LoopProofs!Add, Loop!Added, LoopProofs!Added,
      Loop!NotAdded, LoopProofs!NotAdded, Loop!Remove, LoopProofs!Remove, Loop!Removed,
      LoopProofs!Removed, Loop!Removable, LoopProofs!Removable, Loop!CallerRuns,
      LoopProofs!CallerRuns, Loop!IsHighest, LoopProofs!IsHighest, Loop!Pending,
      LoopProofs!Pending, Loop!EndOfPass, LoopProofs!EndOfPass, Loop!IsEmpty,
      LoopProofs!IsEmpty, Loop!Fd, LoopProofs!Fd, Loop!loop_set, LoopProofs!loop_set,
      Loop!locals, LoopProofs!locals, Loop!loopVars, LoopProofs!loopVars,
      Loop!vars, LoopProofs!vars, Loop!Readable, LoopProofs!Readable
<1>. QED
  BY <1>1, <1>2, OwnTypesInvariant, PTL DEF Spec, LoopProofs!Spec

LEMMA LoopInvariant == Spec => []LoopProofs!LoopInv
<1>1. FD_SETSIZE \in Nat \ {0} /\ NULL \notin Callback /\ SelectMayFail \in BOOLEAN
  BY LoopAssumption
<1>. QED
  BY <1>1, UsesLoop, LoopProofs!LoopInvariant, PTL

LEMMA LoopType == LoopProofs!LoopInv => Loop!TypeOK
  BY DEF LoopProofs!LoopInv, LoopProofs!TypeOK, LoopProofs!Fd, Loop!TypeOK, Loop!Fd

(* The types, whatever fails and whatever the adapter: in particular a      *)
(* field that was freed or never opened is never taken for a descriptor of  *)
(* the loop.                                                                *)
THEOREM TypeCorrect == Spec => []TypeOK
<1>1. OwnTypes /\ Loop!TypeOK => TypeOK
  BY DEF OwnTypes, TypeOK
<1>. QED
  BY <1>1, LoopType, LoopInvariant, OwnTypesInvariant, PTL

(* loop() calls loop_set.callback[fd] without a test: neither the watch    *)
(* that dbus_init registers nor what toggle_watch drops makes that a NULL.  *)
THEOREM StartupNeverNull == Spec => LoopProofs!NoNullDispatch
<1>1. FD_SETSIZE \in Nat \ {0} /\ NULL \notin Callback /\ SelectMayFail \in BOOLEAN
  BY LoopAssumption
<1>. QED
  BY <1>1, UsesLoop, LoopProofs!NeverNull, PTL

(* A pass of loop() also serves the phones and the bus when a toggled      *)
(* watch or a phone that leaves takes descriptors out of the set.          *)
THEOREM StartupServesAll == Spec => LoopProofs!PassServesAllReady
<1>1. FD_SETSIZE \in Nat \ {0} /\ NULL \notin Callback /\ SelectMayFail \in BOOLEAN
  BY LoopAssumption
<1>. QED
  BY <1>1, UsesLoop, LoopProofs!ServesAllReady, PTL

----------------------------------------------------------------------------
(* dispatch finds something to read.                                        *)

(* The watch of the bus is that of its connection, and what select() has    *)
(* reported of it is still there.                                           *)
DispatchInv ==
    /\ at \in BeforeSockets => pc = "stopped" /\ \A f \in Fd : callback[f] # "dispatch"
    /\ \A f \in Fd : callback[f] = "dispatch" => fd["conn"] = f
    /\ pc \in {"scan", "callback"} =>
          \A f \in ready : f >= Loop!NextToScan /\ callback[f] = "dispatch" => bus # {}
    /\ pc = "callback" /\ task = "idle" /\ callback[i] = "dispatch" => bus # {}

(* The loop stays where it is, and no message is read. *)
LEMMA DispatchKept ==
    ASSUME DispatchInv, Loop!TypeOK,
           \A f \in Fd : callback'[f] = "dispatch" => callback[f] = "dispatch",
           fd'["conn"] = fd["conn"], bus \subseteq bus',
           UNCHANGED <<pc, ready, i>>, task' = "idle" => task = "idle",
           at' \in BeforeSockets => at \in BeforeSockets
    PROVE  DispatchInv'
<1>1. ready \subseteq Fd /\ (pc = "callback" => i \in Fd)
  BY DEF Loop!TypeOK, Loop!Fd, Fd
<1>2. bus # {} => bus' # {}
  OBVIOUS
<1>3. Loop!NextToScan' = Loop!NextToScan
  BY DEF Loop!NextToScan
<1>4. /\ at' \in BeforeSockets => pc' = "stopped" /\ \A f \in Fd : callback'[f] # "dispatch"
      /\ \A f \in Fd : callback'[f] = "dispatch" => fd'["conn"] = f
  BY DEF DispatchInv
<1>5. pc' \in {"scan", "callback"} =>
          \A f \in ready' : f >= Loop!NextToScan' /\ callback'[f] = "dispatch" => bus' # {}
  BY <1>1, <1>2, <1>3 DEF DispatchInv
<1>6. pc' = "callback" /\ task' = "idle" /\ callback'[i'] = "dispatch" => bus' # {}
  BY <1>1, <1>2 DEF DispatchInv
<1>. QED
  BY <1>4, <1>5, <1>6 DEF DispatchInv

(* The connection to the bus is opened once and closed by nobody. *)
LEMMA ConnKept ==
    ASSUME OwnTypes, [Next]_vars, ~DbusInit
    PROVE  fd'["conn"] = fd["conn"]
<1>1. CASE \/ \E r \in Field \ {"conn"} : Opened(r)
           \/ \E R \in SUBSET (Field \ {"conn"}) : Closed(R)
           \/ fd' = fd
  BY <1>1, OpenedType, ClosedType DEF OwnTypes
<1>2. CASE OpenDevice
  <2>1. (\E f \in Fd : fd' = [fd EXCEPT !["device_socket"] = f]) \/ fd' = fd
    BY <1>2 DEF OpenDevice, tableVars
  <2>. QED
    BY <2>1 DEF OwnTypes
<1>3. CASE BuildLog \/ CheckDevice \/ ConstructDisplay \/ DescribeService \/ BuildSocket \/ RegisterServer
           \/ Destroy \/ Cleanup
  BY <1>1, <1>3 DEF BuildLog, CheckDevice, ConstructDisplay, DescribeService, BuildSocket, RegisterServer,
         Destroy, Cleanup, tableVars
<1>4. CASE Start \/ LoopStep \/ ReadBus \/ DispatchMessage \/ DispatchReturns \/ Accept \/ AcceptFails
           \/ CloseClient \/ CallbackReturns
  BY <1>4 DEF Start, LoopStep, ReadBus, DispatchMessage, DispatchReturns, Accept, InAccept, AcceptFails,
         CloseClient, CallbackReturns, LeaveWith, Building, tableVars
<1>5. CASE DeleteContext \/ CloseLog \/ Exit \/ Signal \/ PhoneMoves \/ UNCHANGED vars
  BY <1>1, <1>5 DEF DeleteContext, CloseLog, Exit, Signal, PhoneMoves, vars, tableVars
<1>. QED
  BY <1>2, <1>3, <1>4, <1>5 DEF Next, ServerStep, ContextNew, End

LEMMA Later ==
    ASSUME NEW m \in Nat, NEW n \in Nat, NEW f \in Nat, n >= m, f >= n + 1
    PROVE  f >= m
  OBVIOUS

LEMMA DispatchNext ==
    ASSUME Inv, ContextInv, OwnTypes, Loop!TypeOK, DispatchInv, [Next]_vars
    PROVE  DispatchInv'
<1>. USE DEF BeforeSockets, EarlySteps
<1>0. /\ ready \subseteq Fd /\ (pc = "callback" => i \in Fd) /\ i \in Nat
      /\ callback \in [Fd -> Callback \cup {NULL}] /\ Fd \subseteq Nat
  BY LoopAssumption DEF Loop!TypeOK, Loop!Fd, Fd
<1>1. CASE DbusInit
  <2>1. at = "bus" /\ at' \notin BeforeSockets
    BY <1>1 DEF DbusInit, Done, Fails, After
  <2>2. pc = "stopped" /\ \A f \in Fd : callback[f] # "dispatch"
    BY <2>1 DEF DispatchInv
  <2>3. CASE UNCHANGED loopVars
    BY <1>0, <2>1, <2>2, <2>3 DEF DispatchInv, loopVars
  <2>4. CASE Opened("conn") /\ \E f \in Fd : Lowest(f) /\ add_watch(f)
    <3>1. PICK f \in Fd : Lowest(f) /\ Loop!Add(f, NULL, "dispatch")
      BY <2>4 DEF add_watch
    <3>2. fd'["conn"] = f
      <4>1. PICK g \in Fd : Lowest(g) /\ fd' = [fd EXCEPT !["conn"] = g]
        BY <2>4 DEF Opened
      <4>2. g = f
        BY <1>0, <3>1, <4>1 DEF Lowest
      <4>. QED
        BY <4>1, <4>2 DEF OwnTypes
    <3>3. pc' = "stopped" /\ \A g \in Fd : callback'[g] = "dispatch" => g = f
      BY <1>0, <2>2, <3>1, ContextAdd
    <3>. QED
      BY <2>1, <3>2, <3>3 DEF DispatchInv
  <2>. QED
    BY <1>1, <2>3, <2>4 DEF DbusInit
<1>2. ASSUME ~DbusInit PROVE fd'["conn"] = fd["conn"]
  BY <1>2, ConnKept
<1>3. CASE RegisterServer
  <2>1. Loop!Add(fd["server_socket"], "amora", "server_socket_cb") /\ at' \notin BeforeSockets /\ ~DbusInit
        /\ UNCHANGED <<task, bus>>
    BY <1>3 DEF RegisterServer, DbusInit, Done, Fails, After, Building, world
  <2>2. UNCHANGED <<pc, ready, i>> /\ \A f \in Fd : callback'[f] = "dispatch" => callback[f] = "dispatch"
    BY <1>0, <2>1, ContextAdd
  <2>. QED
    BY <1>2, <2>1, <2>2, DispatchKept
<1>4. CASE Accept
  <2>1. PICK f \in Fd : Loop!Add(f, context, "client_socket_cb")
    BY <1>4 DEF Accept
  <2>2. at = "loop" /\ at' = at /\ task' = "done" /\ bus' = bus /\ ~DbusInit
    BY <1>4 DEF Accept, InAccept, In, DbusInit, Done, Fails
  <2>3. UNCHANGED <<pc, ready, i>> /\ \A g \in Fd : callback'[g] = "dispatch" => callback[g] = "dispatch"
    BY <1>0, <2>1, ContextAdd
  <2>. QED
    BY <1>2, <2>2, <2>3, DispatchKept
<1>5. ASSUME NEW f, Loop!Remove(f)
      PROVE  UNCHANGED <<pc, ready, i>> /\ \A g \in Fd : callback'[g] = "dispatch" => callback[g] = "dispatch"
  BY <1>0, <1>5, NullAssumption DEF Loop!Remove, Loop!Removed, Loop!locals
<1>6. CASE CloseClient
  <2>1. Loop!Remove(i) /\ at = "loop" /\ at' = at /\ task' = "done" /\ bus' = bus /\ ~DbusInit
    BY <1>6 DEF CloseClient, Dropped, In, DbusInit, Done, Fails
  <2>. QED
    BY <1>2, <1>5, <2>1, DispatchKept
<1>7. CASE DispatchMessage
  <2>1. at = "loop" /\ at' = at /\ task' = task /\ bus' = bus /\ ~DbusInit
        /\ (Loop!Remove(fd["conn"]) \/ UNCHANGED loopVars)
    BY <1>7 DEF DispatchMessage, toggle_watch, In, DbusInit, Done, Fails, world
  <2>2. UNCHANGED <<pc, ready, i>> /\ \A g \in Fd : callback'[g] = "dispatch" => callback[g] = "dispatch"
    BY <1>5, <2>1 DEF loopVars
  <2>. QED
    BY <1>2, <2>1, <2>2, DispatchKept
<1>8. CASE ReadBus
  <2>1. /\ at = "loop" /\ pc = "callback" /\ callback[i] = "dispatch"
        /\ task' = "dispatching" /\ UNCHANGED <<readfds, callback, ready, i, pc, at, fd>>
    BY <1>8 DEF ReadBus, In, loopVars, tableVars
  <2>2. i \in Fd /\ fd["conn"] = i
    BY <1>0, <2>1 DEF DispatchInv
  <2>3. \A f \in ready : f >= i + 1 => callback[f] # "dispatch"
    <3>1. ASSUME NEW f \in ready, f >= i + 1, callback[f] = "dispatch" PROVE FALSE
      <4>1. f \in Fd /\ f = i
        BY <1>0, <2>2, <3>1 DEF DispatchInv
      <4>. QED
        BY <1>0, <3>1, <4>1
    <3>. QED
      BY <3>1
  <2>4. Loop!NextToScan' = i + 1
    BY <2>1 DEF Loop!NextToScan
  <2>. QED
    BY <2>1, <2>3, <2>4 DEF DispatchInv
<1>9. CASE Start \/ LoopStep
  <2>1. /\ at \notin BeforeSockets /\ at' \notin BeforeSockets
        /\ UNCHANGED <<callback, fd, bus, task>>
    BY <1>9 DEF Start, LoopStep, Building, tableVars, world, Loop!Enter, Loop!Select, Loop!SelectFails,
           Loop!Dispatch, Loop!LeaveWhenEmpty, Loop!NextPass, Loop!loop_set, loopVars
  <2>2. CASE Loop!Select
    <3>1. pc' = "scan" /\ ready' \subseteq Readable /\ ready' \subseteq Fd
      BY <1>0, <2>2 DEF Loop!Select, Loop!Readable
    <3>2. ASSUME NEW f \in ready', callback[f] = "dispatch" PROVE bus # {}
      <4>1. f \in Fd /\ f \in Readable /\ fd["conn"] = f
        BY <3>1, <3>2 DEF DispatchInv
      <4>2. owner[f] = "conn"
        BY <4>1 DEF Inv, OwnDescriptors
      <4>. QED
        BY <4>1, <4>2 DEF Readable
    <3>. QED
      BY <2>1, <3>1, <3>2 DEF DispatchInv
  <2>3. CASE Loop!Dispatch
    <3>1. /\ pc = "scan" /\ pc' = "callback" /\ ready' = ready
          /\ i' \in ready /\ i' >= i
      BY <2>3 DEF Loop!Dispatch, Loop!Pending
    <3>2. Loop!NextToScan = i /\ Loop!NextToScan' = i' + 1
      BY <3>1 DEF Loop!NextToScan
    <3>3. \A f \in ready : f >= i' + 1 => f >= i
      <4>1. i' \in Nat /\ i' >= i
        BY <1>0, <3>1
      <4>2. ASSUME NEW f \in ready, f >= i' + 1 PROVE f >= i
        <5>1. f \in Nat /\ i \in Nat
          BY <1>0
        <5>. QED
          BY <4>1, <4>2, <5>1, Later
      <4>. QED
        BY <4>2
    <3>. QED
      BY <2>1, <3>1, <3>2, <3>3 DEF DispatchInv
  <2>4. CASE Loop!Enter \/ Loop!SelectFails \/ Loop!LeaveWhenEmpty \/ Loop!NextPass
    <3>1. pc' \notin {"scan", "callback"}
      BY <2>4 DEF Loop!Enter, Loop!SelectFails, Loop!LeaveWhenEmpty, Loop!NextPass
    <3>. QED
      BY <2>1, <3>1 DEF DispatchInv
  <2>5. CASE UNCHANGED loopVars
    BY <2>1, <2>5, DispatchKept DEF loopVars
  <2>. QED
    BY <1>9, <2>2, <2>3, <2>4, <2>5 DEF Start, LoopStep
<1>10. CASE DispatchReturns \/ AcceptFails \/ CallbackReturns
  <2>1. PICK r \in {-1, 0} : Loop!Return(r)
    BY <1>10 DEF DispatchReturns, AcceptFails, CallbackReturns, LeaveWith
  <2>2. at' \notin BeforeSockets /\ UNCHANGED <<fd, bus, callback, ready>> /\ pc = "callback"
        /\ (pc' = "stopped" \/ (pc' = "scan" /\ i' = i + 1))
    BY <1>10, <2>1 DEF DispatchReturns, AcceptFails, CallbackReturns, LeaveWith, tableVars, world, Loop!Return,
           Loop!loop_set
  <2>3. pc' = "scan" => Loop!NextToScan' = Loop!NextToScan
    BY <2>2 DEF Loop!NextToScan
  <2>. QED
    BY <2>2, <2>3 DEF DispatchInv
<1>11. CASE \/ BuildLog \/ CheckDevice \/ ConstructDisplay \/ DescribeService \/ OpenDevice \/ BuildSocket
            \/ Destroy \/ Cleanup
  <2>1. UNCHANGED loopVars /\ UNCHANGED <<task, bus>> /\ ~DbusInit
    BY <1>11 DEF BuildLog, CheckDevice, ConstructDisplay, DescribeService, OpenDevice, BuildSocket,
           Destroy, Cleanup, Elsewhere, Building, world, DbusInit, Done, Fails
  <2>2. at' \in BeforeSockets => at \in BeforeSockets
    BY <1>11 DEF BuildLog, CheckDevice, ConstructDisplay, DescribeService, OpenDevice, BuildSocket,
           Destroy, Cleanup, Done, Fails, After
  <2>. QED
    BY <1>2, <2>1, <2>2, DispatchKept DEF loopVars
<1>12. CASE DeleteContext \/ CloseLog \/ Exit \/ Signal \/ PhoneMoves \/ UNCHANGED vars
  <2>1. UNCHANGED loopVars /\ task' = task /\ bus \subseteq bus'
    BY <1>12 DEF DeleteContext, CloseLog, Exit, Signal, PhoneMoves, vars, world
  <2>2. at' \in {at, "exited"}
    BY <1>12 DEF DeleteContext, CloseLog, Exit, Signal, PhoneMoves, vars
  <2>3. CASE DbusInit
    BY <1>1, <2>3
  <2>4. CASE ~DbusInit
    BY <1>2, <2>1, <2>2, <2>4, DispatchKept DEF loopVars
  <2>. QED
    BY <2>3, <2>4
<1>. QED
  BY <1>1, <1>3, <1>4, <1>6, <1>7, <1>8, <1>9, <1>10, <1>11, <1>12 DEF Next, ServerStep, ContextNew, End

(* dispatch waits for the bus without a timeout in the only thread: with an *)
(* adapter below 3, whatever fails and in either program, also when the     *)
(* context is deleted under the loop, what select() found on the bus is     *)
(* still there.  Nothing is said of the callbacks of the sockets: accept()  *)
(* waits for a phone that has given up.                                     *)
THEOREM DispatchHasWork ==
    ASSUME AdapterIsLow
    PROVE  Spec => []DispatchNeverBlocks
<1>1. Init => DispatchInv
  BY DEF Init, Loop!LoopInit, Loop!Fd, Fd, DispatchInv
<1>2. Init => ContextInv
  BY DEF Init, Loop!LoopInit, Loop!Fd, Fd, ContextInv, SocketCallback
<1>3. Inv /\ [Next]_vars => Inv'
  BY NextInv
<1>4. Inv /\ ContextInv /\ OwnTypes /\ Loop!TypeOK /\ DispatchInv /\ [Next]_vars => DispatchInv'
  BY DispatchNext
<1>5. DispatchInv => DispatchNeverBlocks
  BY DEF DispatchInv, DispatchNeverBlocks, In
<1>. QED
  BY <1>1, <1>2, <1>3, <1>4, <1>5, InitInv, ContextNext, OwnTypesInvariant, LoopInvariant, LoopType, PTL DEF Spec
=============================================================================
