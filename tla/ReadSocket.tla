----------------------------- MODULE ReadSocket -----------------------------
(* read_socket of amora-cli/src/bluecode.c and the cutting of its buffer    *)
(* into lines by process_events of amora.c, byte by byte, for one           *)
(* connection: AmoraServer has the same two functions for whole lines.      *)
(*                                                                          *)
(* The phone sends the bytes 1 .. TOTAL, each named by its place in the     *)
(* stream; the bytes in Ends are newlines.  0 is the NUL byte.              *)
EXTENDS Integers, Sequences

CONSTANTS
    BUF_SIZE,     \* the buffer of process_events, its closing NUL included
    TOTAL,        \* bound: the bytes of the stream
    Ends,         \* those that end a line
    Deliveries,   \* how bytes may arrive: "lines" unbroken, or as "bytes"
    Endings       \* how read() may report that the phone left: "error", "eof"

ASSUME SizeAssumption   == BUF_SIZE \in Nat /\ BUF_SIZE >= 2
ASSUME StreamAssumption == TOTAL \in Nat /\ Ends \subseteq 1 .. TOTAL
ASSUME ModeAssumption   == Deliveries \subseteq {"lines", "bytes"} /\ Endings \subseteq {"error", "eof"}

VARIABLES
    delivery, ending,   \* chosen once
    arrived,    \* bytes that have reached the socket
    taken,      \* bytes that read() has returned
    cuts,       \* history: where a read() ended in the middle of a line
    left,       \* whether the phone has closed its end
    data,       \* the buffer
    res,        \* bytes read by this call of read_socket
    length,     \* room that read_socket believes is left
    handed,     \* the bytes of all the lines given to treat_events
    pc

network == <<delivery, ending, arrived, left>>
stream  == <<taken, cuts>>
call    == <<data, res, length>>
vars    == <<network, stream, call, handed, pc>>

Index == 0 .. BUF_SIZE - 1

(* Types; what is handed over are bytes of the stream, never a NUL. *)
TypeOK ==
    /\ arrived \in 0 .. TOTAL
    /\ taken \in 0 .. arrived
    /\ cuts \subseteq (1 .. taken) \ Ends
    /\ left \in BOOLEAN
    /\ data \in [Index -> 0 .. TOTAL]
    /\ res \in Nat
    /\ length \in Int
    /\ handed \in Seq(1 .. TOTAL)
    /\ pc \in {"idle", "test", "read", "cut", "closed"}

Init ==
    /\ delivery \in Deliveries
    /\ ending \in Endings
    /\ arrived = 0
    /\ taken = 0
    /\ cuts = {}
    /\ left = FALSE
    /\ data = [k \in Index |-> 0]
    /\ res = 0
    /\ length = 0
    /\ handed = <<>>
    /\ pc = "idle"

----------------------------------------------------------------------------
(* The phone and the network.                                               *)

(* Bytes reach the socket whatever the server does: while it sends a        *)
(* picture lines pile up there, more of them than its buffer holds.         *)
Arrive ==
    /\ ~left
    /\ arrived' \in arrived + 1 .. TOTAL
    /\ delivery = "lines" => arrived' \in Ends
    /\ UNCHANGED <<delivery, ending, left, stream, call, handed, pc>>

Leave ==
    /\ ~left
    /\ left' = TRUE
    /\ UNCHANGED <<delivery, ending, arrived, stream, call, handed, pc>>

----------------------------------------------------------------------------
(* read_socket.                                                             *)

(* The text of the buffer goes up to its first NUL. *)
Text  == {k \in Index : \A j \in 0 .. k : data[j] # 0}
Break == {k \in Text : data[k] \in Ends}

(* Mutant of Call: the whole buffer is offered to read(). *)
CallFullLength ==
    /\ pc = "idle"
    /\ arrived > taken \/ left
    /\ data' = [k \in Index |-> 0]
    /\ res' = 0
    /\ length' = BUF_SIZE
    /\ pc' = "test"
    /\ UNCHANGED <<network, stream, handed>>

(* select() found the socket readable and process_events calls. *)
Call ==
    /\ pc = "idle"
    /\ arrived > taken \/ left
    /\ data' = [k \in Index |-> 0]
    /\ res' = 0
    /\ length' = BUF_SIZE - 1
    /\ pc' = "test"
    /\ UNCHANGED <<network, stream, handed>>

(* Mutant of WantsMore: a newline does not end the reading. *)
WantsMoreAlways == res < length

WantsMore == Break = {} /\ res < length

Again ==
    /\ pc = "test"
    /\ WantsMore
    /\ pc' = "read"
    /\ UNCHANGED <<network, stream, call, handed>>

(* read() returns n bytes; they go to the start of the buffer, and the room *)
(* that is left shrinks by all that this call has read.                     *)
Counted(n) ==
    /\ res' = res + n
    /\ length' = length - res'
    /\ pc' = "test"

Lesser(m, n) == IF m < n THEN m ELSE n

Read ==
    /\ pc = "read"
    /\ arrived > taken
    /\ LET n == Lesser(length, arrived - taken)
       IN  /\ data' = [k \in Index |-> IF k < n THEN taken + k + 1 ELSE data[k]]
           /\ taken' = taken + n
           /\ cuts' = cuts \cup ({taken'} \ Ends)
           /\ Counted(n)
    /\ UNCHANGED <<network, handed>>

AtEnd == pc = "read" /\ arrived = taken /\ left

ReadFails ==
    /\ AtEnd
    /\ ending = "error"
    /\ pc' = "closed"
    /\ UNCHANGED <<network, stream, call, handed>>

(* Mutant of ReadNothing: the call returns what it has. *)
ReadNothingReturns ==
    /\ AtEnd
    /\ ending = "eof"
    /\ pc' = "cut"
    /\ UNCHANGED <<network, stream, call, handed>>

ReadNothing ==
    /\ AtEnd
    /\ ending = "eof"
    /\ Counted(0)
    /\ UNCHANGED <<network, stream, data, handed>>

(* The closing NUL is written and the number of bytes returned. *)
Return ==
    /\ pc = "test"
    /\ ~WantsMore
    /\ data' = [data EXCEPT ![res] = 0]
    /\ pc' = "cut"
    /\ UNCHANGED <<network, stream, res, length, handed>>

----------------------------------------------------------------------------
(* process_events: each line of the buffer is treated, and what follows the *)
(* last newline is forgotten.  Without a newline the result is still -1 and *)
(* the connection is closed.                                                *)
CutPastLine ==   \* Mutant of CutLines: the line is one byte too long.
    /\ pc = "cut"
    /\ \E m \in Break :
        /\ \A k \in Break : k <= m
        /\ handed' = handed \o [k \in 1 .. m + 2 |-> data[k - 1]]
    /\ pc' = "idle"
    /\ UNCHANGED <<network, stream, call>>

CutFirstLine ==   \* Mutant of CutLines: the lines after the first are forgotten.
    /\ pc = "cut"
    /\ \E m \in Break :
        /\ \A k \in Break : m <= k
        /\ handed' = handed \o [k \in 1 .. m + 1 |-> data[k - 1]]
    /\ pc' = "idle"
    /\ UNCHANGED <<network, stream, call>>

CutLines ==
    /\ pc = "cut"
    /\ \E m \in Break :
        /\ \A k \in Break : k <= m
        /\ handed' = handed \o [k \in 1 .. m + 1 |-> data[k - 1]]
    /\ pc' = "idle"
    /\ UNCHANGED <<network, stream, call>>

CutNothing ==
    /\ pc = "cut"
    /\ Break = {}
    /\ pc' = "closed"
    /\ UNCHANGED <<network, stream, call, handed>>

ServerStep == Call \/ Again \/ Read \/ ReadFails \/ ReadNothing \/ Return \/ CutLines \/ CutNothing

Next == Arrive \/ Leave \/ ServerStep

Spec == Init /\ [][Next]_vars

FairSpec == Spec /\ WF_vars(ServerStep)

----------------------------------------------------------------------------
(* Properties.                                                              *)

(* Memory safety by arithmetic that only just works: length loses the bytes *)
(* of earlier reads again and again, yet what read() may write and where    *)
(* the closing NUL goes is always inside the buffer.                        *)
InBuffer ==
    /\ pc = "read" => 0 < length /\ length <= BUF_SIZE - 1
    /\ pc \in {"test", "cut"} => res \in Index

(* read_socket never returns 0: the case that process_events makes of it    *)
(* (amora.c:44) does not arise.                                             *)
NeverZero == pc = "cut" => res > 0

(* What read_socket loses, exactly.  A byte is treated when the newline of  *)
(* its line was returned by the same read(), and is lost when that read()   *)
(* ended before the newline: because it had not arrived, or because more    *)
(* was pending than the buffer holds.  No byte is treated twice or out of   *)
(* order, and a phone whose lines arrive unbroken, each of which fits the   *)
(* buffer, is not taken for one that has failed: its connection is closed   *)
(* only when it has left and all that it sent has been read.                *)
Kept(k) == \A c \in cuts : k <= c => (k .. c) \cap Ends # {}

Ascending == \A i, j \in DOMAIN handed : i < j => handed[i] < handed[j]

ExactUpTo(last) == \A k \in 1 .. last : (\E i \in DOMAIN handed : handed[i] = k) <=> Kept(k)

LinesFit == \A k \in 1 .. TOTAL - BUF_SIZE + 2 : (k .. k + BUF_SIZE - 2) \cap Ends # {}

LossIsAtCuts ==
    /\ Ascending
    /\ pc \in {"idle", "closed"} => ExactUpTo(taken)
    /\ delivery = "lines" /\ LinesFit /\ pc = "closed" => left /\ taken = arrived

(* The header says of any line: a new line ends a command.  If it did, what *)
(* is treated would be the stream, from its first byte on.                  *)
LinesIntact == \A k \in DOMAIN handed : handed[k] = k

(* read_socket comes back to the loop when lines arrive unbroken and read() *)
(* fails once the phone has left.                                           *)
CallReturns ==
    (delivery = "lines" /\ ending = "error" /\ pc = "test") ~> pc \in {"idle", "closed"}

(* The end of a connection is reported to the caller of read_socket, which  *)
(* closes it.                                                               *)
EndIsReported == left ~> pc = "closed"
=============================================================================
