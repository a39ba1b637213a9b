-------------------------- MODULE ReadSocketProofs --------------------------
(* Proofs about read_socket, for every buffer size and every stream.        *)
(*                                                                          *)
(* RoomInv carries the memory safety: what has been read and the room that  *)
(* read_socket believes is left never exceed the buffer together, because a *)
(* read of n <= length bytes makes their sum the old length.  ReadInv       *)
(* carries what is lost and what is not: a further read() overwrites bytes  *)
(* that hold no newline, so the newlines of the buffer are always those of  *)
(* the last read(), and what is cut out are the first of its bytes.         *)
EXTENDS ReadSocket, SequenceTheorems, TLAPS

USE SizeAssumption, StreamAssumption, ModeAssumption DEF Index

(* Nothing read leaves the buffer clear; the sum of bytes and room fits. *)
RoomInv ==
    /\ TypeOK
    /\ InBuffer
    /\ NeverZero
    /\ pc \in {"test", "read"} =>
          /\ res + length <= BUF_SIZE - 1
          /\ res = 0 => length = BUF_SIZE - 1 /\ \A k \in Index : data[k] = 0

LEMMA InitRoom == Init => RoomInv
<1>. SUFFICES ASSUME Init PROVE RoomInv
  OBVIOUS
<1>1. data \in [Index -> 0 .. TOTAL]
  BY DEF Init
<1>2. handed \in Seq(1 .. TOTAL)
  BY DEF Init
<1>3. arrived = 0 /\ taken = 0 /\ cuts = {} /\ res = 0 /\ length = 0 /\ pc = "idle"
  BY DEF Init
<1>4. left \in BOOLEAN
  BY DEF Init
<1>5. arrived \in 0 .. TOTAL /\ taken \in 0 .. arrived /\ cuts \subseteq (1 .. taken) \ Ends /\ res \in Nat /\ length \in Int
  BY <1>3
<1>6. TypeOK
  BY <1>1, <1>2, <1>3, <1>4, <1>5 DEF TypeOK
<1>. QED
  BY <1>3, <1>6 DEF RoomInv, InBuffer, NeverZero

(* A read() of n bytes keeps the bytes read and the room within the buffer. *)
LEMMA CountedKeeps ==
    ASSUME RoomInv, pc = "read", NEW n \in Nat, n <= length, Counted(n)
    PROVE  /\ res' \in Index
           /\ length' \in Int
           /\ res' + length' <= BUF_SIZE - 1
           /\ n = 0 => res' = res /\ (res = 0 => length' = length)
           /\ n > 0 => res' > 0
<1>1. res \in Nat /\ length \in Int /\ res + length <= BUF_SIZE - 1
  BY DEF RoomInv, TypeOK
<1>2. res' = res + n /\ length' = length - res'
  BY DEF Counted
<1>. QED
  BY <1>1, <1>2

LEMMA NextRoom == RoomInv /\ [Next]_vars => RoomInv'
<1>. SUFFICES ASSUME RoomInv, [Next]_vars PROVE RoomInv'
  OBVIOUS
<1>. USE DEF RoomInv
<1>1. CASE Arrive
  BY <1>1 DEF Arrive, stream, call, TypeOK, InBuffer, NeverZero
<1>2. CASE Leave
  BY <1>2 DEF Leave, stream, call, TypeOK, InBuffer, NeverZero
<1>3. CASE Call
  BY <1>3 DEF Call, network, stream, TypeOK, InBuffer, NeverZero
<1>4. CASE Again
  BY <1>4 DEF Again, WantsMore, network, stream, call, TypeOK, InBuffer, NeverZero
<1>5. CASE Read
  <2>. DEFINE n == Lesser(length, arrived - taken)
  <2>1. n \in Nat /\ 0 < n /\ n <= length /\ n <= arrived - taken
    BY <1>5 DEF Read, Lesser, TypeOK, InBuffer
  <2>2. /\ data' = [k \in Index |-> IF k < n THEN taken + k + 1 ELSE data[k]]
        /\ taken' = taken + n /\ Counted(n)
        /\ cuts' = cuts \cup ({taken'} \ Ends)
    BY <1>5 DEF Read
  <2>3. UNCHANGED <<delivery, ending, arrived, left, handed>> /\ pc = "read" /\ pc' = "test"
    BY <1>5 DEF Read, network, Counted
  <2>. HIDE DEF n
  <2>4. /\ res' \in Index /\ length' \in Int
        /\ res' + length' <= BUF_SIZE - 1 /\ res' > 0
    BY <2>1, <2>2, <2>3, CountedKeeps
  <2>5. data' \in [Index -> 0 .. TOTAL]
    BY <2>1, <2>2 DEF TypeOK
  <2>6. taken' \in 0 .. arrived' /\ cuts' \subseteq (1 .. taken') \ Ends
    BY <2>1, <2>2, <2>3 DEF TypeOK
  <2>7. TypeOK'
    BY <2>3, <2>4, <2>5, <2>6 DEF TypeOK
  <2>8. InBuffer' /\ NeverZero'
    BY <2>3, <2>4 DEF InBuffer, NeverZero
  <2>9. ~(res' = 0)
    BY <2>4
  <2>. QED
    BY <2>4, <2>7, <2>8, <2>9
<1>6. CASE ReadFails
  BY <1>6 DEF ReadFails, network, stream, call, TypeOK, InBuffer, NeverZero
<1>7. CASE ReadNothing
  <2>1. UNCHANGED <<delivery, ending, arrived, left, taken, cuts, data, handed>> /\ pc = "read" /\ pc' = "test"
    BY <1>7 DEF ReadNothing, AtEnd, network, stream, Counted
  <2>2. /\ res' \in Index /\ length' \in Int /\ res' = res
        /\ res' + length' <= BUF_SIZE - 1
        /\ res = 0 => length' = length
    BY <1>7, <2>1, CountedKeeps, 0 <= length DEF ReadNothing, InBuffer, TypeOK
  <2>. QED
    BY <2>1, <2>2 DEF TypeOK, InBuffer, NeverZero
<1>8. CASE Return
  <2>1. UNCHANGED <<delivery, ending, arrived, left, taken, cuts, res, length, handed>>
    BY <1>8 DEF Return, network, stream
  <2>2. pc = "test" /\ pc' = "cut" /\ res \in Index /\ data' = [data EXCEPT ![res] = 0]
    BY <1>8 DEF Return, InBuffer
  <2>3. res > 0
    <3>1. SUFFICES ASSUME res = 0 PROVE FALSE
      BY DEF TypeOK
    <3>2. Text = {}
      BY <2>2, <3>1 DEF Text
    <3>. QED
      BY <1>8, <2>2, <3>1, <3>2 DEF Return, WantsMore, Break
  <2>. QED
    BY <2>1, <2>2, <2>3 DEF TypeOK, InBuffer, NeverZero
<1>9. CASE CutLines
  <2>1. UNCHANGED <<delivery, ending, arrived, left, taken, cuts, data, res, length>> /\ pc' = "idle"
    BY <1>9 DEF CutLines, network, stream, call
  <2>2. PICK m \in Break : handed' = handed \o [k \in 1 .. m + 1 |-> data[k - 1]]
    BY <1>9 DEF CutLines
  <2>3. m \in Index /\ \A k \in 1 .. m + 1 : data[k - 1] \in 1 .. TOTAL
    BY DEF Break, Text, TypeOK
  <2>4. [k \in 1 .. m + 1 |-> data[k - 1]] \in Seq(1 .. TOTAL)
    BY <2>3
  <2>5. handed' \in Seq(1 .. TOTAL)
    BY <2>2, <2>4, ConcatProperties DEF TypeOK
  <2>. QED
    BY <2>1, <2>5 DEF TypeOK, InBuffer, NeverZero
<1>10. CASE CutNothing
  BY <1>10 DEF CutNothing, network, stream, call, TypeOK, InBuffer, NeverZero
<1>11. CASE UNCHANGED vars
  BY <1>11 DEF vars, network, stream, call, TypeOK, InBuffer, NeverZero
<1>. QED
  BY <1>1, <1>2, <1>3, <1>4, <1>5, <1>6, <1>7, <1>8, <1>9, <1>10, <1>11 DEF Next, ServerStep

LEMMA RoomInvariant == Spec => []RoomInv
  BY InitRoom, NextRoom, PTL DEF Spec

----------------------------------------------------------------------------
(* The types hold for every stream. *)
THEOREM TypeCorrect == Spec => []TypeOK
  BY RoomInvariant, PTL DEF RoomInv

(* However the bytes of a stream arrive, and whatever the size of the       *)
(* buffer, read() is given room inside it and the closing NUL is too.       *)
THEOREM MemorySafe == Spec => []InBuffer
  BY RoomInvariant, PTL DEF RoomInv

(* read_socket never returns 0. *)
THEOREM ZeroIsNeverReturned == Spec => []NeverZero
  BY RoomInvariant, PTL DEF RoomInv
----------------------------------------------------------------------------
(* What is lost.                                                            *)

HandedUpTo(last) == \A i \in DOMAIN handed : handed[i] <= last

Unbroken == delivery = "lines" /\ LinesFit

(* The last read() returned n bytes.  They are at the start of the buffer,  *)
(* no newline follows them, what came before them has been dealt with, and  *)
(* when unbroken lines fit the buffer a newline is among them.              *)
LastRead(n) ==
    /\ n <= res /\ n <= taken
    /\ \A k \in Index : IF k < n THEN data[k] = taken - n + k + 1 ELSE data[k] \notin Ends
    /\ ExactUpTo(taken - n) /\ HandedUpTo(taken - n)
    /\ \A c \in cuts : c <= taken - n \/ c = taken
    /\ Unbroken /\ res > 0 => \E k \in Index : k < n /\ data[k] \in Ends

ReadInv ==
    /\ Ascending
    /\ taken \in cuts \cup Ends \cup {0}
    /\ pc \in {"idle", "closed"} => ExactUpTo(taken) /\ HandedUpTo(taken)
    /\ pc \in {"test", "read", "cut"} => \E n \in Nat : LastRead(n)
    /\ pc = "read" => Break = {}
    /\ Unbroken => arrived \in Ends \cup {0} /\ (pc = "closed" => left /\ taken = arrived)

LEMMA InitRead == Init => ReadInv
  BY DEF Init, ReadInv, Ascending, ExactUpTo, HandedUpTo, Unbroken

(* The newlines of the buffer are those of the last read(). *)
LEMMA BreakIs ==
    ASSUME TypeOK, InBuffer, pc \in {"test", "cut"} \/ (pc = "read" /\ res \in Index),
           NEW n \in Nat, LastRead(n)
    PROVE  Break = {k \in Index : k < n /\ data[k] \in Ends}
<1>1. \A k \in Index : k < n => data[k] # 0
  BY DEF TypeOK, LastRead
<1>2. \A k \in Index : k < n => k \in Text
  BY <1>1 DEF Text
<1>. QED
  BY <1>2 DEF Break, Text, LastRead

(* When there is none, all that has been read has been dealt with: the last *)
(* read() ended in a cut and no newline lies between its bytes and that.    *)
LEMMA NothingKept ==
    ASSUME TypeOK, NEW n \in Nat, LastRead(n), n <= BUF_SIZE - 1,
           taken \in cuts \cup Ends \cup {0},
           \A k \in Index : k < n => data[k] \notin Ends
    PROVE  ExactUpTo(taken) /\ HandedUpTo(taken)
<1>1. taken \in Nat /\ n <= taken /\ handed \in Seq(1 .. TOTAL)
  BY DEF TypeOK, LastRead
<1>2. HandedUpTo(taken - n) /\ ExactUpTo(taken - n)
  BY DEF LastRead
<1>3. ASSUME NEW e \in taken - n + 1 .. taken PROVE e \notin Ends
  <2>1. e - (taken - n) - 1 \in Index /\ e - (taken - n) - 1 < n
    BY <1>1, <1>3
  <2>2. data[e - (taken - n) - 1] = e
    BY <1>1, <1>3, <2>1 DEF LastRead
  <2>. QED
    BY <2>1, <2>2
<1>4. n > 0 => taken \in cuts
  BY <1>1, <1>3
<1>5. ASSUME NEW k \in taken - n + 1 .. taken
      PROVE  ~Kept(k) /\ ~(\E i \in DOMAIN handed : handed[i] = k)
  <2>1. n > 0 /\ taken \in cuts /\ k <= taken
    BY <1>1, <1>4, <1>5
  <2>2. (k .. taken) \cap Ends = {}
    BY <1>1, <1>3, <1>5
  <2>3. \A i \in DOMAIN handed : handed[i] <= taken - n /\ handed[i] \in Int
    BY <1>1, <1>2 DEF HandedUpTo
  <2>. QED
    BY <1>1, <1>5, <2>1, <2>2, <2>3 DEF Kept
<1>6. ExactUpTo(taken)
  BY <1>1, <1>2, <1>5 DEF ExactUpTo
<1>7. HandedUpTo(taken)
  BY <1>1, <1>2 DEF HandedUpTo
<1>. QED
  BY <1>6, <1>7

(* A later read() changes nothing of that, wherever it ends. *)
LEMMA KeptLater ==
    ASSUME TypeOK, taken \in cuts \cup Ends \cup {0}, NEW k \in 1 .. taken,
           NEW t \in Nat, taken <= t, cuts' = cuts \cup ({t} \ Ends)
    PROVE  Kept(k) <=> Kept(k)'
<1>1. taken \in Nat /\ taken # 0
  BY DEF TypeOK
<1>2. ASSUME Kept(k) PROVE (k .. t) \cap Ends # {}
  <2>1. taken \in Ends \/ (k .. taken) \cap Ends # {}
    BY <1>1, <1>2 DEF Kept
  <2>2. \A e \in k .. taken : e \in k .. t
    BY <1>1
  <2>. QED
    BY <1>1, <2>1, <2>2
<1>3. Kept(k) => Kept(k)'
  BY <1>2 DEF Kept
<1>4. Kept(k)' => Kept(k)
  BY DEF Kept
<1>. QED
  BY <1>3, <1>4

(* A step that leaves what was read and handed over leaves what was lost. *)
LEMMA SameLoss ==
    ASSUME UNCHANGED <<stream, handed>>
    PROVE  /\ Ascending' <=> Ascending
           /\ \A last \in Int : ExactUpTo(last)' <=> ExactUpTo(last)
           /\ \A last \in Int : HandedUpTo(last)' <=> HandedUpTo(last)
  BY DEF stream, Ascending, ExactUpTo, HandedUpTo, Kept

LEMMA NextRead == RoomInv /\ RoomInv' /\ ReadInv /\ [Next]_vars => ReadInv'
<1>. SUFFICES ASSUME RoomInv, RoomInv', ReadInv, [Next]_vars PROVE ReadInv'
  OBVIOUS
<1>0. UNCHANGED <<delivery, ending>> /\ Unbroken' = Unbroken
  BY DEF Next, ServerStep, Arrive, Leave, Call, Again, Read, ReadFails, ReadNothing, Return,
         CutLines, CutNothing, network, vars, Unbroken, LinesFit
<1>t. TypeOK /\ InBuffer /\ NeverZero /\ TypeOK' /\ taken \in Nat
  <2>1. TypeOK /\ InBuffer /\ NeverZero /\ TypeOK'
    BY DEF RoomInv
  <2>2. TypeOK
    BY DEF RoomInv
  <2>3. taken \in Nat
    BY <2>2 DEF TypeOK
  <2>. QED
    BY <2>1, <2>3
<1>w. /\ Ascending
      /\ taken \in cuts \cup Ends \cup {0}
      /\ pc \in {"idle", "closed"} => ExactUpTo(taken) /\ HandedUpTo(taken)
      /\ pc \in {"test", "read", "cut"} => \E n \in Nat : LastRead(n)
      /\ pc = "read" => Break = {}
      /\ Unbroken => arrived \in Ends \cup {0} /\ (pc = "closed" => left /\ taken = arrived)
  BY DEF ReadInv
<1>i. pc \in {"test", "read", "cut"} => res \in Index
  <2>1. res \in Nat /\ length \in Int
    BY <1>t DEF TypeOK
  <2>. QED
    BY <1>t, <2>1 DEF RoomInv, InBuffer
<1>b. ASSUME pc \in {"test", "read", "cut"}, Break = {}
      PROVE  /\ \A k \in Index : data[k] \notin Ends
             /\ ExactUpTo(taken) /\ HandedUpTo(taken)
             /\ Unbroken => res = 0
  <2>1. PICK n \in Nat : LastRead(n)
    BY <1>b, <1>w
  <2>2. \A k \in Index : k < n => data[k] \notin Ends
    BY <1>b, <1>i, <1>t, <2>1, BreakIs
  <2>3. n <= BUF_SIZE - 1
    BY <1>b, <1>i, <2>1 DEF LastRead
  <2>4. ExactUpTo(taken) /\ HandedUpTo(taken)
    BY <1>t, <1>w, <2>1, <2>2, <2>3, NothingKept
  <2>5. \A k \in Index : data[k] \notin Ends
    BY <2>1, <2>2 DEF LastRead
  <2>6. Unbroken /\ res > 0 => FALSE
    BY <2>1, <2>5 DEF LastRead
  <2>. QED
    BY <1>b, <1>i, <2>4, <2>5, <2>6
<1>1. CASE Arrive
  <2>1. UNCHANGED <<stream, data, res, handed, pc>>
    BY <1>1 DEF Arrive, call
  <2>2. pc = "closed" => ~Unbroken
    BY <1>1, <1>w DEF Arrive
  <2>3. UNCHANGED <<taken, cuts, Break>>
    BY <2>1 DEF stream, Break, Text
  <2>4. Unbroken => arrived' \in Ends
    BY <1>1, <1>0 DEF Arrive, Unbroken
  <2>5. \A n \in Nat : LastRead(n) => LastRead(n)'
    BY <1>0, <1>t, <2>1, <2>3, SameLoss DEF LastRead
  <2>. QED
    BY <1>0, <1>t, <1>w, <2>1, <2>2, <2>3, <2>4, <2>5, SameLoss DEF ReadInv
<1>2. CASE Leave
  <2>1. UNCHANGED <<stream, data, res, handed, pc, arrived>> /\ left'
    BY <1>2 DEF Leave, call
  <2>2. UNCHANGED <<taken, cuts, Break>>
    BY <2>1 DEF stream, Break, Text
  <2>3. \A n \in Nat : LastRead(n) => LastRead(n)'
    BY <1>0, <1>t, <2>1, <2>2, SameLoss DEF LastRead
  <2>. QED
    BY <1>0, <1>t, <1>w, <2>1, <2>2, <2>3, SameLoss DEF ReadInv
<1>3. CASE Call
  <2>1. UNCHANGED <<stream, handed, arrived, left>> /\ pc = "idle" /\ pc' = "test"
    BY <1>3 DEF Call, network
  <2>2. data' = [k \in Index |-> 0] /\ res' = 0 /\ UNCHANGED <<taken, cuts>>
    BY <1>3, <2>1 DEF Call, stream
  <2>3. (ExactUpTo(taken) /\ HandedUpTo(taken))'
    BY <1>t, <1>w, <2>1, <2>2, SameLoss
  <2>4. LastRead(0)'
    BY <1>t, <2>2, <2>3 DEF LastRead, TypeOK
  <2>. QED
    BY <1>0, <1>t, <1>w, <2>1, <2>2, <2>4, SameLoss DEF ReadInv
<1>4. CASE Again
  <2>1. UNCHANGED <<stream, handed, arrived, left, data, res>> /\ pc = "test" /\ pc' = "read"
    BY <1>4 DEF Again, network, call
  <2>2. UNCHANGED <<taken, cuts, Break>> /\ Break = {}
    BY <1>4, <2>1 DEF Again, WantsMore, stream, Break, Text
  <2>3. \A n \in Nat : LastRead(n) => LastRead(n)'
    BY <1>0, <1>t, <2>1, <2>2, SameLoss DEF LastRead
  <2>. QED
    BY <1>0, <1>t, <1>w, <2>1, <2>2, <2>3, SameLoss DEF ReadInv
<1>5. CASE Read
  <2>0. length \in Int /\ arrived \in 0 .. TOTAL /\ arrived - taken \in Nat /\ handed \in Seq(1 .. TOTAL)
    BY <1>t DEF TypeOK
  <2>r. pc = "read" /\ pc' = "test" /\ arrived > taken /\ 0 < length /\ length <= BUF_SIZE - 1
    BY <1>5, <1>t DEF Read, Counted, InBuffer
  <2>. DEFINE got == Lesser(length, arrived - taken)
  <2>g. got \in Nat
    BY <2>0, <2>r DEF Lesser
  <2>n. PICK n \in Nat : n = got
    BY <2>g
  <2>1. /\ 0 < n /\ n <= length /\ n <= arrived - taken /\ n <= BUF_SIZE - 1
        /\ n = length \/ n = arrived - taken
    BY <1>t, <2>0, <2>r, <2>n DEF Lesser
  <2>2. /\ data' = [k \in Index |-> IF k < n THEN taken + k + 1 ELSE data[k]]
        /\ taken' = taken + n /\ res' = res + n
        /\ cuts' = cuts \cup ({taken'} \ Ends)
    BY <1>5, <2>n DEF Read, Counted
  <2>3. UNCHANGED <<arrived, left, handed>>
    BY <1>5 DEF Read, network
  <2>4. Unbroken => n = BUF_SIZE - 1 \/ n = arrived - taken
    <3>1. Unbroken => res = 0
      BY <1>b, <1>w, <2>r
    <3>2. res = 0 => length = BUF_SIZE - 1
      BY <2>r DEF RoomInv
    <3>. QED
      BY <2>1, <3>1, <3>2
  <2>5. taken' \in Nat /\ taken <= taken' /\ taken' - n = taken /\ n <= taken' /\ taken' <= TOTAL
    BY <1>t, <2>0, <2>1, <2>2
  <2>6. \A c \in cuts' : c <= taken' - n \/ c = taken'
    BY <1>t, <2>2, <2>5 DEF TypeOK
  <2>7. \A k \in Index : IF k < n THEN data'[k] = taken + k + 1 ELSE data'[k] \notin Ends
    BY <1>b, <1>w, <2>2, <2>r
  <2>8. ASSUME Unbroken PROVE \E k \in Index : k < n /\ data'[k] \in Ends
    <3>1. \E e \in taken + 1 .. taken + n : e \in Ends
      <4>1. CASE n = arrived - taken
        <5>1. arrived \in Ends /\ arrived = taken + n
          BY <1>t, <1>w, <2>0, <2>r, <2>8, <4>1
        <5>. QED
          BY <1>t, <2>1, <5>1
      <4>2. CASE n = BUF_SIZE - 1
        <5>1. taken + 1 \in 1 .. TOTAL - BUF_SIZE + 2
          BY <1>t, <2>0, <2>1, <4>2
        <5>2. (taken + 1 .. taken + 1 + BUF_SIZE - 2) \cap Ends # {}
          BY <2>8, <5>1 DEF Unbroken, LinesFit
        <5>. QED
          BY <1>t, <4>2, <5>2
      <4>. QED
        BY <2>4, <2>8, <4>1, <4>2
    <3>2. PICK e \in taken + 1 .. taken + n : e \in Ends
      BY <3>1
    <3>3. PICK k \in Nat : k = e - taken - 1
      BY <1>t, <3>2
    <3>4. k \in Index /\ k < n /\ taken + k + 1 = e
      BY <1>t, <2>1, <3>2, <3>3
    <3>. QED
      BY <2>7, <3>2, <3>4
  <2>9. \A k \in 1 .. taken : Kept(k) <=> Kept(k)'
    BY <1>t, <1>w, <2>2, <2>5, KeptLater
  <2>10. ExactUpTo(taken) /\ HandedUpTo(taken)
    BY <1>b, <1>w, <2>r
  <2>11. ExactUpTo(taken - n)' /\ HandedUpTo(taken - n)'
    <3>1. ExactUpTo(taken - n)'
      BY <2>3, <2>5, <2>9, <2>10 DEF ExactUpTo
    <3>2. HandedUpTo(taken - n)'
      BY <2>3, <2>5, <2>10 DEF HandedUpTo
    <3>. QED
      BY <3>1, <3>2
  <2>12. n <= res'
    BY <1>t, <2>2 DEF TypeOK
  <2>13. \A k \in Index : IF k < n THEN data'[k] = taken' - n + k + 1 ELSE data'[k] \notin Ends
    BY <2>5, <2>7
  <2>14. LastRead(n)'
    BY <1>0, <2>5, <2>6, <2>8, <2>11, <2>12, <2>13 DEF LastRead
  <2>15. taken' \in cuts' \cup Ends
    BY <2>2
  <2>16. Ascending'
    BY <1>w, <2>3 DEF Ascending
  <2>. QED
    BY <1>0, <1>w, <2>r, <2>3, <2>14, <2>15, <2>16 DEF ReadInv
<1>6. CASE ReadFails
  <2>1. UNCHANGED <<stream, handed, arrived, left>> /\ pc = "read" /\ pc' = "closed" /\ left /\ arrived = taken
    BY <1>6 DEF ReadFails, AtEnd, network
  <2>2. UNCHANGED <<taken, cuts>> /\ ExactUpTo(taken) /\ HandedUpTo(taken)
    BY <1>b, <1>w, <2>1 DEF stream
  <2>. QED
    BY <1>0, <1>t, <1>w, <2>1, <2>2, SameLoss DEF ReadInv
<1>7. CASE ReadNothing
  <2>1. UNCHANGED <<stream, handed, arrived, left, data>> /\ pc = "read" /\ pc' = "test" /\ res' = res + 0
    BY <1>7 DEF ReadNothing, AtEnd, network, Counted
  <2>2. UNCHANGED <<taken, cuts, res>>
    BY <1>t, <2>1 DEF stream, TypeOK
  <2>3. \A n \in Nat : LastRead(n) => LastRead(n)'
    BY <1>0, <1>t, <2>1, <2>2, SameLoss DEF LastRead
  <2>. QED
    BY <1>0, <1>t, <1>w, <2>1, <2>2, <2>3, SameLoss DEF ReadInv
<1>8. CASE Return
  <2>1. UNCHANGED <<stream, handed, arrived, left, res>> /\ pc = "test" /\ pc' = "cut"
    BY <1>8 DEF Return, network
  <2>2. UNCHANGED <<taken, cuts>> /\ data' = [data EXCEPT ![res] = 0] /\ res \in Index
    BY <1>8, <1>t, <2>1 DEF Return, stream, InBuffer
  <2>3. ASSUME NEW n \in Nat, LastRead(n) PROVE LastRead(n)'
    <3>1. n <= res
      BY <2>3 DEF LastRead
    <3>2. \A k \in Index : k < n => data'[k] = data[k]
      BY <1>t, <2>2, <3>1 DEF TypeOK
    <3>3. \A k \in Index : ~(k < n) => data'[k] \notin Ends
      BY <1>t, <2>2, <2>3 DEF TypeOK, LastRead
    <3>. QED
      BY <1>0, <1>t, <2>1, <2>2, <2>3, <3>2, <3>3, SameLoss DEF LastRead
  <2>. QED
    BY <1>0, <1>t, <1>w, <2>1, <2>2, <2>3, SameLoss DEF ReadInv
<1>9. CASE CutLines
  <2>1. UNCHANGED <<stream, taken, cuts, arrived, left>> /\ pc = "cut" /\ pc' = "idle"
    BY <1>9 DEF CutLines, network, stream, call
  <2>2. PICK m \in Break : (\A k \in Break : k <= m) /\ handed' = handed \o [k \in 1 .. m + 1 |-> data[k - 1]]
    BY <1>9 DEF CutLines
  <2>3. PICK n \in Nat : LastRead(n)
    BY <1>w, <2>1
  <2>4. Break = {k \in Index : k < n /\ data[k] \in Ends}
    BY <1>t, <2>1, <2>3, BreakIs
  <2>5. /\ n <= taken /\ m \in Index /\ m < n /\ data[m] \in Ends
        /\ \A k \in Index : k < n => data[k] = taken - n + k + 1
    BY <2>2, <2>3, <2>4 DEF LastRead
  <2>. DEFINE first == taken - n
              line == [k \in 1 .. m + 1 |-> data[k - 1]]
  <2>6. first \in Nat /\ line \in Seq(1 .. TOTAL) /\ Len(line) = m + 1 /\ \A k \in 1 .. m + 1 : line[k] = first + k
    <3>1. \A k \in 1 .. m + 1 : k - 1 \in Index /\ k - 1 < n
      BY <2>5
    <3>2. ASSUME NEW k \in 1 .. m + 1 PROVE data[k - 1] = first + k /\ data[k - 1] \in 1 .. TOTAL
      <4>1. data[k - 1] = first + (k - 1) + 1 /\ k - 1 \in Index
        BY <2>5, <3>1
      <4>2. first + (k - 1) + 1 = first + k /\ first + k > 0
        BY <1>t, <2>5
      <4>3. data[k - 1] \in 0 .. TOTAL
        BY <1>t, <4>1 DEF TypeOK
      <4>. QED
        BY <4>1, <4>2, <4>3
    <3>3. first \in Nat /\ m + 1 \in Nat
      BY <1>t, <2>5
    <3>. HIDE DEF first
    <3>. QED
      BY <3>2, <3>3
  <2>7. ExactUpTo(first) /\ HandedUpTo(first) /\ \A c \in cuts : c <= first \/ c = taken
    BY <2>3 DEF LastRead
  <2>8. handed \in Seq(1 .. TOTAL) /\ handed' = handed \o line
    BY <1>t, <2>2 DEF TypeOK
  <2>. HIDE DEF first, line
  <2>9. /\ Len(handed) \in Nat /\ Len(handed') = Len(handed) + m + 1
        /\ DOMAIN handed = 1 .. Len(handed) /\ DOMAIN handed' = 1 .. Len(handed')
        /\ \A k \in 1 .. Len(handed) : handed'[k] = handed[k] /\ handed[k] \in Int
        /\ \A k \in Len(handed) + 1 .. Len(handed') : handed'[k] = first + (k - Len(handed))
    <3>1. /\ handed' \in Seq(1 .. TOTAL) /\ Len(handed') = Len(handed) + Len(line)
          /\ \A k \in 1 .. Len(handed) + Len(line) :
                handed'[k] = IF k <= Len(handed) THEN handed[k] ELSE line[k - Len(handed)]
      BY <2>6, <2>8, ConcatProperties
    <3>2. /\ Len(handed) \in Nat /\ Len(handed') \in Nat /\ m + 1 \in Nat
          /\ DOMAIN handed = 1 .. Len(handed) /\ DOMAIN handed' = 1 .. Len(handed')
          /\ \A k \in 1 .. Len(handed) : handed[k] \in Int
      BY <2>5, <2>8, <3>1
    <3>3. Len(handed') = Len(handed) + m + 1
      BY <2>5, <2>6, <3>1, <3>2
    <3>4. \A k \in 1 .. Len(handed) : handed'[k] = handed[k]
      BY <2>6, <3>1, <3>2
    <3>5. ASSUME NEW k \in Len(handed) + 1 .. Len(handed') PROVE handed'[k] = first + (k - Len(handed))
      <4>1. k - Len(handed) \in 1 .. m + 1 /\ ~(k <= Len(handed)) /\ k \in 1 .. Len(handed) + Len(line)
        BY <2>6, <3>1, <3>2, <3>3
      <4>. QED
        BY <2>6, <3>1, <4>1
    <3>. QED
      BY <3>2, <3>3, <3>4, <3>5
  <2>m. m \in Nat /\ first \in Nat
    BY <2>5, <2>6
  <2>o. \A i \in DOMAIN handed : i \in DOMAIN handed' /\ handed'[i] = handed[i] /\ handed[i] \in Int
    BY <2>9, <2>m
  <2>n. ASSUME NEW i \in DOMAIN handed', i \notin DOMAIN handed
        PROVE  handed'[i] \in first + 1 .. first + m + 1
    <3>1. i \in Len(handed) + 1 .. Len(handed) + m + 1
      BY <2>9, <2>m, <2>n
    <3>2. handed'[i] = first + (i - Len(handed))
      BY <2>9, <3>1
    <3>. QED
      BY <2>9, <2>m, <3>1, <3>2
  <2>10. Ascending'
    <3>1. SUFFICES ASSUME NEW i \in DOMAIN handed', NEW j \in DOMAIN handed', i < j
                  PROVE  handed'[i] < handed'[j]
      BY DEF Ascending
    <3>2. CASE j \in DOMAIN handed
      BY <1>w, <2>9, <2>o, <3>1, <3>2 DEF Ascending
    <3>3. CASE i \in DOMAIN handed /\ j \notin DOMAIN handed
      <4>1. handed'[i] = handed[i] /\ handed[i] \in Int /\ handed[i] <= first
        BY <2>7, <2>o, <3>3 DEF HandedUpTo
      <4>2. handed'[j] \in first + 1 .. first + m + 1
        BY <2>n, <3>1, <3>3
      <4>. QED
        BY <2>m, <4>1, <4>2
    <3>4. CASE i \notin DOMAIN handed /\ j \notin DOMAIN handed
      <4>1. /\ i \in Len(handed) + 1 .. Len(handed') /\ j \in Len(handed) + 1 .. Len(handed')
        BY <2>9, <2>m, <3>1, <3>4
      <4>2. handed'[i] = first + (i - Len(handed)) /\ handed'[j] = first + (j - Len(handed))
        BY <2>9, <4>1
      <4>. QED
        BY <2>9, <2>m, <3>1, <4>1, <4>2
    <3>5. i \notin DOMAIN handed => j \notin DOMAIN handed
      BY <2>9, <2>m, <3>1
    <3>. QED
      BY <3>2, <3>3, <3>4, <3>5
  <2>11. first + m + 1 <= taken
    BY <1>t, <2>5, <2>6 DEF first
  <2>12. HandedUpTo(taken)'
    <3>1. SUFFICES ASSUME NEW i \in DOMAIN handed' PROVE handed'[i] <= taken
      BY <2>1 DEF HandedUpTo
    <3>2. CASE i \in DOMAIN handed
      BY <1>t, <2>m, <2>7, <2>o, <2>11, <3>2 DEF HandedUpTo
    <3>3. CASE i \notin DOMAIN handed
      BY <1>t, <2>m, <2>n, <2>11, <3>1, <3>3
    <3>. QED
      BY <3>2, <3>3
  <2>13. first + m + 1 \in Ends
    BY <1>t, <2>5, <2>6 DEF first
  <2>14. \A e \in first + m + 2 .. taken : e \notin Ends
    <3>1. SUFFICES ASSUME NEW e \in first + m + 2 .. taken, e \in Ends PROVE FALSE
      OBVIOUS
    <3>2. n <= BUF_SIZE - 1
      BY <1>t, <2>1, <2>3 DEF LastRead, InBuffer
    <3>3. e - first - 1 \in Index /\ e - first - 1 < n /\ e - first - 1 > m
      BY <1>t, <2>5, <2>6, <3>1, <3>2 DEF first
    <3>4. data[e - first - 1] = e
      BY <1>t, <2>5, <2>6, <3>1, <3>3 DEF first
    <3>5. e - first - 1 \in Break
      BY <2>4, <3>1, <3>3, <3>4
    <3>. QED
      BY <2>2, <2>5, <3>3, <3>5
  <2>15. ASSUME NEW k \in 1 .. taken
         PROVE  (\E i \in DOMAIN handed' : handed'[i] = k) <=> Kept(k)
    <3>1. CASE k <= first
      <4>1. (\E i \in DOMAIN handed' : handed'[i] = k) <=> (\E i \in DOMAIN handed : handed[i] = k)
        <5>1. \A i \in DOMAIN handed' : handed'[i] = k => i \in DOMAIN handed
          BY <2>m, <2>n, <3>1
        <5>. QED
          BY <2>o, <5>1
      <4>. QED
        BY <2>6, <2>7, <3>1, <4>1 DEF ExactUpTo
    <3>2. CASE k > first /\ k <= first + m + 1
      <4>1. \A c \in cuts : k <= c => c = taken
        BY <1>t, <2>6, <2>7, <3>2 DEF TypeOK
      <4>2. first + m + 1 \in k .. taken
        BY <1>t, <2>5, <2>6, <2>11, <3>2
      <4>3. Kept(k)
        BY <2>13, <4>1, <4>2 DEF Kept
      <4>i. Len(handed) + (k - first) \in Nat
        BY <2>9, <2>m, <3>2
      <4>4. PICK i \in Nat : i = Len(handed) + (k - first)
        BY <4>i
      <4>5. i \in Len(handed) + 1 .. Len(handed') /\ first + (i - Len(handed)) = k
        BY <2>9, <2>m, <3>2, <4>4
      <4>6. i \in DOMAIN handed' /\ handed'[i] = k
        BY <2>9, <4>5
      <4>. QED
        BY <4>3, <4>6
    <3>3. CASE k > first + m + 1
      <4>1. (k .. taken) \cap Ends = {}
        BY <1>t, <2>5, <2>6, <2>14, <3>3
      <4>2. taken \in cuts /\ k <= taken
        BY <1>t, <1>w, <4>1
      <4>3. ~Kept(k)
        BY <4>1, <4>2 DEF Kept
      <4>4. \A i \in DOMAIN handed' : handed'[i] <= first + m + 1 /\ handed'[i] \in Int
        <5>1. \A i \in DOMAIN handed : handed[i] <= first + m + 1
          BY <2>m, <2>7, <2>o DEF HandedUpTo
        <5>. QED
          BY <2>m, <2>n, <2>o, <5>1
      <4>. QED
        BY <2>5, <2>6, <3>3, <4>3, <4>4
    <3>. QED
      BY <2>5, <2>6, <3>1, <3>2, <3>3
  <2>16. ExactUpTo(taken)'
    BY <2>1, <2>15 DEF ExactUpTo, Kept
  <2>. QED
    BY <1>0, <1>w, <2>1, <2>10, <2>12, <2>16 DEF ReadInv
<1>10. CASE CutNothing
  <2>1. UNCHANGED <<stream, handed, arrived, left>> /\ pc = "cut" /\ pc' = "closed" /\ Break = {}
    BY <1>10 DEF CutNothing, network
  <2>2. UNCHANGED <<taken, cuts>> /\ ExactUpTo(taken) /\ HandedUpTo(taken)
    BY <1>b, <1>w, <2>1 DEF stream
  <2>3. ~Unbroken
    BY <1>b, <1>t, <2>1 DEF NeverZero
  <2>. QED
    BY <1>0, <1>t, <1>w, <2>1, <2>2, <2>3, SameLoss DEF ReadInv
<1>11. CASE UNCHANGED vars
  <2>1. UNCHANGED <<stream, taken, cuts, handed, arrived, left, data, res, pc, Break>>
    BY <1>11 DEF vars, network, stream, call, Break, Text
  <2>2. \A n \in Nat : LastRead(n) => LastRead(n)'
    BY <1>0, <1>t, <2>1, SameLoss DEF LastRead
  <2>. QED
    BY <1>0, <1>t, <1>w, <2>1, <2>2, SameLoss DEF ReadInv
<1>. QED
  BY <1>1, <1>2, <1>3, <1>4, <1>5, <1>6, <1>7, <1>8, <1>9, <1>10, <1>11 DEF Next, ServerStep

(* However the bytes of a stream arrive, what read_socket loses is exactly  *)
(* what it cuts: the bytes of a line up to a read() that ended within it.   *)
(* The rest is treated once and in order; and while lines arrive unbroken   *)
(* and fit the buffer, the connection is kept until the phone has left and  *)
(* all that it sent has been read.                                          *)
THEOREM LossIsExact == Spec => []LossIsAtCuts
<1>1. ReadInv => LossIsAtCuts
  BY DEF ReadInv, LossIsAtCuts, Unbroken
<1>. QED
  BY <1>1, InitRead, NextRead, RoomInvariant, PTL DEF Spec
=============================================================================
