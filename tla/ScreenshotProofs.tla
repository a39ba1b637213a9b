-------------------------- MODULE ScreenshotProofs --------------------------
(* Theorems about Screenshot, for every picture, buffer and window: what is *)
(* sent is in order and whole, nothing is left behind, and a phone that has *)
(* read the size right puts the picture together again.                     *)
EXTENDS Screenshot, SequenceTheorems, TLAPS

(* What has been sent when m bytes of the picture have. *)
Upto(m) == Text \o Bytes(1, m)

TypeInv ==
    /\ offset \in 0 .. SIZE /\ bytes \in 0 .. SIZE
    /\ buffer \in Seq(Nat) /\ tmp1 \in 0 .. Len(buffer)
    /\ tmp \in {-1, 0}
    /\ wire \in Seq(Nat) /\ sent \in Seq(Nat)

(* Before, between and inside the chunks. *)
SendInv ==
    /\ step \in {"capture", "rescale", "mkdtemp", "save", "open", "size"}
          => sent = <<>> /\ offset = 0 /\ bytes = 0 /\ tmp = -1 /\ result # "SCREEN_TAKE"
    /\ step = "read" => sent = Upto(bytes) /\ offset = bytes /\ tmp = -1 /\ result # "SCREEN_TAKE"
    /\ step = "write" =>
          /\ buffer = Bytes(bytes + 1, offset)
          /\ tmp1 < Len(buffer)
          /\ sent = Upto(bytes + tmp1)
          /\ tmp = -1 /\ result # "SCREEN_TAKE"
    /\ step = "unlink" => (tmp = 0 => sent = Stream) /\ result # "SCREEN_TAKE"
    /\ result = "SCREEN_TAKE" => sent = Stream
    /\ \/ sent = <<>>
       \/ \E m \in 0 .. SIZE : sent = Upto(m)

Inv == TypeInv /\ SendInv

LEMMA Difference ==
    ASSUME NEW x \in Int, NEW y \in Int, x > y
    PROVE  x - y > 0
  OBVIOUS

LEMMA BytesType ==
    ASSUME NEW m \in Nat, NEW n \in Nat, n >= m - 1
    PROVE  Bytes(m, n) \in Seq(Nat) /\ Len(Bytes(m, n)) = n - m + 1
  BY DEF Bytes

LEMMA TextType == Text \in Seq(Nat) /\ Len(Text) = DIGITS
  BY SizeAssumption DEF Text

LEMMA UptoType ==
    ASSUME NEW m \in Nat
    PROVE  Upto(m) \in Seq(Nat) /\ Len(Upto(m)) = DIGITS + m
<1>1. Bytes(1, m) \in Seq(Nat) /\ Len(Bytes(1, m)) = m
  BY BytesType
<1>2. DIGITS \in Nat
  BY SizeAssumption
<1>. QED
  BY <1>1, <1>2, TextType DEF Upto

(* A part of a run of bytes is a run of bytes. *)
Part(m, n, a, k) == SubSeq(Bytes(m + 1, n), a + 1, a + k)

LEMMA PartOfBytes ==
    ASSUME NEW m \in Nat, NEW n \in Nat, NEW a \in Nat, NEW k \in Nat, m + a + k <= n
    PROVE  Part(m, n, a, k) = Bytes((m + a) + 1, (m + a) + k)
<1>. DEFINE B == Bytes(m + 1, n)
<1>1. B \in Seq(Nat) /\ Len(B) = n - m
  <2>1. m + 1 \in Nat /\ n >= (m + 1) - 1
    OBVIOUS
  <2>2. Bytes(m + 1, n) \in Seq(Nat) /\ Len(Bytes(m + 1, n)) = n - (m + 1) + 1
    BY <2>1, BytesType
  <2>3. n - (m + 1) + 1 = n - m
    OBVIOUS
  <2>. QED
    BY <2>2, <2>3
<1>2. \A j \in 1 .. k : B[j + a] = m + a + j
  BY DEF Bytes
<1>. HIDE DEF B
<1>3. SubSeq(B, a + 1, a + k) = [j \in 1 .. k |-> B[j + a]]
  BY <1>1
<1>4. Bytes((m + a) + 1, (m + a) + k) = [j \in 1 .. k |-> m + a + j]
  BY DEF Bytes
<1>5. SubSeq(B, a + 1, a + k) = Bytes((m + a) + 1, (m + a) + k)
  BY <1>2, <1>3, <1>4
<1>. QED
  BY <1>5 DEF B, Part

(* Sending the next k bytes. *)
LEMMA Longer ==
    ASSUME NEW m \in Nat, NEW k \in Nat
    PROVE  Upto(m) \o Bytes(m + 1, m + k) = Upto(m + k)
<1>. DEFINE A == Bytes(1, m)  B == Bytes(m + 1, m + k)  C == Bytes(1, m + k)
<1>1. A \in Seq(Nat) /\ Len(A) = m
  BY BytesType
<1>2. B \in Seq(Nat) /\ Len(B) = k
  <2>1. m + 1 \in Nat /\ m + k \in Nat /\ m + k >= (m + 1) - 1
    OBVIOUS
  <2>2. Bytes(m + 1, m + k) \in Seq(Nat) /\ Len(Bytes(m + 1, m + k)) = (m + k) - (m + 1) + 1
    BY <2>1, BytesType
  <2>3. (m + k) - (m + 1) + 1 = k
    OBVIOUS
  <2>. QED
    BY <2>2, <2>3
<1>3. C \in Seq(Nat) /\ Len(C) = m + k
  <2>1. m + k \in Nat /\ m + k >= 1 - 1
    OBVIOUS
  <2>. QED
    BY <2>1, BytesType
<1>4. \A j \in 1 .. m + k : C[j] = IF j <= m THEN A[j] ELSE B[j - m]
  BY DEF Bytes
<1>. HIDE DEF A, B, C
<1>5. A \o B \in Seq(Nat) /\ Len(A \o B) = m + k
  BY <1>1, <1>2
<1>6. \A j \in 1 .. m + k : (A \o B)[j] = C[j]
  <2>1. \A j \in 1 .. m + k : (A \o B)[j] = IF j <= m THEN A[j] ELSE B[j - m]
    BY <1>1, <1>2, ConcatProperties
  <2>. QED
    BY <2>1, <1>4
<1>7. A \o B = C
  BY <1>3, <1>5, <1>6, SeqEqual
<1>8. (Text \o A) \o B = Text \o (A \o B)
  <2>. DEFINE T == Text
  <2>1. T \in Seq(Nat)
    BY TextType
  <2>. HIDE DEF T
  <2>2. (T \o A) \o B = T \o (A \o B)
    BY <2>1, <1>1, <1>2, ConcatAssociative
  <2>. QED
    BY <2>2 DEF T
<1>. QED
  BY <1>7, <1>8 DEF Upto, A, B, C

(* Whatever has been sent is the beginning of all there is to send. *)
LEMMA Beginning ==
    ASSUME NEW m \in 0 .. SIZE
    PROVE  Len(Upto(m)) <= Len(Stream) /\ Upto(m) = SubSeq(Stream, 1, Len(Upto(m)))
<1>. DEFINE B == Bytes(m + 1, SIZE)
<1>1. SIZE \in Nat /\ DIGITS \in Nat /\ m \in Nat
  BY SizeAssumption
<1>2. Upto(m) \in Seq(Nat) /\ Len(Upto(m)) = DIGITS + m
  BY <1>1, UptoType
<1>3. B \in Seq(Nat) /\ Len(B) = SIZE - m
  <2>1. m + 1 \in Nat /\ SIZE >= (m + 1) - 1
    BY <1>1
  <2>2. Bytes(m + 1, SIZE) \in Seq(Nat) /\ Len(Bytes(m + 1, SIZE)) = SIZE - (m + 1) + 1
    BY <1>1, <2>1, BytesType
  <2>3. SIZE - (m + 1) + 1 = SIZE - m
    BY <1>1
  <2>. QED
    BY <2>2, <2>3
<1>4. Stream = Upto(m) \o B
  <2>1. m + (SIZE - m) = SIZE /\ SIZE - m \in Nat
    BY <1>1
  <2>2. Upto(m) \o Bytes(m + 1, m + (SIZE - m)) = Upto(m + (SIZE - m))
    BY <1>1, <2>1, Longer
  <2>. QED
    BY <2>1, <2>2 DEF Stream, Upto
<1>. HIDE DEF B
<1>5. Len(Upto(m) \o B) = Len(Upto(m)) + Len(B)
  BY <1>2, <1>3
<1>6. SubSeq(Upto(m) \o B, 1, Len(Upto(m))) = Upto(m)
  BY <1>2, <1>3, SubSeqOfConcat1
<1>. QED
  BY <1>1, <1>2, <1>3, <1>4, <1>5, <1>6
----------------------------------------------------------------------------
(* In order and whole.                                                      *)

LEMMA InitInv == Init => Inv
<1>. SUFFICES ASSUME Init PROVE Inv
  OBVIOUS
<1>1. TypeInv
  BY SizeAssumption DEF Init, TypeInv
<1>2. SendInv
  BY DEF Init, SendInv
<1>. QED
  BY <1>1, <1>2 DEF Inv

(* The chunk that is under way, its next k bytes, and what they make of it. *)
LEMMA RestContinues ==
    ASSUME Inv, step = "write", NEW k \in 1 .. Len(buffer) - tmp1
    PROVE  /\ Rest(k) \in Seq(Nat)
           /\ sent \o Rest(k) = Upto(bytes + (tmp1 + k))
           /\ Len(buffer) = offset - bytes /\ bytes + (tmp1 + k) \in 0 .. SIZE
           /\ bytes + (tmp1 + k) <= offset
<1>1. SIZE \in Nat /\ offset \in 0 .. SIZE /\ bytes \in 0 .. SIZE /\ tmp1 \in 0 .. Len(buffer) /\ buffer \in Seq(Nat)
  BY SizeAssumption DEF Inv, TypeInv
<1>2. buffer = Bytes(bytes + 1, offset) /\ sent = Upto(bytes + tmp1) /\ tmp1 < Len(buffer)
  BY DEF Inv, SendInv
<1>3. Len(buffer) \in Nat /\ k \in Nat /\ tmp1 \in Nat /\ bytes \in Nat /\ offset \in Nat
  BY <1>1
<1>4. offset >= bytes /\ Len(buffer) = offset - bytes
  <2>1. CASE offset >= bytes
    <3>1. bytes + 1 \in Nat /\ offset >= (bytes + 1) - 1
      BY <1>3, <2>1
    <3>2. Len(Bytes(bytes + 1, offset)) = offset - (bytes + 1) + 1
      BY <1>3, <3>1, BytesType
    <3>. QED
      BY <1>2, <1>3, <2>1, <3>2
  <2>2. CASE offset < bytes
    <3>1. Bytes(bytes + 1, offset) = <<>>
      BY <1>3, <2>2 DEF Bytes
    <3>. QED
      BY <1>2, <1>3, <3>1
  <2>. QED
    BY <1>3, <2>1, <2>2
<1>5. tmp1 + k <= offset - bytes /\ bytes + (tmp1 + k) <= offset
  BY <1>3, <1>4
<1>6. bytes + tmp1 + k <= offset
  BY <1>3, <1>5
<1>7. Part(bytes, offset, tmp1, k) = Bytes((bytes + tmp1) + 1, (bytes + tmp1) + k)
  BY <1>3, <1>6, PartOfBytes
<1>8. Rest(k) = Bytes((bytes + tmp1) + 1, (bytes + tmp1) + k)
  BY <1>2, <1>7 DEF Rest, Part
<1>9. bytes + tmp1 \in Nat /\ (bytes + tmp1) + k \in Nat /\ (bytes + tmp1) + 1 \in Nat
      /\ (bytes + tmp1) + k >= ((bytes + tmp1) + 1) - 1
  BY <1>3
<1>10. Rest(k) \in Seq(Nat)
  BY <1>8, <1>9, BytesType
<1>11. sent \o Rest(k) = Upto((bytes + tmp1) + k)
  BY <1>2, <1>3, <1>8, <1>9, Longer
<1>12. (bytes + tmp1) + k = bytes + (tmp1 + k)
  BY <1>3
<1>. QED
  BY <1>1, <1>3, <1>4, <1>5, <1>10, <1>11, <1>12

LEMMA NextInv == Inv /\ [Next]_vars => Inv'
<1>. SUFFICES ASSUME Inv, [Next]_vars PROVE Inv'
  OBVIOUS
<1>. USE DEF Inv
<1>0. SIZE \in Nat \ {0} /\ DIGITS \in Nat \ {0} /\ LENGTH \in Nat \ {0} /\ WINDOW \in Nat
  BY SizeAssumption, BufferAssumption
<1>1. CASE Capture
  BY <1>1 DEF Capture, Goes, Ends, OnlyImages, fileVars, phoneVars, TypeInv, SendInv
<1>2. CASE Rescale
  BY <1>2 DEF Rescale, Goes, OnlyImages, fileVars, phoneVars, TypeInv, SendInv
<1>3. CASE MakeDirectory
  BY <1>3 DEF MakeDirectory, Goes, OnlyImages, fileVars, phoneVars, TypeInv, SendInv
<1>4. CASE SaveImage
  BY <1>4 DEF SaveImage, Goes, Ends, OnlyImages, fileVars, phoneVars, TypeInv, SendInv
<1>5. CASE OpenFile
  BY <1>5 DEF OpenFile, Goes, OnlyFile, fileVars, phoneVars, TypeInv, SendInv
<1>6. CASE SendSize
  <2>1. sent = <<>> /\ sent' = sent \o Text /\ wire' = wire \o Text
    BY <1>6 DEF SendSize, Goes, Puts, SendInv
  <2>2. Upto(0) = Text
    <3>1. Bytes(1, 0) = <<>>
      BY DEF Bytes
    <3>. QED
      BY <3>1, TextType DEF Upto
  <2>3. sent' = Upto(0) /\ sent' \in Seq(Nat) /\ wire' \in Seq(Nat)
    BY <2>1, <2>2, TextType DEF TypeInv
  <2>4. TypeInv'
    BY <1>6, <2>3 DEF SendSize, OnlyFile, fileVars, TypeInv
  <2>5. SendInv'
    BY <1>0, <1>6, <2>3 DEF SendSize, Goes, OnlyFile, fileVars, SendInv
  <2>. QED
    BY <2>4, <2>5
<1>7. CASE ReadChunk
  <2>1. /\ step = "read" /\ step' = "write" /\ bytes < SIZE /\ offset' = Chunk
        /\ buffer' = Bytes(offset + 1, offset') /\ tmp1' = 0
        /\ UNCHANGED <<bytes, sent, wire, tmp, result>>
    BY <1>7 DEF ReadChunk, Goes, OnlyFile
  <2>2. sent = Upto(bytes) /\ offset = bytes /\ tmp = -1 /\ result # "SCREEN_TAKE" /\ bytes \in 0 .. SIZE
    BY <2>1 DEF SendInv, TypeInv
  <2>3. offset' \in 0 .. SIZE /\ offset' > offset
    BY <1>0, <2>1, <2>2 DEF Chunk, Lesser
  <2>4. buffer' \in Seq(Nat) /\ Len(buffer') = offset' - offset
    <3>1. offset + 1 \in Nat /\ offset' \in Nat /\ offset' >= (offset + 1) - 1
      BY <1>0, <2>2, <2>3
    <3>2. Bytes(offset + 1, offset') \in Seq(Nat) /\ Len(Bytes(offset + 1, offset')) = offset' - (offset + 1) + 1
      BY <3>1, BytesType
    <3>3. offset' - (offset + 1) + 1 = offset' - offset
      BY <1>0, <2>2, <2>3
    <3>. QED
      BY <2>1, <3>2, <3>3
  <2>5. TypeInv'
    BY <1>0, <2>1, <2>2, <2>3, <2>4 DEF TypeInv
  <2>6. bytes + 0 = bytes /\ 0 < Len(buffer')
    <3>1. offset' \in Int /\ offset \in Int /\ offset' > offset
      BY <1>0, <2>2, <2>3
    <3>2. offset' - offset > 0
      BY <3>1, Difference
    <3>3. bytes + 0 = bytes
      BY <1>0, <2>2
    <3>. QED
      BY <2>4, <3>2, <3>3
  <2>7. SendInv'
    BY <2>1, <2>2, <2>6 DEF SendInv
  <2>. QED
    BY <2>5, <2>7
<1>8. CASE WriteChunk
  <2>. DEFINE K == Lesser(WINDOW - Len(wire), Len(buffer) - tmp1)
  <2>1. step = "write"
    BY <1>8 DEF WriteChunk
  <2>2. PICK k \in 1 .. K : Puts(Rest(k)) /\ tmp1' = tmp1 + k
    BY <1>8 DEF WriteChunk
  <2>3. k \in 1 .. Len(buffer) - tmp1
    <3>1. Len(wire) \in Nat /\ Len(buffer) \in Nat /\ tmp1 \in Nat
      BY DEF TypeInv
    <3>. QED
      BY <1>0, <2>2, <3>1 DEF Lesser
  <2>4. /\ Rest(k) \in Seq(Nat) /\ sent \o Rest(k) = Upto(bytes + (tmp1 + k))
        /\ Len(buffer) = offset - bytes /\ bytes + (tmp1 + k) \in 0 .. SIZE
        /\ bytes + (tmp1 + k) <= offset
    BY <2>1, <2>3, RestContinues
  <2>5. sent' = Upto(bytes + (tmp1 + k)) /\ sent' \in Seq(Nat) /\ wire' \in Seq(Nat)
    BY <2>2, <2>4, ConcatProperties DEF Puts, TypeInv
  <2>6. UNCHANGED <<offset, buffer, tmp, result>>
    BY <1>8 DEF WriteChunk, OnlyFile
  <2>7. tmp = -1 /\ result # "SCREEN_TAKE" /\ buffer = Bytes(bytes + 1, offset)
    BY <2>1 DEF SendInv
  <2>8. offset \in 0 .. SIZE /\ bytes \in 0 .. SIZE /\ tmp1 \in 0 .. Len(buffer) /\ buffer \in Seq(Nat) /\ tmp \in {-1, 0}
    BY DEF TypeInv
  <2>9. CASE tmp1' = Len(buffer)
    <3>1. step' = "read" /\ bytes' = bytes + tmp1'
      BY <1>8, <2>9 DEF WriteChunk
    <3>2. bytes' = offset /\ bytes' = bytes + (tmp1 + k) /\ tmp1' \in 0 .. Len(buffer)
      BY <1>0, <2>2, <2>3, <2>4, <2>8, <2>9, <3>1
    <3>3. TypeInv'
      BY <2>5, <2>6, <2>8, <3>2 DEF TypeInv
    <3>4. SendInv'
      BY <2>4, <2>5, <2>6, <2>7, <3>1, <3>2 DEF SendInv
    <3>. QED
      BY <3>3, <3>4
  <2>10. CASE tmp1' # Len(buffer)
    <3>1. step' = "write" /\ bytes' = bytes
      BY <1>8, <2>1, <2>10 DEF WriteChunk
    <3>2. tmp1' \in 0 .. Len(buffer) /\ tmp1' < Len(buffer)
      BY <2>2, <2>3, <2>8, <2>10
    <3>3. TypeInv'
      BY <2>5, <2>6, <2>8, <3>1, <3>2 DEF TypeInv
    <3>4. SendInv'
      BY <2>2, <2>4, <2>5, <2>6, <2>7, <3>1, <3>2 DEF SendInv
    <3>. QED
      BY <3>3, <3>4
  <2>. QED
    BY <2>9, <2>10
<1>9. CASE WriteFails
  BY <1>9 DEF WriteFails, Goes, OnlyFile, fileVars, phoneVars, TypeInv, SendInv
<1>10. CASE AllSent
  <2>1. step = "read" /\ step' = "unlink" /\ bytes >= SIZE /\ bytes \in 0 .. SIZE /\ sent = Upto(bytes)
    BY <1>10 DEF AllSent, Goes, SendInv, TypeInv
  <2>2. sent = Stream
    BY <1>0, <2>1 DEF Upto, Stream
  <2>. QED
    BY <1>10, <2>1, <2>2 DEF AllSent, Goes, OnlyFile, phoneVars, TypeInv, SendInv
<1>11. CASE RemoveFile
  BY <1>11 DEF RemoveFile, Goes, Ends, Outcome, OnlyImages, fileVars, phoneVars, TypeInv, SendInv
<1>12. CASE Kill
  BY <1>12 DEF Kill, fileVars, phoneVars, TypeInv, SendInv
<1>13. CASE PhoneStep
  <2>1. UNCHANGED <<step, fileVars, sent, result>>
    BY <1>13 DEF PhoneStep, ReadSize, ReadPicture, Show, OnlyPhone
  <2>2. wire' \in Seq(Nat)
    <3>1. ASSUME NEW k \in 1 .. Len(wire) PROVE SubSeq(wire, k + 1, Len(wire)) \in Seq(Nat)
      BY DEF TypeInv
    <3>2. Len(wire) \in Nat /\ FIRST \in Nat /\ byte_read \in Nat
      BY BufferAssumption DEF TypeInv
    <3>3. \A k \in 1 .. Lesser(FIRST, Len(wire)) : k \in 1 .. Len(wire)
      BY <3>2 DEF Lesser
    <3>4. \A k \in 1 .. Lesser(byte_read, Len(wire)) : k \in 1 .. Len(wire)
      BY <3>2 DEF Lesser
    <3>5. CASE ReadSize
      BY <3>1, <3>3, <3>5 DEF ReadSize, Takes, TypeInv
    <3>6. CASE ReadPicture
      BY <3>1, <3>4, <3>6 DEF ReadPicture, Takes, TypeInv
    <3>7. CASE Show
      BY <3>7 DEF Show, TypeInv
    <3>. QED
      BY <1>13, <3>5, <3>6, <3>7 DEF PhoneStep
  <2>3. TypeInv'
    BY <2>1, <2>2 DEF TypeInv, fileVars
  <2>4. SendInv'
    BY <2>1 DEF SendInv, fileVars
  <2>. QED
    BY <2>3, <2>4
<1>14. CASE Vanish
  BY <1>14 DEF Vanish, OnlyPhone, fileVars, TypeInv, SendInv
<1>15. CASE UNCHANGED vars
  BY <1>15 DEF vars, fileVars, TypeInv, SendInv
<1>. QED
  BY <1>1, <1>2, <1>3, <1>4, <1>5, <1>6, <1>7, <1>8, <1>9, <1>10, <1>11, <1>12, <1>13, <1>14, <1>15
     DEF Next, ServerStep

LEMMA InvOrders == Inv => SentInOrder
<1>. SUFFICES ASSUME Inv PROVE SentInOrder
  OBVIOUS
<1>1. CASE sent = <<>>
  <2>1. Stream \in Seq(Nat) /\ Len(Stream) \in Nat
    BY SizeAssumption, UptoType DEF Stream, Upto
  <2>2. SubSeq(Stream, 1, 0) = <<>>
    BY SubSeqEmpty
  <2>. QED
    BY <1>1, <2>1, <2>2 DEF Inv, SendInv, SentInOrder
<1>2. CASE \E m \in 0 .. SIZE : sent = Upto(m)
  BY <1>2, Beginning DEF Inv, SendInv, SentInOrder
<1>. QED
  BY <1>1, <1>2 DEF Inv, SendInv

(* What write() is given is the size and the picture, in order and each     *)
(* byte once, and all of it when treat_command reports SCREEN_TAKE: for     *)
(* every picture, buffer and window, and however writes and reads are cut.  *)
THEOREM SendsInOrder == Spec => []SentInOrder
  BY InitInv, NextInv, InvOrders, PTL DEF Spec

----------------------------------------------------------------------------
(* Nothing left behind.                                                     *)

LeftInv ==
    /\ step = "capture" => images = {} /\ disk = {}
    /\ step = "rescale" => images = {"image"} /\ disk = {}
    /\ step = "mkdtemp" => images \subseteq {"rescaled"} /\ disk = {}
    /\ step = "save" => images \subseteq {"rescaled"}
    /\ step \in {"open", "size", "read", "write", "unlink"} => images = {}
    /\ NothingLeft

LEMMA NextLeft == LeftInv /\ [Next]_vars => LeftInv'
<1>. SUFFICES ASSUME LeftInv, [Next]_vars PROVE LeftInv'
  OBVIOUS
<1>. USE DEF LeftInv, NothingLeft, Goes
<1>1. CASE Capture
  BY <1>1 DEF Capture
<1>2. CASE Rescale
  BY <1>2 DEF Rescale
<1>3. CASE MakeDirectory
  BY <1>3 DEF MakeDirectory
<1>4. CASE SaveImage
  BY <1>4 DEF SaveImage, Discarded, Ends
<1>5. CASE OpenFile \/ SendSize \/ ReadChunk \/ WriteChunk \/ WriteFails \/ AllSent
  BY <1>5 DEF OpenFile, SendSize, ReadChunk, WriteChunk, WriteFails, AllSent, OnlyFile, imageVars
<1>6. CASE RemoveFile
  BY <1>6 DEF RemoveFile
<1>7. CASE Kill
  BY <1>7 DEF Kill, imageVars
<1>8. CASE PhoneStep \/ Vanish
  BY <1>8 DEF PhoneStep, ReadSize, ReadPicture, Show, Vanish, OnlyPhone, imageVars
<1>9. CASE UNCHANGED vars
  BY <1>9 DEF vars, imageVars
<1>. QED
  BY <1>1, <1>2, <1>3, <1>4, <1>5, <1>6, <1>7, <1>8, <1>9 DEF Next, ServerStep

(* No image of imlib outlives the command, and of its file and directory it *)
(* leaves only what unlink() and rmdir() refused to remove, of a picture    *)
(* that could not be saved; of a picture that was sent nothing is left, or  *)
(* the process has ended.                                                   *)
THEOREM LeavesNothing == Spec => []NothingLeft
<1>1. Init => LeftInv
  BY DEF Init, LeftInv, NothingLeft
<1>2. LeftInv => NothingLeft
  BY DEF LeftInv
<1>. QED
  BY <1>1, <1>2, NextLeft, PTL DEF Spec

----------------------------------------------------------------------------
(* What the phone makes of it.                                              *)

(* The types that the order of what is sent does not need. *)
ShapeInv ==
    /\ step \in {"capture", "rescale", "mkdtemp", "save", "open", "size", "read", "write", "unlink",
                 "done", "crashed", "killed"}
    /\ images \subseteq {"image", "rescaled"}
    /\ disk \subseteq {"dir", "file"}
    /\ refused \subseteq {"unlink", "rmdir"}
    /\ result \in {"none", "NONE", "SCREEN_TAKE", "CONN_CLOSE"}
    /\ phone \in {"asking", "reading", "shown", "failed", "gone"}
    /\ size \in 0 .. SIZE
    /\ got \in Seq(Nat)
    /\ Len(wire) <= WINDOW

(* A phone that has read the size right has lost nothing: what was sent is  *)
(* the size, what it has, and what is under way.                            *)
PhoneInv ==
    /\ sent = <<>> => wire = <<>>
    /\ phone = "asking" => size = 0 /\ got = <<>> /\ wire = sent
    /\ phone = "failed" => size # SIZE
    /\ phone = "reading" /\ size = SIZE => sent = (Text \o got) \o wire

AllInv == Inv /\ ShapeInv /\ PhoneInv

(* The number that the first k digits make: all of them make the size, and  *)
(* fewer make less.                                                         *)
LEMMA Prefixes ==
    ASSUME NEW k \in 1 .. DIGITS
    PROVE  /\ SIZE \div BASE ^ (DIGITS - k) \in 0 .. SIZE
           /\ SIZE \div BASE ^ (DIGITS - k) = SIZE <=> k = DIGITS
<1>. DEFINE p == BASE ^ (DIGITS - k)
<1>1. SIZE \in Nat \ {0} /\ DIGITS \in Nat \ {0}
  BY SizeAssumption
<1>2. CASE k = DIGITS
  <2>1. p = 1
    <3>1. DIGITS - k = 0
      BY <1>1, <1>2
    <3>. QED
      BY <3>1, PowerAssumption
  <2>. HIDE DEF p
  <2>2. SIZE \div p = SIZE
    BY <1>1, <2>1
  <2>. QED
    BY <1>1, <1>2, <2>2 DEF p
<1>3. CASE k # DIGITS
  <2>1. p \in Nat \ {0, 1}
    <3>1. DIGITS - k \in 1 .. DIGITS
      BY <1>1, <1>3
    <3>. QED
      BY <3>1, PowerAssumption
  <2>. HIDE DEF p
  <2>2. SIZE \div p \in 0 .. SIZE - 1
    BY <1>1, <2>1
  <2>3. SIZE \div p \in 0 .. SIZE /\ SIZE \div p # SIZE
    BY <1>1, <2>2
  <2>. QED
    BY <1>3, <2>3 DEF p
<1>. QED
  BY <1>2, <1>3

(* Sequences of bytes. *)
LEMMA Concatenated ==
    ASSUME NEW p \in Seq(Nat), NEW q \in Seq(Nat)
    PROVE  /\ p \o q \in Seq(Nat) /\ Len(p \o q) = Len(p) + Len(q)
           /\ \A j \in 1 .. Len(p) : (p \o q)[j] = p[j]
           /\ \A j \in 1 .. Len(q) : (p \o q)[Len(p) + j] = q[j]
  OBVIOUS

LEMMA Associated ==
    ASSUME NEW p \in Seq(Nat), NEW q \in Seq(Nat), NEW r \in Seq(Nat)
    PROVE  (p \o q) \o r = p \o (q \o r)
  BY ConcatAssociative

(* The bytes that are read and those that are left are those there were.    *)
LEMMA Divides ==
    ASSUME NEW q \in Seq(Nat), NEW k \in 1 .. Len(q)
    PROVE  /\ SubSeq(q, 1, k) \in Seq(Nat) /\ Len(SubSeq(q, 1, k)) = k
           /\ SubSeq(q, k + 1, Len(q)) \in Seq(Nat) /\ Len(SubSeq(q, k + 1, Len(q))) = Len(q) - k
           /\ SubSeq(q, 1, k) \o SubSeq(q, k + 1, Len(q)) = q
<1>. DEFINE a == SubSeq(q, 1, k)  b == SubSeq(q, k + 1, Len(q))
<1>1. a \in Seq(Nat) /\ Len(a) = k /\ \A j \in 1 .. k : a[j] = q[j]
  OBVIOUS
<1>2. b \in Seq(Nat) /\ Len(b) = Len(q) - k /\ \A j \in 1 .. Len(q) - k : b[j] = q[k + j]
  OBVIOUS
<1>. HIDE DEF a, b
<1>3. a \o b \in Seq(Nat) /\ Len(a \o b) = Len(q)
  BY <1>1, <1>2
<1>4. \A j \in 1 .. Len(q) : (a \o b)[j] = q[j]
  <2>1. \A j \in 1 .. Len(q) : (a \o b)[j] = IF j <= k THEN a[j] ELSE b[j - k]
    <3>1. \A j \in 1 .. Len(a) + Len(b) : (a \o b)[j] = IF j <= Len(a) THEN a[j] ELSE b[j - Len(a)]
      BY <1>1, <1>2, ConcatProperties
    <3>2. Len(a) = k /\ Len(a) + Len(b) = Len(q)
      BY <1>1, <1>2
    <3>. QED
      BY <3>1, <3>2
  <2>2. \A j \in 1 .. Len(q) : ~(j <= k) => j - k \in 1 .. Len(q) - k /\ k + (j - k) = j
    OBVIOUS
  <2>3. ASSUME NEW j \in 1 .. Len(q), j <= k PROVE a[j] = q[j]
    BY <1>1, <2>3
  <2>4. ASSUME NEW j \in 1 .. Len(q), ~(j <= k) PROVE b[j - k] = q[j]
    <3>1. j - k \in 1 .. Len(q) - k /\ k + (j - k) = j
      BY <2>2, <2>4
    <3>. QED
      BY <1>2, <3>1
  <2>. QED
    BY <2>1, <2>3, <2>4
<1>5. a \o b = q
  BY <1>3, <1>4, SeqEqual
<1>. QED
  BY <1>1, <1>2, <1>5 DEF a, b

(* What readline leaves on the wire when it takes the digits and no more.   *)
LEMMA DigitsRead ==
    ASSUME AllInv, phone = "asking", DIGITS \in 1 .. Len(wire), Takes(DIGITS)
    PROVE  sent = (Text \o <<>>) \o wire'
<1>1. SIZE \in Nat \ {0} /\ DIGITS \in Nat \ {0}
  BY SizeAssumption
<1>2. wire = sent /\ sent # <<>> /\ wire \in Seq(Nat)
  BY DEF AllInv, Inv, TypeInv, PhoneInv
<1>3. PICK m \in 0 .. SIZE : sent = Upto(m)
  BY <1>2 DEF AllInv, Inv, SendInv
<1>. DEFINE A == SubSeq(wire, 1, DIGITS)  B == SubSeq(wire, DIGITS + 1, Len(wire))  T == Text
<1>4. /\ A \in Seq(Nat) /\ Len(A) = DIGITS /\ B \in Seq(Nat) /\ A \o B = wire
  BY <1>2, Divides
<1>5. T \in Seq(Nat) /\ Len(T) = DIGITS
  BY TextType
<1>6. A = T
  <2>1. Bytes(1, m) \in Seq(Nat)
    BY <1>1, <1>3, BytesType
  <2>2. SubSeq(Text \o Bytes(1, m), 1, Len(Text)) = Text
    BY <1>5, <2>1, SubSeqOfConcat1
  <2>. QED
    BY <1>2, <1>3, <1>5, <2>2 DEF Upto
<1>7. wire' = B
  BY DEF Takes
<1>. HIDE DEF A, B, T
<1>8. T \o <<>> = T
  BY <1>5, ConcatEmptySeq
<1>. QED
  BY <1>2, <1>4, <1>6, <1>7, <1>8 DEF T

(* One more recv() of the picture. *)
LEMMA PictureRead ==
    ASSUME NEW g \in Seq(Nat), NEW w \in Seq(Nat), NEW k \in 1 .. Len(w)
    PROVE  (Text \o (g \o SubSeq(w, 1, k))) \o SubSeq(w, k + 1, Len(w)) = (Text \o g) \o w
<1>. DEFINE a == SubSeq(w, 1, k)  b == SubSeq(w, k + 1, Len(w))  T == Text  G == Text \o g
<1>1. a \o b = w
  BY Divides
<1>2. a \in Seq(Nat) /\ b \in Seq(Nat)
  BY Divides
<1>3. T \in Seq(Nat) /\ g \in Seq(Nat)
  BY TextType
<1>4. G = T \o g /\ G \in Seq(Nat)
  BY <1>3
<1>. HIDE DEF a, b, T, G
<1>5. (T \o g) \o a = T \o (g \o a)
  BY <1>2, <1>3, Associated
<1>6. (G \o a) \o b = G \o (a \o b)
  BY <1>2, <1>4, Associated
<1>7. (T \o (g \o a)) \o b = G \o w
  BY <1>1, <1>4, <1>5, <1>6
<1>. QED
  BY <1>7 DEF a, b, T, G

(* The phone that has as many bytes as the picture has the picture. *)
LEMMA HasPicture ==
    ASSUME AllInv, phone = "reading", size = SIZE, Len(got) >= size
    PROVE  got = Bytes(1, SIZE)
<1>1. SIZE \in Nat \ {0} /\ DIGITS \in Nat \ {0}
  BY SizeAssumption
<1>. DEFINE T == Text
<1>2. T \in Seq(Nat) /\ Len(T) = DIGITS /\ got \in Seq(Nat) /\ wire \in Seq(Nat)
  BY TextType DEF AllInv, Inv, TypeInv, ShapeInv
<1>3. sent = (T \o got) \o wire
  BY DEF AllInv, PhoneInv
<1>. HIDE DEF T
<1>. DEFINE G == T \o got
<1>4. /\ G \in Seq(Nat) /\ Len(G) = DIGITS + Len(got)
      /\ \A j \in 1 .. Len(got) : G[DIGITS + j] = got[j]
  BY <1>2, Concatenated
<1>. HIDE DEF G
<1>5. /\ sent \in Seq(Nat) /\ Len(sent) = (DIGITS + Len(got)) + Len(wire)
      /\ \A j \in 1 .. DIGITS + Len(got) : sent[j] = G[j]
  <2>1. sent = G \o wire
    BY <1>3 DEF G
  <2>. QED
    <3>1. /\ G \o wire \in Seq(Nat) /\ Len(G \o wire) = Len(G) + Len(wire)
          /\ \A j \in 1 .. Len(G) : (G \o wire)[j] = G[j]
      BY <1>2, <1>4, Concatenated
    <3>. QED
      BY <1>4, <2>1, <3>1
<1>6. sent # <<>>
  <2>1. Len(got) \in Nat /\ Len(wire) \in Nat
    BY <1>2
  <2>2. Len(sent) # 0
    BY <1>1, <1>5, <2>1
  <2>. QED
    BY <2>2
<1>7. PICK m \in 0 .. SIZE : sent = Upto(m)
  BY <1>6 DEF AllInv, Inv, SendInv
<1>. DEFINE P == Bytes(1, m)
<1>8. P \in Seq(Nat) /\ Len(P) = m /\ sent = T \o P
  BY <1>1, <1>7, BytesType DEF Upto, T
<1>. HIDE DEF P
<1>9. Len(sent) = DIGITS + m /\ \A j \in 1 .. m : sent[DIGITS + j] = P[j]
  BY <1>2, <1>8, Concatenated
<1>10. Len(got) = SIZE /\ m = SIZE
  <2>1. Len(got) \in Nat /\ Len(wire) \in Nat
    BY <1>2
  <2>. QED
    BY <1>1, <1>5, <1>9, <2>1
<1>11. ASSUME NEW j \in 1 .. SIZE PROVE got[j] = P[j]
  <2>1. DIGITS + j \in 1 .. DIGITS + SIZE
    BY <1>1
  <2>. QED
    BY <1>4, <1>5, <1>9, <1>10, <2>1
<1>12. got = P
  BY <1>2, <1>8, <1>10, <1>11, SeqEqual
<1>. QED
  BY <1>10, <1>12 DEF P

LEMMA PhoneKeeps ==
    ASSUME AllInv, Inv', PhoneStep
    PROVE  ShapeInv' /\ PhoneInv'
<1>1. SIZE \in Nat \ {0} /\ DIGITS \in Nat \ {0} /\ FIRST \in Nat /\ byte_read \in Nat /\ WINDOW \in Nat
  BY SizeAssumption, BufferAssumption
<1>2. /\ wire \in Seq(Nat) /\ sent \in Seq(Nat) /\ got \in Seq(Nat) /\ Len(wire) \in Nat
      /\ wire' \in Seq(Nat)
  BY DEF AllInv, Inv, TypeInv, ShapeInv
<1>3. UNCHANGED <<step, images, disk, refused, sent, result>>
  BY DEF PhoneStep, ReadSize, ReadPicture, Show, OnlyPhone, imageVars
<1>4. CASE ReadSize /\ wire # <<>>
  <2>1. PICK k \in 1 .. Lesser(FIRST, Len(wire)) :
           /\ Takes(k)
           /\ IF k <= DIGITS THEN phone' = "reading" /\ size' = SIZE \div BASE ^ (DIGITS - k)
                             ELSE phone' = "failed" /\ UNCHANGED size
    BY <1>4 DEF ReadSize
  <2>2. k \in 1 .. Len(wire) /\ phone = "asking" /\ got' = got
    BY <1>1, <1>2, <1>4, <2>1 DEF Lesser, ReadSize
  <2>3. Len(wire') = Len(wire) - k
    BY <1>2, <2>1, <2>2, Divides DEF Takes
  <2>4. Len(wire') <= WINDOW
    BY <1>1, <1>2, <2>2, <2>3 DEF AllInv, ShapeInv
  <2>5. sent # <<>> /\ size = 0 /\ got = <<>>
    BY <1>4, <2>2 DEF AllInv, PhoneInv
  <2>6. CASE k <= DIGITS
    <3>1. /\ phone' = "reading" /\ size' \in 0 .. SIZE
          /\ size' = SIZE <=> k = DIGITS
      <4>1. k \in 1 .. DIGITS
        BY <1>1, <2>2, <2>6
      <4>. QED
        BY <2>1, <2>6, <4>1, Prefixes
    <3>2. size' = SIZE => sent = (Text \o got) \o wire'
      BY <2>1, <2>2, <2>5, <3>1, DigitsRead
    <3>3. ShapeInv'
      BY <1>2, <1>3, <2>2, <2>4, <3>1 DEF AllInv, ShapeInv
    <3>4. PhoneInv'
      BY <1>3, <2>2, <2>5, <3>1, <3>2 DEF PhoneInv
    <3>. QED
      BY <3>3, <3>4
  <2>7. CASE ~(k <= DIGITS)
    <3>1. phone' = "failed" /\ size' = 0 /\ 0 # SIZE /\ 0 \in 0 .. SIZE
      BY <1>1, <2>1, <2>5, <2>7
    <3>2. ShapeInv'
      BY <1>2, <1>3, <2>2, <2>4, <3>1 DEF AllInv, ShapeInv
    <3>3. PhoneInv'
      BY <1>3, <2>5, <3>1 DEF PhoneInv
    <3>. QED
      BY <3>2, <3>3
  <2>. QED
    BY <2>6, <2>7
<1>5. CASE ReadSize /\ wire = <<>>
  <2>1. 1 .. Lesser(FIRST, Len(wire)) = {}
    BY <1>1, <1>5 DEF Lesser
  <2>2. phone' = "failed" /\ UNCHANGED <<size, wire, got>> /\ phone = "asking"
    BY <1>5, <2>1 DEF ReadSize
  <2>3. size = 0 /\ 0 # SIZE
    BY <1>1, <2>2 DEF AllInv, PhoneInv
  <2>. QED
    BY <1>3, <2>2, <2>3 DEF AllInv, ShapeInv, PhoneInv
<1>6. CASE ReadPicture
  <2>1. PICK k \in 1 .. Lesser(byte_read, Len(wire)) : Takes(k) /\ got' = got \o SubSeq(wire, 1, k)
    BY <1>6 DEF ReadPicture
  <2>2. k \in 1 .. Len(wire) /\ phone = "reading" /\ UNCHANGED <<phone, size>>
    BY <1>1, <1>2, <1>6, <2>1 DEF Lesser, ReadPicture
  <2>3. SubSeq(wire, 1, k) \in Seq(Nat) /\ Len(wire') = Len(wire) - k
    BY <1>2, <2>1, <2>2, Divides DEF Takes
  <2>4. got' \in Seq(Nat) /\ Len(wire') <= WINDOW
    BY <1>1, <1>2, <2>1, <2>2, <2>3 DEF AllInv, ShapeInv
  <2>5. ShapeInv'
    BY <1>3, <2>2, <2>4 DEF AllInv, ShapeInv
  <2>6. size = SIZE => sent = (Text \o got') \o wire'
    <3>1. wire' = SubSeq(wire, k + 1, Len(wire)) /\ got' = got \o SubSeq(wire, 1, k)
      BY <2>1 DEF Takes
    <3>2. size = SIZE => sent = (Text \o got) \o wire
      BY <2>2 DEF AllInv, PhoneInv
    <3>3. (Text \o (got \o SubSeq(wire, 1, k))) \o SubSeq(wire, k + 1, Len(wire)) = (Text \o got) \o wire
      BY <1>2, <2>2, PictureRead
    <3>. QED
      BY <3>1, <3>2, <3>3
  <2>7. sent # <<>>
    <3>1. wire # <<>>
      BY <1>2, <2>2
    <3>. QED
      BY <3>1 DEF AllInv, PhoneInv
  <2>8. PhoneInv'
    BY <1>3, <2>2, <2>6, <2>7 DEF PhoneInv
  <2>. QED
    BY <2>5, <2>8
<1>7. CASE Show
  <2>1. /\ phone = "reading" /\ Len(got) >= size /\ UNCHANGED <<size, got, wire>>
        /\ phone' = IF got = Bytes(1, SIZE) THEN "shown" ELSE "failed"
    BY <1>7 DEF Show, Enough
  <2>2. phone' = "failed" => size # SIZE
    BY <2>1, HasPicture
  <2>3. phone' \in {"shown", "failed"}
    BY <2>1
  <2>. QED
    BY <1>3, <2>1, <2>2, <2>3 DEF AllInv, ShapeInv, PhoneInv
<1>. QED
  BY <1>4, <1>5, <1>6, <1>7 DEF PhoneStep

(* What write() is given goes under way, as far as there is room. *)
LEMMA WriteKeeps ==
    ASSUME AllInv, Inv', NEW s \in Seq(Nat), s # <<>>, Puts(s), Len(wire) + Len(s) <= WINDOW,
           phone \in {"asking", "reading", "shown"},
           UNCHANGED <<images, disk, refused, result, phone, size, got>>,
           step' \in {"size", "read", "write", "unlink"}
    PROVE  ShapeInv' /\ PhoneInv'
<1>1. /\ sent \in Seq(Nat) /\ wire \in Seq(Nat) /\ got \in Seq(Nat)
      /\ sent' = sent \o s /\ wire' = wire \o s
  BY DEF AllInv, Inv, TypeInv, ShapeInv, Puts
<1>2. Len(wire') = Len(wire) + Len(s)
  BY <1>1
<1>3. ShapeInv'
  BY <1>1, <1>2 DEF AllInv, ShapeInv
<1>4. sent' # <<>>
  BY <1>1
<1>5. ASSUME phone = "reading", size = SIZE PROVE sent' = (Text \o got) \o wire'
  <2>. DEFINE T == Text \o got
  <2>1. T \in Seq(Nat) /\ sent = T \o wire
    <3>1. Text \in Seq(Nat)
      BY TextType
    <3>. QED
      BY <1>1, <1>5, <3>1 DEF AllInv, PhoneInv
  <2>. HIDE DEF T
  <2>2. (T \o wire) \o s = T \o (wire \o s)
    BY <1>1, <2>1, Associated, Zenon
  <2>. QED
    BY <1>1, <2>1, <2>2 DEF T
<1>6. phone = "asking" => size = 0 /\ got = <<>> /\ wire' = sent'
  BY <1>1 DEF AllInv, PhoneInv
<1>. QED
  BY <1>3, <1>4, <1>5, <1>6 DEF PhoneInv

LEMMA NextAll ==
    ASSUME AllInv, Inv', [Next]_vars
    PROVE  ShapeInv' /\ PhoneInv'
<1>. USE DEF Goes, Ends
<1>0. /\ SIZE \in Nat \ {0} /\ DIGITS \in Nat \ {0} /\ WINDOW \in Nat /\ DIGITS <= WINDOW
  BY SizeAssumption, BufferAssumption, WindowAssumption
<1>1. CASE Capture \/ Rescale \/ MakeDirectory \/ SaveImage \/ RemoveFile
  <2>1. UNCHANGED <<sent, wire, phone, size, got>>
    BY <1>1 DEF Capture, Rescale, MakeDirectory, SaveImage, RemoveFile, OnlyImages, phoneVars
  <2>2. PhoneInv'
    BY <2>1 DEF AllInv, PhoneInv
  <2>3. ShapeInv'
    BY <1>1, <2>1 DEF AllInv, ShapeInv, Capture, Rescale, MakeDirectory, SaveImage, RemoveFile, Discarded, Outcome
  <2>. QED
    BY <2>2, <2>3
<1>2. CASE OpenFile \/ ReadChunk \/ WriteFails \/ AllSent
  <2>1. UNCHANGED <<images, disk, refused, result, sent, wire, phone, size, got>>
    BY <1>2 DEF OpenFile, ReadChunk, WriteFails, AllSent, OnlyFile, imageVars, phoneVars
  <2>2. PhoneInv'
    BY <2>1 DEF AllInv, PhoneInv
  <2>3. ShapeInv'
    BY <1>2, <2>1 DEF AllInv, ShapeInv, OpenFile, ReadChunk, WriteFails, AllSent
  <2>. QED
    BY <2>2, <2>3
<1>3. CASE SendSize
  <2>1. sent = <<>> /\ wire = <<>>
    BY <1>3 DEF SendSize, AllInv, Inv, SendInv, PhoneInv
  <2>2. Text \in Seq(Nat) /\ Text # <<>> /\ Len(wire) + Len(Text) <= WINDOW
    <3>1. Text \in Seq(Nat) /\ Len(Text) = DIGITS
      BY TextType
    <3>2. Len(wire) = 0
      BY <2>1
    <3>3. Text # <<>>
      BY <1>0, <3>1
    <3>. QED
      BY <1>0, <3>1, <3>2, <3>3
  <2>3. phone \in {"asking", "reading", "shown"}
    BY <1>3 DEF SendSize, PhoneLeft, AllInv, ShapeInv
  <2>. QED
    BY <1>3, <2>2, <2>3, WriteKeeps DEF SendSize, OnlyFile, imageVars, phoneVars
<1>4. CASE WriteChunk
  <2>0. Len(wire) \in Nat /\ Len(buffer) \in Nat /\ tmp1 \in Nat
    BY DEF AllInv, Inv, TypeInv
  <2>1. PICK k \in 1 .. Lesser(WINDOW - Len(wire), Len(buffer) - tmp1) : Puts(Rest(k))
    BY <1>4 DEF WriteChunk
  <2>2. k \in 1 .. Len(buffer) - tmp1 /\ Len(wire) + k <= WINDOW
    BY <1>0, <2>0, <2>1 DEF Lesser
  <2>3. Rest(k) \in Seq(Nat)
    BY <1>4, <2>2, RestContinues DEF AllInv, WriteChunk
  <2>4. Len(Rest(k)) = k
    BY <2>0, <2>2 DEF Rest, AllInv, Inv, TypeInv
  <2>5. Rest(k) # <<>>
    BY <2>0, <2>2, <2>3, <2>4
  <2>6. phone \in {"asking", "reading", "shown"}
    BY <1>4 DEF WriteChunk, PhoneLeft, AllInv, ShapeInv
  <2>7. step' \in {"read", "write"} /\ UNCHANGED <<images, disk, refused, result, phone, size, got>>
    BY <1>4 DEF WriteChunk, OnlyFile, imageVars, phoneVars
  <2>. QED
    BY <2>1, <2>2, <2>3, <2>4, <2>5, <2>6, <2>7, WriteKeeps
<1>5. CASE PhoneStep
  BY <1>5, PhoneKeeps
<1>6. CASE Vanish
  BY <1>6 DEF Vanish, OnlyPhone, imageVars, AllInv, ShapeInv, PhoneInv
<1>7. CASE Kill \/ UNCHANGED vars
  BY <1>7 DEF Kill, vars, imageVars, phoneVars, AllInv, ShapeInv, PhoneInv
<1>. QED
  BY <1>1, <1>2, <1>3, <1>4, <1>5, <1>6, <1>7 DEF Next, ServerStep

LEMMA AllInvariant == Spec => []AllInv
<1>1. Init => AllInv
  <2>1. ASSUME Init PROVE ShapeInv /\ PhoneInv
    BY <2>1, SizeAssumption, BufferAssumption DEF Init, ShapeInv, PhoneInv
  <2>. QED
    BY <2>1, InitInv DEF AllInv
<1>2. AllInv /\ [Next]_vars => AllInv'
  BY NextInv, NextAll DEF AllInv
<1>. QED
  BY <1>1, <1>2, PTL DEF Spec

(* The types, for every picture, buffer and window: hack_send_file counts   *)
(* no more bytes than the file has, and what is under way fits the window.  *)
THEOREM TypeCorrect == Spec => []TypeOK
<1>1. AllInv => TypeOK
  BY DEF AllInv, Inv, TypeInv, ShapeInv, TypeOK
<1>. QED
  BY <1>1, AllInvariant, PTL

(* readline and __take_screenshot put the picture together again from any   *)
(* pieces: a phone that cannot show a picture that was sent has misread the *)
(* size.                                                                    *)
THEOREM ShowsWhatWasSent == Spec => []OnlySizeMatters
<1>1. AllInv => OnlySizeMatters
  BY DEF AllInv, PhoneInv, OnlySizeMatters
<1>. QED
  BY <1>1, AllInvariant, PTL
=============================================================================
