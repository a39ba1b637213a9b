----------------------------- MODULE Screenshot -----------------------------
(* One screenshot, from the SCREEN_TAKE of a phone to the picture on its    *)
(* screen: treat_command with the images of imlib and the temporary file,   *)
(* send_file and hack_send_file byte by byte, and readline of the phone.    *)
(*                                                                          *)
(* The picture is the bytes 1 .. SIZE, each named by its place; the text of *)
(* its size is DIGITS bytes, each of them 0.  Nothing separates the two,    *)
(* and RFCOMM as a stream may deliver what one write() sent in pieces or    *)
(* together with what the next one did.                                     *)
EXTENDS Integers, Sequences

CONSTANTS
    SIZE,       \* bound: st_size of the picture's file
    BASE,       \* of the number system the size is written in
    DIGITS,     \* digits of SIZE
    LENGTH,     \* bytes of the buffer of hack_send_file
    FIRST,      \* bytes that the phone asks for to get the size
    byte_read,  \* bytes that it asks for after that
    WINDOW,     \* bytes that may be under way: write() blocks for more
    Failures    \* what may go wrong, of FailureNames

FailureNames == {"capture", "rescale", "mkdtemp", "save", "open", "unlink", "rmdir", "kill"}

ASSUME SizeAssumption == SIZE \in Nat \ {0} /\ DIGITS \in Nat \ {0} /\ BASE \in Nat \ {0, 1}
ASSUME DigitsAssumption == BASE ^ (DIGITS - 1) <= SIZE /\ SIZE < BASE ^ DIGITS
(* True of every BASE and DIGITS; stated because the proofs cannot compute  *)
(* a power.                                                                 *)
ASSUME PowerAssumption == BASE ^ 0 = 1 /\ \A n \in 1 .. DIGITS : BASE ^ n \in Nat \ {0, 1}
ASSUME BufferAssumption == LENGTH \in Nat \ {0} /\ byte_read \in Nat \ {0} /\ WINDOW \in Nat /\ FIRST \in Nat
ASSUME WindowAssumption == DIGITS <= WINDOW /\ DIGITS <= FIRST
ASSUME FailureAssumption == Failures \subseteq FailureNames

VARIABLES
    step,     \* where treat_command is
    images,   \* images of imlib that are alive
    disk,     \* what there is of the temporary directory
    refused,  \* history: of unlink() and rmdir(), what failed unnoticed
    offset,   \* bytes read from the file
    buffer,   \* the bytes last read
    tmp1,     \* of them, those written
    bytes,    \* bytes of the picture that hack_send_file counts as sent
    sent,     \* all that write() was given
    wire,     \* what of it the phone has not received
    tmp,      \* result of send_file
    result,   \* result of treat_command
    phone,
    size,     \* the phone's idea of the size
    got       \* what the phone has written to its file

imageVars == <<images, disk, refused>>
fileVars == <<offset, buffer, tmp1, bytes, tmp>>
phoneVars == <<phone, size, got>>
vars == <<step, imageVars, fileVars, sent, wire, result, phoneVars>>

Lesser(m, n) == IF m <= n THEN m ELSE n
Bytes(m, n) == [k \in 1 .. n - m + 1 |-> m + k - 1]
Text == [k \in 1 .. DIGITS |-> 0]
Stream == Text \o Bytes(1, SIZE)

PhoneLeft == phone \in {"failed", "gone"}
ServerLeft == step \in {"crashed", "killed"} \/ (step = "done" /\ result = "CONN_CLOSE")

----------------------------------------------------------------------------
(* treat_command: the picture and its file.                                 *)

Goes(from, to) == step = from /\ step' = to
MayFail(call) == call \in Failures
Ends(r) == result' = r
OnlyImages == UNCHANGED <<fileVars, sent, wire, phoneVars>>

(* screen_capture *)
Capture ==
    /\ \/ Goes("capture", "rescale") /\ images' = {"image"} /\ UNCHANGED result
       \/ Goes("capture", "done") /\ MayFail("capture") /\ Ends("NONE") /\ UNCHANGED images
    /\ UNCHANGED <<disk, refused>> /\ OnlyImages

(* rescale_image, which reports success also when there is no rescaled      *)
(* image, imlib_free_image for the first one, and rotate_image, in place.   *)
Rescale ==
    /\ Goes("rescale", "mkdtemp")
    /\ images' = {"rescaled"} \/ (images' = {} /\ MayFail("rescale"))
    /\ UNCHANGED <<disk, refused, result>> /\ OnlyImages

(* perror() is given what sprintf() returns, and sprintf() a constant to    *)
(* write to: the error message ends the process, here and in RemoveFile.    *)
MakeDirectory ==
    /\ \/ Goes("mkdtemp", "save") /\ disk' = {"dir"}
       \/ Goes("mkdtemp", "crashed") /\ MayFail("mkdtemp") /\ UNCHANGED disk
    /\ UNCHANGED <<images, refused, result>> /\ OnlyImages

(* Mutant of Discarded: the error path of save_image forgets the file.      *)
DiscardedNothing == UNCHANGED <<disk, refused>>

(* unlink() and rmdir(), whose results nobody looks at.  A file that stays  *)
(* keeps the directory.                                                     *)
Discarded ==
    \/ disk' = {} /\ refused' = {}
    \/ MayFail("rmdir") /\ disk' = {"dir"} /\ refused' = {"rmdir"}
    \/ MayFail("unlink") /\ images # {} /\ disk' = {"dir", "file"} /\ refused' = {"unlink", "rmdir"}

(* save_image, then imlib_free_image for the rescaled image.  Without an    *)
(* image imlib saves nothing and leaves the error variable as it was, which *)
(* nobody has set.                                                          *)
SaveImage ==
    /\ images' = images \ {"rescaled"}
    /\ \/ /\ Goes("save", "open")
          /\ disk' = IF images = {} THEN disk ELSE disk \cup {"file"}
          /\ UNCHANGED <<refused, result>>
       \/ /\ Goes("save", "done")
          /\ images = {} \/ MayFail("save")
          /\ Discarded
          /\ Ends("NONE")
    /\ OnlyImages

----------------------------------------------------------------------------
(* send_file and hack_send_file.                                            *)

OnlyFile == UNCHANGED <<imageVars, result, phoneVars>>

OpenFile ==
    /\ \/ Goes("open", "size") /\ "file" \in disk
       \/ Goes("open", "unlink") /\ ("file" \notin disk \/ MayFail("open"))
    /\ UNCHANGED <<fileVars, sent, wire>> /\ OnlyFile

Puts(s) == sent' = sent \o s /\ wire' = wire \o s

SendSize ==
    /\ Goes("size", "read")
    /\ ~PhoneLeft
    /\ Puts(Text)
    /\ UNCHANGED fileVars /\ OnlyFile

(* Mutant of Chunk: the last read() is taken to fill the buffer. *)
ChunkIsFull == offset + LENGTH

(* How far one read() comes: the last is short. *)
Chunk == Lesser(SIZE, offset + LENGTH)

ReadChunk ==
    /\ Goes("read", "write")
    /\ bytes < SIZE
    /\ offset' = Chunk
    /\ buffer' = Bytes(offset + 1, offset')
    /\ tmp1' = 0
    /\ UNCHANGED <<bytes, sent, wire, tmp>> /\ OnlyFile

(* Mutant of Rest: each further write() starts at the start of the buffer.  *)
RestFromStart(k) == SubSeq(buffer, 1, k)

(* The next k bytes of the buffer. *)
Rest(k) == SubSeq(buffer, tmp1 + 1, tmp1 + k)

(* One write(), which takes what there is room for; one that took nothing   *)
(* would be tried again, after a pause.                                     *)
WriteChunk ==
    /\ step = "write"
    /\ ~PhoneLeft
    /\ \E k \in 1 .. Lesser(WINDOW - Len(wire), Len(buffer) - tmp1) :
        /\ Puts(Rest(k))
        /\ tmp1' = tmp1 + k
    /\ IF tmp1' = Len(buffer) THEN step' = "read" /\ bytes' = bytes + tmp1'
                              ELSE UNCHANGED <<step, bytes>>
    /\ UNCHANGED <<offset, buffer, tmp>> /\ OnlyFile

(* Mutant of WriteFails: the connection is not found lost in the middle.    *)
WriteFailsFirst ==
    /\ Goes("size", "unlink")
    /\ PhoneLeft
    /\ UNCHANGED <<fileVars, sent, wire>> /\ OnlyFile

(* write() returns -1. *)
WriteFails ==
    /\ Goes("size", "unlink") \/ Goes("write", "unlink")
    /\ PhoneLeft
    /\ UNCHANGED <<fileVars, sent, wire>> /\ OnlyFile

(* send_file returns 0 when the count is the size of the file. *)
AllSent ==
    /\ Goes("read", "unlink")
    /\ bytes >= SIZE
    /\ tmp' = IF bytes = SIZE THEN 0 ELSE -1
    /\ UNCHANGED <<offset, buffer, tmp1, bytes, sent, wire>> /\ OnlyFile

(* Mutant of Outcome: the result of the transfer is not looked at. *)
OutcomeAlwaysTaken == "SCREEN_TAKE"

Outcome == IF tmp = 0 THEN "SCREEN_TAKE" ELSE "CONN_CLOSE"

(* unlink(), rmdir(), and the result. *)
RemoveFile ==
    /\ \/ /\ Goes("unlink", "done")
          /\ "file" \in disk
          /\ disk' = {}
          /\ Ends(Outcome)
       \/ /\ Goes("unlink", "crashed")
          /\ "file" \notin disk \/ MayFail("unlink") \/ MayFail("rmdir")
          /\ disk' \in {disk, disk \ {"file"}}
          /\ UNCHANGED result
    /\ UNCHANGED <<images, refused>> /\ OnlyImages

(* The process is ended from outside. *)
Kill ==
    /\ MayFail("kill")
    /\ step \notin {"done", "crashed", "killed"}
    /\ step' = "killed"
    /\ UNCHANGED <<imageVars, fileVars, sent, wire, result, phoneVars>>

----------------------------------------------------------------------------
(* readline and __take_screenshot of the phone.                             *)

OnlyPhone == UNCHANGED <<step, imageVars, fileVars, sent, result>>

Takes(k) == wire' = SubSeq(wire, k + 1, Len(wire))

(* int(recv(10)).  The digits alone, or the first of them, are a number;    *)
(* with a byte of the picture they are not, nor is the empty string of a    *)
(* connection that has ended.  The exception is caught, the file that was   *)
(* to be filled is no image, and that ends the connection.                  *)
ReadSize ==
    /\ phone = "asking"
    /\ \/ \E k \in 1 .. Lesser(FIRST, Len(wire)) :
            /\ Takes(k)
            /\ IF k <= DIGITS THEN phone' = "reading" /\ size' = SIZE \div BASE ^ (DIGITS - k)
                              ELSE phone' = "failed" /\ UNCHANGED size
       \/ wire = <<>> /\ ServerLeft /\ phone' = "failed" /\ UNCHANGED <<size, wire>>
    /\ UNCHANGED got /\ OnlyPhone

(* recv() at the end of a connection returns nothing for ever: no step. *)
ReadPicture ==
    /\ phone = "reading"
    /\ Len(got) < size
    /\ \E k \in 1 .. Lesser(byte_read, Len(wire)) : Takes(k) /\ got' = got \o SubSeq(wire, 1, k)
    /\ UNCHANGED <<phone, size>> /\ OnlyPhone

(* Mutant of Enough: one recv() is taken for the picture. *)
EnoughAtOnce == got # <<>>

Enough == Len(got) >= size

(* Image.open, which takes the picture and nothing else. *)
Show ==
    /\ phone = "reading"
    /\ Enough
    /\ phone' = IF got = Bytes(1, SIZE) THEN "shown" ELSE "failed"
    /\ UNCHANGED <<size, got, wire>> /\ OnlyPhone

Vanish ==
    /\ phone \in {"asking", "reading"}
    /\ phone' = "gone"
    /\ UNCHANGED <<size, got, wire>> /\ OnlyPhone

ServerStep ==
    \/ Capture \/ Rescale \/ MakeDirectory \/ SaveImage
    \/ OpenFile \/ SendSize \/ ReadChunk \/ WriteChunk \/ WriteFails \/ AllSent \/ RemoveFile

PhoneStep == ReadSize \/ ReadPicture \/ Show

Init ==
    /\ step = "capture"
    /\ images = {} /\ disk = {} /\ refused = {}
    /\ offset = 0 /\ buffer = <<>> /\ tmp1 = 0 /\ bytes = 0 /\ tmp = -1
    /\ sent = <<>> /\ wire = <<>>
    /\ result = "none"
    /\ phone = "asking" /\ size = 0 /\ got = <<>>

Next == ServerStep \/ Kill \/ PhoneStep \/ Vanish

Spec == Init /\ [][Next]_vars

(* The server's thread runs, and so does the phone's, until it vanishes.    *)
FairSpec == Spec /\ WF_vars(ServerStep) /\ WF_vars(PhoneStep)

----------------------------------------------------------------------------
(* Properties.                                                              *)

TypeOK ==
    /\ step \in {"capture", "rescale", "mkdtemp", "save", "open", "size", "read", "write", "unlink",
                 "done", "crashed", "killed"}
    /\ images \subseteq {"image", "rescaled"}
    /\ disk \subseteq {"dir", "file"}
    /\ refused \subseteq {"unlink", "rmdir"}
    /\ offset \in 0 .. SIZE /\ bytes \in 0 .. SIZE
    /\ tmp1 \in 0 .. Len(buffer)
    /\ tmp \in {-1, 0}
    /\ result \in {"none", "NONE", "SCREEN_TAKE", "CONN_CLOSE"}
    /\ phone \in {"asking", "reading", "shown", "failed", "gone"}
    /\ size \in 0 .. SIZE
    /\ Len(wire) <= WINDOW

(* What is sent is the size and the picture, each byte once and in order,   *)
(* however write() cuts them; and all of it when that is what is reported.  *)
SentInOrder ==
    /\ Len(sent) <= Len(Stream)
    /\ sent = SubSeq(Stream, 1, Len(sent))
    /\ result = "SCREEN_TAKE" => sent = Stream

(* No image outlives the command.  Of its file and directory it leaves only *)
(* what the system refused to remove, and that only when it reports that    *)
(* there is no picture: a refusal met after the transfer ends the process.  *)
NothingLeft ==
    step = "done" =>
        /\ images = {}
        /\ "file" \in disk => "unlink" \in refused
        /\ "dir" \in disk => "rmdir" \in refused
        /\ disk # {} => result = "NONE"

(* A picture that was sent is shown, unless the first recv() returned more  *)
(* or less than the digits: the one thing that depends on how the stream    *)
(* was cut.                                                                 *)
OnlySizeMatters ==
    (phone = "failed" /\ result = "SCREEN_TAKE") => size # SIZE

(* Neither side waits for ever.  The server's thread comes back also when   *)
(* the phone has misread the size or is gone.  The phone is answered, unless *)
(* no picture could be made or the server was killed.                       *)
NobodyWaits ==
    /\ step = "size" ~> step \in {"done", "crashed", "killed"}
    /\ phone \in {"asking", "reading"} ~> (phone \notin {"asking", "reading"} \/ result = "NONE" \/ step = "killed")
=============================================================================
