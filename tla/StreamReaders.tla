---------------------------- MODULE StreamReaders ----------------------------
(***************************************************************************)
(* What programs take out of a stream of bytes that comes in pieces: lines *)
(* and messages.                                                           *)
(*                                                                         *)
(* Lines: UNP_Volume_1_Third_Edition/lib/readlilne.c, readn.c and writen.c,*)
(* and readLine of TLPI/lib/read_line.c.  One of them is called until it   *)
(* returns 0 or -1, always for one descriptor: the buffer of readline is   *)
(* the same for all of them.  read and write take as many bytes as they    *)
(* like; a call that a signal interrupts is made again, and changes        *)
(* nothing.  The other end, and so what is read, is given from the start.  *)
(*                                                                         *)
(* Messages: MyFrame of rust_pg/src/tokio_util_pg/decode_encode.rs (two    *)
(* bytes of length, a tag, a payload) and the WebSocket frames of          *)
(* rust_pg/src/my_ws/message.rs.  MyFrame computes in two bytes: sums wrap *)
(* there, or panic in a build with overflow checks.                        *)
(***************************************************************************)
EXTENDS Integers, Sequences

CONSTANTS
    Streams,    \* what there is to read, or to write
    maxlen,     \* what the callers ask for
    MAXLINE,    \* the size of read_buf
    Base,       \* a byte of MyFrame is below it; 256 in the code
    XOR         \* of two bytes, XOR[a][b]: the operator ^

VARIABLES
    reader,     \* which function is called
    bytes,      \* all of the stream
    unread,     \* what read has still to give, or write to take
    read_buf,   \* of readline: from read_ptr, read_cnt bytes
    text,       \* what the call has put where it was told to
    taken,      \* what it has taken; a history variable, as done is
    done,       \* what the calls before it have taken
    n,          \* what the last call has returned
    at          \* "in" a call, or "out" of it

readersVars == <<reader, bytes, unread, read_buf, text, taken, done, n, at>>

NL == "NL"
LineReaders == {"readline", "readline_slow", "readLine"}

Init ==
    /\ reader \in LineReaders \cup {"readn", "writen"}
    /\ bytes \in Streams /\ unread = bytes
    /\ read_buf = <<>> /\ text = <<>> /\ taken = <<>> /\ done = <<>>
    /\ n = 0 /\ at = "in"

-----------------------------------------------------------------------------
call ==
    /\ at = "out" /\ n > 0 /\ reader # "writen"
    /\ at' = "in" /\ done' = done \o taken /\ text' = <<>> /\ taken' = <<>>
    /\ UNCHANGED <<reader, bytes, unread, read_buf, n>>

returns(result) == at' = "out" /\ n' = result

(* _readline returns one more than it has put when no room is left: n has  *)
(* come to maxlen.  readLine goes on to the end of the line.               *)
put(c) ==
    /\ text' = IF reader = "readLine" /\ Len(text) = maxlen - 1 THEN text ELSE Append(text, c)
    /\ taken' = Append(taken, c)
    /\ IF c = NL THEN returns(Len(text'))
       ELSE IF reader # "readLine" /\ Len(text') = maxlen - 1 THEN returns(maxlen)
       ELSE UNCHANGED <<at, n>>
    /\ UNCHANGED <<reader, bytes, done>>

\* readline_slow and readLine read one byte at a time.
readByte ==
    /\ at = "in" /\ reader \in {"readline_slow", "readLine"} /\ unread # <<>>
    /\ put(Head(unread)) /\ unread' = Tail(unread) /\ UNCHANGED read_buf

\* Some of what is left, no more than limit.
Pieces(limit) == {k \in 1 .. Len(unread) : k <= limit}
Piece(k) == SubSeq(unread, 1, k)
leave(k) == unread' = SubSeq(unread, k + 1, Len(unread))

\* Mutation: a byte that is left in read_buf is read over.
fill_over ==
    /\ at = "in" /\ reader = "readline" /\ Len(read_buf) <= 1
    /\ \E k \in Pieces(MAXLINE) : read_buf' = Piece(k) /\ leave(k)
    /\ UNCHANGED <<reader, bytes, text, taken, done, n, at>>

fill ==
    /\ at = "in" /\ reader = "readline" /\ read_buf = <<>>
    /\ \E k \in Pieces(MAXLINE) : read_buf' = Piece(k) /\ leave(k)
    /\ UNCHANGED <<reader, bytes, text, taken, done, n, at>>

myread ==
    /\ at = "in" /\ reader = "readline" /\ read_buf # <<>>
    /\ put(Head(read_buf)) /\ read_buf' = Tail(read_buf) /\ UNCHANGED unread

\* readn and writen move what they are asked for, piece by piece.
move(asked) ==
    /\ at = "in"
    /\ \E k \in Pieces(asked - Len(text)) :
        /\ text' = text \o Piece(k) /\ taken' = taken \o Piece(k) /\ leave(k)
        /\ IF Len(text') = asked THEN returns(asked) ELSE UNCHANGED <<at, n>>
    /\ UNCHANGED <<reader, bytes, read_buf, done>>
readn == reader = "readn" /\ move(maxlen)
writen == reader = "writen" /\ move(Len(bytes))

\* read returns 0; writen is asked for nothing.
atEnd ==
    /\ at = "in" /\ unread = <<>> /\ read_buf = <<>> /\ returns(Len(text))
    /\ UNCHANGED <<reader, bytes, unread, read_buf, text, taken, done>>

\* read or write fails; write fails too when it takes nothing.
fails ==
    /\ at = "in" /\ read_buf = <<>> /\ (reader = "writen" => unread # <<>>) /\ returns(-1)
    /\ UNCHANGED <<reader, bytes, unread, read_buf, text, taken, done>>

Next == call \/ readByte \/ fill \/ myread \/ readn \/ writen \/ atEnd \/ fails

\* No call is made again.
Ended == at = "out" /\ (n <= 0 \/ reader = "writen")

-----------------------------------------------------------------------------
(* A call that has returned.  A line ends at its newline, where the room   *)
(* ends (readlilne.c:12, read_line.c:37), or before the end; what is       *)
(* returned is its length, or one more when there was no room; readn       *)
(* returns less than it was asked for only before the end (readn.c:23),    *)
(* and writen n when every byte is written, and only then (writen.c:24).   *)
Whole ==
    CASE reader = "writen" -> unread = <<>>
      [] reader = "readn" -> Len(text) = maxlen
      [] reader = "readLine" -> taken # <<>> /\ taken[Len(taken)] = NL
      [] OTHER -> Len(text) = maxlen - 1 \/ (taken # <<>> /\ taken[Len(taken)] = NL)
Returned ==
    /\ text = SubSeq(taken, 1, Len(text))
    /\ reader \in LineReaders => Len(text) < maxlen /\ \A j \in 1 .. Len(taken) - 1 : taken[j] # NL
    /\ reader = "readn" => Len(text) <= maxlen
    /\ reader # "readLine" => text = taken
    /\ n = Len(text) \/ (/\ reader \in {"readline", "readline_slow"}
                         /\ n = maxlen /\ Len(text) = maxlen - 1 /\ text[n - 1] # NL)
    /\ Whole \/ (read_buf = <<>> /\ unread = <<>>)
    /\ n = 0 => read_buf = <<>> /\ unread = <<>>

(* However the bytes come, and wherever read fails, the calls of a reader  *)
(* take each byte once and in order, and each returns what it should.      *)
TakenInOrder ==
    /\ done \o taken \o read_buf \o unread = bytes
    /\ at = "out" /\ n >= 0 => Returned

-----------------------------------------------------------------------------
(* Messages: numbers in two bytes, the higher one first, and back.         *)

U16 == Base * Base
to_be_bytes(x) == <<(x \div Base) % Base, x % Base>>
from_be_bytes(high, low) == high * Base + low
Drop(s, k) == SubSeq(s, k + 1, Len(s))

(* MyFrame.  With overflow checks (checked, a debug build) a sum that does *)
(* not fit into two bytes panics, without it wraps.  A slice that is out   *)
(* of range panics in both.                                                *)

None == <<"None">>
Panic == <<"panic">>
Message(tag, payload) == <<"Some", tag, payload>>

encode(m, checked) ==
    LET payload_len == Len(m[3]) % U16
    IN  IF checked /\ payload_len + 3 >= U16 THEN Panic
        ELSE to_be_bytes(payload_len + 1) \o <<m[2]>> \o m[3]

\* Mutation: a frame is complete when a byte of the next one has come.
complete_late(b_len, length) == b_len > (2 + length) % U16

complete(b_len, length) == b_len >= (2 + length) % U16

\* The length of what follows the first k pairs of bytes, and of its frame.
b_len_behind(src, k) == (Len(src) - 2 * k) % U16
length_behind(src, k) == from_be_bytes(src[2 * k + 1], src[2 * k + 2])

\* Frames of no length are passed over; a frame that is returned is not.
passed(src) ==
    CHOOSE k \in 0 .. Len(src) :
        /\ b_len_behind(src, k) < 2 \/ length_behind(src, k) # 0
        /\ \A j \in 0 .. k - 1 : b_len_behind(src, j) >= 2 /\ length_behind(src, j) = 0

decode(src, checked) ==
    LET k == passed(src)
        b_len == b_len_behind(src, k)
        length == length_behind(src, k)
        frame == Drop(src, 2 * k)
    IN  IF b_len < 5 THEN None
        ELSE IF checked /\ 2 + length >= U16 THEN Panic
        ELSE IF ~complete(b_len, length) THEN None
        ELSE IF 2 + length > Len(frame) THEN Panic
        ELSE Message(frame[3], IF length = 1 THEN <<>> ELSE SubSeq(frame, 4, 2 + length))

-----------------------------------------------------------------------------
(* WebSocket.  A mask has four bytes, that are used in turn.               *)

Byte == 0 .. 255
xor(of, mask_buf) == [i \in DOMAIN of |-> XOR[of[i]][mask_buf[1 + ((i - 1) % 4)]]]

\* The length after the first byte: the code for 126 or 127, or itself.
length_bytes(len) ==
    IF len <= 125 THEN <<len>>
    ELSE IF len <= 65535 THEN <<126, len \div 256, len % 256>>
    ELSE <<127, 0, 0, 0, 0, len \div 16777216, (len \div 65536) % 256, (len \div 256) % 256, len % 256>>

ws_encode(is_text, payload) ==
    <<128 + (IF is_text THEN 1 ELSE 2)>> \o length_bytes(Len(payload)) \o payload

\* How many bytes there are of a longer length, and the length they give.
len_buf(s) == CASE s[2] % 128 = 126 -> 2 [] s[2] % 128 = 127 -> 8 [] OTHER -> 0
payload_length(s) ==
    LET two(i) == s[i] * 256 + s[i + 1]
    IN  CASE len_buf(s) = 0 -> s[2] % 128
          [] len_buf(s) = 2 -> two(3)
          [] OTHER -> 65536 * (65536 * (65536 * two(3) + two(5)) + two(7)) + two(9)

\* The parts of a message: they begin behind the mask and at the next message.
payload_at(s) == 6 + len_buf(s)
next_at(s) == payload_at(s) + payload_length(s)
opcode(s) == IF s[1] % 16 = 1 THEN "Text" ELSE "Binary"
payload_data(s) ==
    xor(SubSeq(s, payload_at(s) + 1, next_at(s)), SubSeq(s, payload_at(s) - 3, payload_at(s)))

\* read_exact of each part in turn; a part that is not there is an error.
decode_message(s) ==
    IF Len(s) < 2 \/ s[2] < 128 \/ Len(s) < payload_at(s) \/ Len(s) < next_at(s)
    THEN <<"error">>
    ELSE <<opcode(s), payload_data(s), Drop(s, next_at(s))>>

\* The messages handle_connection prints until there is an error.
handle_connection(s) ==
    LET behind[k \in 0 .. Len(s)] ==
            LET m == decode_message(Drop(s, k))
            IN  IF m = <<"error">> THEN <<>>
                ELSE <<<<m[1], m[2]>>>> \o behind[Len(s) - Len(m[3])]
    IN  behind[0]

\* What RFC 6455 has a client send: the frame of the server with a mask.
Masked(is_text, payload, mask) ==
    LET frame == [ws_encode(is_text, payload) EXCEPT ![2] = @ + 128]
    IN  SubSeq(frame, 1, Len(frame) - Len(payload)) \o mask \o xor(payload, mask)

-----------------------------------------------------------------------------
\* What decode makes of a part of a stream in which it sees so many bytes at the
\* frame of m, when so many of them came.
Decoded(m, frame, checked, seen, came) ==
    CASE seen < 5 -> None
      [] seen >= 5 /\ Len(frame) < U16 -> IF seen >= Len(frame) THEN m ELSE None
      [] seen >= 5 /\ Len(frame) >= U16 -> IF checked \/ came < Len(frame) THEN Panic ELSE m

(* However the bytes of a message are cut, with frames of no length before *)
(* it and anything behind, decode gives that message or nothing, and the   *)
(* message only when it is there.  It goes by the rest of the length of    *)
(* the buffer in two bytes (decode_encode.rs:31), which at each 64 KiB is  *)
(* nothing again, and wants five bytes (line 43).  For the two longest     *)
(* frames, of which 2 + length wraps (line 51), a build with checks panics *)
(* at either end, and one without takes the frame for complete and panics  *)
(* too (line 61), unless it is.  A payload one byte longer is sent as a    *)
(* frame of no length, or panics (line 77); encode cuts off the length of  *)
(* still longer ones.                                                      *)
FirstDecoded(m, next, empties, checked) ==
    LET frame == encode(m, FALSE)
        stream == [i \in 1 .. 2 * empties |-> 0] \o frame \o next
    IN  /\ Len(m[3]) + 1 < U16 =>
              /\ encode(m, TRUE) = IF Len(frame) >= U16 THEN Panic ELSE frame
              /\ \A k \in 0 .. Len(stream) :
                    decode(SubSeq(stream, 1, k), checked) =
                        Decoded(m, frame, checked, (k % U16) - 2 * empties, k - 2 * empties)
        /\ Len(m[3]) + 1 = U16 => encode(m, TRUE) = Panic /\ SubSeq(frame, 1, 2) = <<0, 0>>

(* Of two frames a client sends, of any lengths below 2^32, those that are *)
(* whole when the connection ends are printed as they were sent, in their  *)
(* order, and nothing else is (message.rs:30, 77, 97).  A text is UTF-8,   *)
(* which from_utf8_lossy leaves as it is.                                  *)
FramesPrinted(is_text, payload, next, masks, missing) ==
    LET first == Masked(is_text, payload, masks[1])
        second == Masked(FALSE, next, masks[2])
        came == Len(first) + Len(second) - missing
    IN  handle_connection(SubSeq(first \o second, 1, came)) =
            (IF came >= Len(first)
             THEN <<<<IF is_text THEN "Text" ELSE "Binary", payload>>>> ELSE <<>>)
            \o (IF missing = 0 THEN <<<<"Binary", next>>>> ELSE <<>>)
=============================================================================
