----------------------------- MODULE TextPrograms -----------------------------
(***************************************************************************)
(* Programs that read and write texts, side by side: the two HTTP servers, *)
(* which parse with the same two automata (HttpParser, whose program this  *)
(* module extends, and the object of HttpConn), the line readers, the      *)
(* value of tinyjson, and functions that are applied to an input.          *)
(***************************************************************************)
EXTENDS HttpParser

CONSTANTS
    READ_BUFFER_SIZE, Requests, MaxPiece, MaxConnections,
    Streams, maxlen, MAXLINE, Base, XOR, BigNumbers, MaxBlocks,
    JsonTexts, ValueTexts,  \* what is parsed: once, and by the calls on a value
    CodePoints, FrameInputs, WebSocketInputs

VARIABLES
    m_sockfd, m_user_count, nonblocking, buf, m_checket_idx, m_start_line,
    m_check_state, m_content_length, m_linger, at, armed, todo, inbox, closed,
    received, result, connections,
    reader, bytes, unread, read_buf, text, taken, done, returned, where,
    value, live,
    running,    \* which program it is
    input       \* of the function that is applied

Conn == INSTANCE HttpConn WITH pc <- at, stream <- received
Lines == INSTANCE StreamReaders WITH n <- returned, at <- where
Json == INSTANCE TinyJson

connVars == <<m_sockfd, m_user_count, nonblocking, buf, m_checket_idx, m_start_line,
              m_check_state, m_content_length, m_linger, at, armed, todo, inbox,
              closed, received, result, connections>>
lineVars == <<reader, bytes, unread, read_buf, text, taken, done, returned, where>>
jsonVars == <<value, live>>
textVars == <<vars, connVars, lineVars, jsonVars, running, input>>

Frame == [payload : Seq(0 .. Base - 1), tag : 0 .. Base - 1, empties : Nat,
          checked : BOOLEAN, next : Seq(0 .. Base - 1)]
Length == {n \in Nat : n \div 16777216 < 256}
WebSocket == [is_text : BOOLEAN, length : Length, next : Length, missing : Nat,
              masks : [1 .. 2 -> [1 .. 4 -> Lines!Byte]]]
CodePoint == {u \in Nat : u <= 1114111}
Payload(length) == [i \in 1 .. length |-> i % 128]

ASSUME HttpAssumption ==
    READ_BUFFER_SIZE \in Nat /\ Requests \subseteq Seq(Conn!Byte)
ASSUME LinesAssumption ==
    Streams \subseteq Seq(STRING) /\ maxlen \in Nat /\ maxlen > 1 /\ MAXLINE \in Nat
ASSUME ValuesAssumption ==
    /\ JsonTexts \cup ValueTexts \subseteq Seq(STRING \ {Json!NUL})
    /\ CodePoints \subseteq CodePoint
ASSUME FramesAssumption ==
    /\ Base \in Nat /\ Base > 2
    /\ FrameInputs \subseteq Frame /\ WebSocketInputs \subseteq WebSocket

ASSUME XorAssumption ==
    \A a, b \in Lines!Byte : XOR[a][b] \in Lines!Byte /\ XOR[XOR[a][b]][b] = a

-----------------------------------------------------------------------------
Starts == Init /\ Conn!Init /\ Lines!Init /\ Json!Init

\* The programs that take steps, and the functions, which take none.
Inputs ==
    \/ running \in {"http", "connection", "lines", "value"} /\ input = <<>>
    \/ running = "json" /\ input \in JsonTexts
    \/ running = "utf8" /\ input \in CodePoints
    \/ running = "frame" /\ input \in FrameInputs
    \/ running = "websocket" /\ input \in WebSocketInputs

Steps ==
    /\ \/ running = "http" /\ Next /\ UNCHANGED <<connVars, lineVars, jsonVars>>
       \/ running = "connection" /\ Conn!Next /\ UNCHANGED <<vars, lineVars, jsonVars>>
       \/ running = "lines" /\ Lines!Next /\ UNCHANGED <<vars, connVars, jsonVars>>
       \/ running = "value" /\ Json!Next(ValueTexts) /\ UNCHANGED <<vars, connVars, lineVars>>
    /\ UNCHANGED <<running, input>>

TextSpec == Starts /\ Inputs /\ [][Steps]_textVars

-----------------------------------------------------------------------------
(* AnswerOfStream of HttpConn: whether the request is whole, and good, does*)
(* not depend on the pieces it came in, and the users are counted          *)
(* (15/4_http_conn.h:299, 410 and 222).                                    *)
ConnectionsAnswered == Conn!AnswerOfStream

(* TakenInOrder of StreamReaders: no byte is lost, repeated or left to the *)
(* next line, however little read and write do (readlilne.c:12 and 43,     *)
(* read_line.c:37, readn.c:23, writen.c:11).                               *)
LinesTaken == Lines!TakenInOrder

(* ReadAsWritten, EncodedExactly and StringLive of TinyJson: texts of the  *)
(* grammar, and no others, are accepted and get their type, code points are*)
(* encoded, and the string of a value is never freed under it              *)
(* (tinyjson.c:250, 170, 31 and 59).                                       *)
ValuesRight ==
    /\ running = "json" => Json!ReadAsWritten(input)
    /\ running = "utf8" => Json!EncodedExactly(input)
    /\ Json!StringLive

(* FirstDecoded and FramesPrinted of StreamReaders: however a frame is cut,*)
(* it is read as it was written, unless its length is at the limit of two  *)
(* bytes, where FirstDecoded names what comes instead (decode_encode.rs:51,*)
(* message.rs:76).                                                         *)
FramesReadBack ==
    /\ running = "frame" =>
        Lines!FirstDecoded(Lines!Message(input.tag, input.payload), input.next,
                           input.empties, input.checked)
    /\ running = "websocket" =>
        Lines!FramesPrinted(input.is_text, Payload(input.length), Payload(input.next),
                            input.masks, input.missing)
=============================================================================
