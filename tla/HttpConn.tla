------------------------------- MODULE HttpConn -------------------------------
(***************************************************************************)
(* Linux高性能服务器编程/src/15/4_http_conn.h: one object of the class,      *)
(* which serves one connection after another.  A byte is CR, LF or stands  *)
(* for a text: "g" alone on a line is a request line the program accepts,  *)
(* "k" the header "Connection: keep-alive", "c" another Connection header, *)
(* "1" the header "Content-Length: 1", "x" any other text.                 *)
(*                                                                         *)
(* process and process_read are declared and defined nowhere.  process_read*)
(* is taken to do with the parsers what parse_content of 8/1.cpp does, and *)
(* process to answer, to close or to go on as m_linger says, and to wait   *)
(* for more otherwise.  A Content-Length is 1 or absent: negative numbers  *)
(* and ones larger than the buffer are left out, and so is the NUL that    *)
(* parse_content puts behind the content (412), which nobody reads.        *)
(***************************************************************************)
EXTENDS Integers, Sequences, FiniteSetsExt

CONSTANTS
    READ_BUFFER_SIZE,
    Requests,       \* what a client may send while it is connected
    MaxPiece,       \* bound: the bytes it sends at a time
    MaxConnections  \* bound: the connections the object serves

Byte == {"CR", "LF", "g", "k", "c", "1", "x"}

VARIABLES
    m_sockfd,       \* "-1" or "open"
    m_user_count,
    nonblocking,    \* the socket is, as whoever accepted it made it
    buf,            \* m_read_buf up to m_read_idx
    m_checket_idx, m_start_line, m_check_state, m_content_length, m_linger,
    pc,             \* "wait" for an event, "read", "process"
    armed,          \* the one-shot event is
    todo, inbox,    \* what the client has not sent, and what is not received
    closed,         \* the client has closed
    stream,         \* history: what was received of this request
    result,         \* history: what the last request was found to be, or "none"
    connections

request == <<buf, m_checket_idx, m_start_line, m_check_state, m_content_length, m_linger>>
socket == <<m_sockfd, m_user_count, nonblocking>>
client == <<todo, inbox, closed>>
vars == <<socket, request, pc, armed, client, stream, result, connections>>

m_read_idx == Len(buf)
At(b, i) == b[i + 1]            \* indices start at 0
users == IF m_sockfd = "open" THEN 1 ELSE 0

\* init(): a request from its beginning; what was left of the last one is gone.
init ==
    /\ buf' = <<>>
    /\ m_checket_idx' = 0 /\ m_start_line' = 0
    /\ m_check_state' = "REQUESTLINE"
    /\ m_content_length' = 0 /\ m_linger' = FALSE
    /\ stream' = <<>>

\* Of an object with static storage, whose fields are zero: the constructor
\* (161) sets none, and nobody calls init() before the first connection.
Init ==
    /\ m_sockfd = "-1" /\ m_user_count = 0 /\ nonblocking = FALSE
    /\ buf = <<>> /\ m_checket_idx = 0 /\ m_start_line = 0
    /\ m_check_state = "REQUESTLINE" /\ m_content_length = 0 /\ m_linger = FALSE
    /\ pc = "wait" /\ armed = FALSE
    /\ todo = <<>> /\ inbox = <<>> /\ closed = FALSE
    /\ stream = <<>> /\ result = "none" /\ connections = 0

-----------------------------------------------------------------------------
(* init(sockfd, addr).  setnonblocking leaves the descriptor as it is: its *)
(* second fcntl is not given the descriptor (line 184).  init() is not     *)
(* called: a connection starts with what the one before has left.          *)
setnonblocking(was) == was

accepted ==
    /\ m_sockfd = "-1" /\ connections < MaxConnections
    /\ connections' = connections + 1
    /\ m_sockfd' = "open" /\ m_user_count' = m_user_count + 1
    /\ \E was \in BOOLEAN : nonblocking' = setnonblocking(was)
    /\ stream' = <<>>
    /\ armed' = TRUE /\ pc' = "wait"
    /\ todo' \in Requests /\ inbox' = <<>> /\ closed' = FALSE
    /\ result' = "none"
    /\ UNCHANGED request

close_conn ==
    /\ m_sockfd' = "-1"
    /\ m_user_count' = IF m_sockfd = "-1" THEN m_user_count ELSE m_user_count - 1

drop ==
    /\ close_conn
    /\ pc' = "wait" /\ armed' = FALSE
    /\ UNCHANGED <<nonblocking, connections>>

\* The client.
send ==
    /\ m_sockfd = "open" /\ ~closed
    /\ \E n \in 1 .. MaxPiece :
          /\ n <= Len(todo)
          /\ inbox' = inbox \o SubSeq(todo, 1, n)
          /\ todo' = SubSeq(todo, n + 1, Len(todo))
    /\ UNCHANGED <<socket, request, pc, armed, closed, stream, result, connections>>

hangUp ==
    /\ m_sockfd = "open" /\ ~closed
    /\ closed' = TRUE
    /\ UNCHANGED <<socket, request, pc, armed, todo, inbox, stream, result, connections>>

-----------------------------------------------------------------------------
event ==
    /\ m_sockfd = "open" /\ pc = "wait" /\ armed
    /\ inbox # <<>> \/ closed
    /\ pc' = "read" /\ armed' = FALSE
    /\ UNCHANGED <<socket, request, client, stream, result, connections>>

recv ==
    LET n == Min({Len(inbox), READ_BUFFER_SIZE - m_read_idx})
    IN /\ buf' = buf \o SubSeq(inbox, 1, n)
       /\ stream' = stream \o SubSeq(inbox, 1, n)
       /\ inbox' = SubSeq(inbox, n + 1, Len(inbox))

(* read: false when recv returns 0, because the client has closed or no    *)
(* room is left, and then the connection is closed; true when nothing is   *)
(* left to receive, which recv reports only of a socket that does not block*)
Full == READ_BUFFER_SIZE - m_read_idx <= Len(inbox)
read ==
    /\ pc = "read"
    /\ recv
    /\ \/ /\ ~Full /\ ~closed /\ nonblocking
          /\ pc' = "process"
          /\ UNCHANGED <<socket, armed, connections>>
       \/ (Full \/ closed) /\ drop
    /\ UNCHANGED <<m_checket_idx, m_start_line, m_check_state, m_content_length,
                   m_linger, todo, closed, result>>

-----------------------------------------------------------------------------
\* Mutation: the last byte is taken for a line's whatever follows.
Ends_early == {i \in m_checket_idx .. m_read_idx - 2 : At(buf, i) \in {"CR", "LF"}}

\* Where parse_line may stop.
Ends == {i \in m_checket_idx .. m_read_idx - 1 : At(buf, i) \in {"CR", "LF"}}

(* The status of the line and where m_checket_idx comes to stand.  An LF is*)
(* only reached behind something else than a CR: the byte that is compared *)
(* in its place is the first of the buffer, or the one in front of it, and *)
(* neither is a CR (line 313).                                             *)
parse_line ==
    LET p == Min(Ends)
        status(s, next) == [status |-> s, next |-> next]
    IN IF Ends = {} THEN status("OPEN", m_read_idx)
       ELSE IF At(buf, p) = "LF" THEN status("BAD", p)
       ELSE IF p + 1 = m_read_idx THEN status("OPEN", p)
       ELSE IF At(buf, p + 1) = "LF" THEN status("OK", p + 2)
       ELSE status("BAD", p)

\* The text of the line that starts at m_start_line and ends before p.
get_line(p) == SubSeq(buf, m_start_line + 1, p)

\* BAD_REQUEST, or NO_REQUEST and the next state.
parse_request_line(text) ==
    /\ IF text = <<"g">> THEN m_check_state' = "HEADER" /\ result' = "NO_REQUEST"
       ELSE UNCHANGED m_check_state /\ result' = "BAD_REQUEST"
    /\ UNCHANGED <<m_content_length, m_linger>>

(* The request keeps the connection when its Connection header is not      *)
(* keep-alive: strcasecmp is 0 for equal texts (line 384).                 *)
parse_headers(text) ==
    IF text = <<>>
    THEN /\ IF m_content_length # 0
            THEN m_check_state' = "CONTENT" /\ result' = "NO_REQUEST"
            ELSE UNCHANGED m_check_state /\ result' = "GET_REQUEST"
         /\ UNCHANGED <<m_content_length, m_linger>>
    ELSE /\ m_linger' = (m_linger \/ text = <<"c">>)
         /\ m_content_length' = IF text = <<"1">> THEN 1 ELSE m_content_length
         /\ result' = "NO_REQUEST"
         /\ UNCHANGED m_check_state

parse_content ==
    /\ result' = IF m_read_idx >= m_checket_idx + m_content_length
                 THEN "GET_REQUEST" ELSE "NO_REQUEST"
    /\ UNCHANGED <<m_check_state, m_content_length, m_linger>>

(* One turn of the loop of process_read.  It ends when the line is not     *)
(* complete, or bad, when content is missing and when there is a result.   *)
process_read ==
    /\ pc = "process" /\ result \notin {"GET_REQUEST", "BAD_REQUEST"}
    /\ IF m_check_state = "CONTENT"
       THEN /\ parse_content
            /\ pc' = IF result' = "NO_REQUEST" THEN "wait" ELSE pc
            /\ UNCHANGED <<m_checket_idx, m_start_line>>
       ELSE /\ m_checket_idx' = parse_line.next
            /\ \/ /\ parse_line.status # "OK"
                  /\ pc' = "wait" /\ result' = "NO_REQUEST"
                  /\ UNCHANGED <<m_start_line, m_check_state, m_content_length, m_linger>>
               \/ /\ parse_line.status = "OK"
                  /\ m_start_line' = parse_line.next
                  /\ LET text == get_line(parse_line.next - 2)
                     IN IF m_check_state = "REQUESTLINE" THEN parse_request_line(text)
                        ELSE parse_headers(text)
                  /\ UNCHANGED pc
    /\ armed' = (pc' = "wait")              \* modfd
    /\ UNCHANGED <<socket, buf, client, stream, connections>>

\* The request is answered; then it is closed, or init is called for the next.
process ==
    /\ pc = "process" /\ result \in {"GET_REQUEST", "BAD_REQUEST"}
    /\ IF m_linger
       THEN init /\ pc' = "wait" /\ armed' = TRUE /\ UNCHANGED <<socket, connections>>
       ELSE drop /\ UNCHANGED <<request, stream>>
    /\ result' = "none"
    /\ UNCHANGED client

Next == accepted \/ send \/ hangUp \/ event \/ read \/ process_read \/ process

Spec == Init /\ [][Next]_vars

-----------------------------------------------------------------------------
(* What the bytes received say, whatever the pieces they came in: the      *)
(* lines are what stands between the CRLFs before any other CR or LF, and  *)
(* the first empty line after the request line ends the headers.           *)
CRLF == {i \in 1 .. Len(stream) - 1 : stream[i] = "CR" /\ stream[i + 1] = "LF"}
Stray(i) == stream[i] \in {"CR", "LF"} /\ i \notin CRLF /\ i - 1 \notin CRLF
LineEnds == {i \in CRLF : \A j \in 1 .. i : ~Stray(j)}
Blanks == {i \in LineEnds : i - 2 \in LineEnds}
Length == IF \E i \in LineEnds : /\ i < Min(Blanks) /\ i + 3 \in LineEnds
                                 /\ stream[i + 2] = "1" THEN 1 ELSE 0
Answer ==
    IF LineEnds = {} THEN "NO_REQUEST"
    ELSE IF SubSeq(stream, 1, Min(LineEnds) - 1) # <<"g">> THEN "BAD_REQUEST"
    ELSE IF Blanks = {} \/ Len(stream) < Min(Blanks) + 1 + Length THEN "NO_REQUEST"
    ELSE "GET_REQUEST"

(* A connection that waits for more has not received a whole request, and  *)
(* one that is answered has (4_http_conn.h:299, 313, 410), whatever recv   *)
(* returned when, as long as the object serves its first connection; and   *)
(* the count of users is exact (222, 237).                                 *)
AnswerOfStream ==
    /\ m_user_count = users
    /\ connections = 1 =>
        /\ m_sockfd = "open" /\ pc = "wait" => Answer = "NO_REQUEST"
        /\ result \in {"GET_REQUEST", "BAD_REQUEST"} => result = Answer
=============================================================================
