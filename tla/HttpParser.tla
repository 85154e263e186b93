----------------------------- MODULE HttpParser -----------------------------
(***************************************************************************)
(* The reading and parsing of one request by the program                   *)
(* Linux高性能服务器编程/src/8/1.cpp: a state machine that finds lines in a  *)
(* buffer which recv fills in pieces of any size, and one that takes the   *)
(* lines as a request line and headers.  The bytes are CR, LF, NUL, and    *)
(* two that stand for texts: "g" alone on a line is a request line the     *)
(* program accepts, anything else is not.                                  *)
(***************************************************************************)
EXTENDS Integers, Sequences, FiniteSetsExt

CONSTANTS
    BUFFER_SIZE,
    MaxChunk        \* bound: how many bytes one recv returns

Byte == {"CR", "LF", "NUL", "g", "x"}

VARIABLES
    buffer,         \* the part of it that has been filled
    checked_index, start_line,
    checkstate,     \* "REQUEST_LINE", "HEADER"
    pc,             \* "recv", "parse", "end"
    reply,          \* "none", "good", "bad": what was sent to the client
    stream          \* history: the bytes as they were received

vars == <<buffer, checked_index, start_line, checkstate, pc, reply, stream>>

Init ==
    /\ buffer = <<>> /\ stream = <<>>
    /\ checked_index = 0 /\ start_line = 0
    /\ checkstate = "REQUEST_LINE"
    /\ pc = "recv"
    /\ reply = "none"

read_index == Len(buffer)
At(b, i) == b[i + 1]            \* indices start at 0

-----------------------------------------------------------------------------
\* recv puts some bytes behind those that are there.
recv ==
    /\ pc = "recv"
    /\ \E n \in 1 .. MaxChunk : \E chunk \in [1 .. n -> Byte] :
          /\ read_index + n <= BUFFER_SIZE
          /\ buffer' = buffer \o chunk
          /\ stream' = stream \o chunk
    /\ pc' = "parse"
    /\ UNCHANGED <<checked_index, start_line, checkstate, reply>>

\* recv returns 0, because the client has closed or the buffer is full, or -1.
recvEnds ==
    /\ pc = "recv"
    /\ pc' = "end"
    /\ UNCHANGED <<buffer, checked_index, start_line, checkstate, reply, stream>>

\* Mutation: the loop ends one byte too early and passes over the last one.
stops_early == {i \in checked_index .. read_index - 2 : At(buffer, i) \in {"CR", "LF"}}

\* Where the loop of parse_line may return.
stops == {i \in checked_index .. read_index - 1 : At(buffer, i) \in {"CR", "LF"}}

(* The status of the line, where checked_index comes to stand and the      *)
(* bytes that are overwritten with NUL.                                    *)
parse_line ==
    LET p == Min(stops)
        status(s, next, nul) == [status |-> s, next |-> next, nul |-> nul]
    IN IF stops = {} THEN status("OPEN", read_index, {})
       ELSE IF At(buffer, p) = "CR"
       THEN IF p + 1 = read_index THEN status("OPEN", p, {})
            ELSE IF At(buffer, p + 1) = "LF" THEN status("OK", p + 2, {p, p + 1})
            ELSE status("BAD", p, {})
       ELSE IF p > 1 /\ At(buffer, p - 1) = "CR" THEN status("OK", p + 1, {p - 1, p})
            ELSE status("BAD", p, {})

\* The line that starts at i, when its end has been overwritten with NUL.
parse_requestline(b, i) == At(b, i) = "g" /\ At(b, i + 1) = "NUL"

\* An empty text is the end of the request; other headers are skipped.
parse_headers(b, i) == At(b, i) = "NUL"

(* One turn of the loop of parse_content.  A line that is not complete and *)
(* one that is bad both end it with NO_REQUEST, and main calls recv again. *)
parse_content ==
    /\ pc = "parse"
    /\ LET line == parse_line
           b == [i \in DOMAIN buffer |-> IF i - 1 \in line.nul THEN "NUL" ELSE buffer[i]]
       IN /\ buffer' = b
          /\ checked_index' = line.next
          /\ start_line' = IF line.status = "OK" THEN line.next ELSE start_line
          /\ \/ /\ line.status \in {"OPEN", "BAD"}
                /\ pc' = "recv"
                /\ UNCHANGED <<checkstate, reply>>
             \/ /\ line.status = "OK" /\ checkstate = "REQUEST_LINE"
                /\ IF parse_requestline(b, start_line)
                   THEN checkstate' = "HEADER" /\ UNCHANGED <<pc, reply>>
                   ELSE pc' = "end" /\ reply' = "bad" /\ UNCHANGED checkstate
             \/ /\ line.status = "OK" /\ checkstate = "HEADER"
                /\ IF parse_headers(b, start_line)
                   THEN pc' = "end" /\ reply' = "good"
                   ELSE UNCHANGED <<pc, reply>>
                /\ UNCHANGED checkstate
    /\ UNCHANGED stream

ended == pc = "end" /\ UNCHANGED vars

Next == recv \/ recvEnds \/ parse_content \/ ended

Spec == Init /\ [][Next]_vars

-----------------------------------------------------------------------------
(* The answer a reader of the whole stream would give: its lines are what  *)
(* stands between the CRLFs before the first CR or LF that is part of none.*)
Pairs == {i \in 1 .. Len(stream) - 1 : stream[i] = "CR" /\ stream[i + 1] = "LF"}
Stray(i) == /\ stream[i] \in {"CR", "LF"}
            /\ i \notin Pairs /\ i - 1 \notin Pairs
Ends == {i \in Pairs : \A j \in 1 .. i : ~Stray(j)}
First == Min(Ends)
Accepted == stream[1] = "g" /\ stream[2] \in {"CR", "NUL"}
Blank(i) == \E j \in Ends : j < i /\ (i = j + 2 \/ stream[j + 2] = "NUL")
                            /\ \A k \in Ends : k <= j \/ k >= i
Answer ==
    IF Ends = {} THEN "none"
    ELSE IF ~Accepted THEN "bad"
    ELSE IF \E i \in Ends \ {First} : Blank(i) THEN "good" ELSE "none"

(* The answer depends on the bytes alone, not on the pieces in which recv  *)
(* delivered them: a CR at the end of one piece and the LF at the start of *)
(* the next (lines 48 and 63) end a line like any other.                   *)
ChunksDoNotMatter == pc # "parse" => reply = Answer
=============================================================================
