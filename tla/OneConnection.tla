---------------------------- MODULE OneConnection ----------------------------
(***************************************************************************)
(* Programs of Linux高性能服务器编程/src with a single connection: 10/3.cpp  *)
(* and 10/3_copy.cpp, which are told of urgent data by SIGURG, 9/1.cpp,    *)
(* which asks select for it, and 9/6.cpp, the client of the chat room; and *)
(* the clients of the echo servers in UNP_Volume_1_Third_Edition/src.      *)
(*                                                                         *)
(* Of the stream, TCP keeps what was sent before the urgent byte, that     *)
(* byte, and what was sent after it; a newer urgent byte takes the place   *)
(* of the older.  The byte is announced, by SIGURG, before it comes or     *)
(* with it.  A recv stops before the urgent byte, and one that starts      *)
(* there when it has come passes over it: it is then gone.                 *)
(***************************************************************************)
EXTENDS Naturals

VARIABLES
    prog,           \* "urg" (10/3), "copy" (10/3_copy), "select", "client",
                    \* "half" (strcliselect01) or "cli" (tcpcli01, tcpcli04)
    before, after,  \* there are bytes to recv before, and after, the urgent byte
    oob,            \* the urgent byte: "none"; "told" when it was announced and is
                    \* to come, and then "valid"; "untold" when nobody heard of it,
                    \* or who did has asked too early, and then "early"; "read"
    fin,            \* the peer has closed
    urg,            \* SIGURG is pending
    interrupted,    \* the handler has interrupted a recv
    lost,           \* a "valid" urgent byte was passed over
    stdin,          \* of a client: "none", "text", "eof", "hup" (of a pipe), or
                    \* "shut" when the socket has been shut down for it
    reset,          \* the peer has answered to bytes sent after its close
    pc              \* "start", "loop", "handler", "end", "waiting" for the answer,
                    \* or "stuck" in splice

stream == <<before, after, oob, lost>>
vars == <<prog, stream, fin, urg, interrupted, stdin, reset, pc>>

\* What main sets up before its loop.
main_urg == prog = "urg" /\ pc = "start"
main_copy == prog = "copy" /\ pc = "start"
main_select == prog = "select" /\ pc = "loop"
main_client == prog = "client" /\ pc = "loop"
main_half == prog = "half" /\ pc = "loop"
main_cli == prog = "cli" /\ pc = "loop"

Init ==
    /\ main_urg \/ main_copy \/ main_select \/ main_client \/ main_half \/ main_cli
    /\ before = FALSE /\ after = FALSE /\ oob = "none" /\ fin = FALSE
    /\ urg = FALSE /\ interrupted = FALSE /\ lost = FALSE
    /\ stdin = "none" /\ reset = FALSE

-----------------------------------------------------------------------------
(* The peer, and the keyboard of the client.                               *)

Urgent == oob \in {"early", "valid"}
There == Urgent \/ oob = "read"
ToCome == oob \in {"told", "untold"}

send ==
    /\ ~fin /\ pc # "end"
    /\ IF There THEN after' = TRUE /\ UNCHANGED before
                ELSE before' = TRUE /\ UNCHANGED after
    /\ UNCHANGED <<prog, oob, lost, fin, urg, interrupted, stdin, reset, pc>>

\* The urgent pointer.  All that was there is before the new urgent byte, an
\* older one included.
sendUrgent ==
    /\ ~fin /\ prog \in {"urg", "copy", "select"} /\ pc # "end"
    /\ before' = (before \/ after) /\ after' = FALSE
    /\ oob' = IF pc = "start" THEN "untold" ELSE "told"
    /\ urg' = (prog \in {"urg", "copy"} /\ pc # "start")
    /\ UNCHANGED <<prog, lost, fin, interrupted, stdin, reset, pc>>

\* The byte itself, without another SIGURG.
urgentComes ==
    /\ ToCome
    /\ oob' = IF oob = "told" THEN "valid" ELSE "early"
    /\ UNCHANGED <<prog, before, after, lost, fin, urg, interrupted, stdin, reset, pc>>

close ==
    /\ ~fin /\ ~ToCome /\ fin' = TRUE
    /\ UNCHANGED <<prog, stream, urg, interrupted, stdin, reset, pc>>

type ==
    /\ prog \in {"client", "half", "cli"} /\ stdin = "none"
    /\ stdin' \in {"text", "eof", "hup"}
    /\ UNCHANGED <<prog, stream, fin, urg, interrupted, reset, pc>>

-----------------------------------------------------------------------------
(* recv without MSG_OOB returns bytes, or 0, or passes over the urgent     *)
(* byte and waits for what follows; with it, recv returns the urgent byte  *)
(* or fails.  It fails with EAGAIN when the byte is to come, and nobody    *)
(* will ask again unless another SIGURG is pending.                        *)

PassOver == oob' = "none" /\ lost' = (lost \/ oob = "valid")

recvBytes ==
    \/ before /\ before' = FALSE /\ UNCHANGED <<after, oob, lost>>
    \/ ~before /\ after /\ after' = FALSE /\ PassOver /\ UNCHANGED before
recvEnd == ~before /\ ~after /\ fin /\ PassOver /\ UNCHANGED <<before, after>>
recvWaits == ~before /\ ~after /\ ~fin /\ There /\ PassOver /\ UNCHANGED <<before, after>>
recvUrgent ==
    /\ oob' = CASE There -> "read"
                [] oob = "told" /\ ~urg -> "untold"
                [] OTHER -> oob
    /\ UNCHANGED <<before, after, lost>>

-----------------------------------------------------------------------------
(* 10/3 and 10/3_copy.                                                     *)

\* add_signal, and F_SETOWN for the connection.
own ==
    /\ prog \in {"urg", "copy"} /\ pc = "start"
    /\ pc' = "loop"
    /\ UNCHANGED <<prog, stream, fin, urg, interrupted, stdin, reset>>

\* Before the urgent byte, and while the signal is pending, recv fails.
Uninterrupted == before \/ ~urg

recvLoop ==
    /\ prog = "urg" /\ pc = "loop" /\ Uninterrupted
    /\ \/ (recvBytes \/ recvWaits) /\ UNCHANGED pc
       \/ recvEnd /\ pc' = "end"
    /\ UNCHANGED <<prog, fin, urg, interrupted, stdin, reset>>

recvLoop_copy ==
    /\ prog = "copy" /\ pc = "loop" /\ Uninterrupted
    /\ \/ (recvBytes \/ recvWaits) /\ UNCHANGED pc
       \/ recvEnd /\ pc' = "end"
    /\ UNCHANGED <<prog, fin, urg, interrupted, stdin, reset>>

\* The signal finds the process in recv, where it has nothing to return, or not.
sigurg ==
    /\ pc = "loop" /\ urg
    /\ urg' = FALSE
    /\ pc' = "handler"
    /\ interrupted' \in IF before THEN {FALSE} ELSE BOOLEAN
    /\ UNCHANGED <<prog, stream, fin, stdin, reset>>

\* Without SA_RESTART an interrupted recv fails, and the loop ends.
afterHandler == IF interrupted THEN "end" ELSE "loop"

\* Mutation: as in 10/3_copy.
sig_urg_handler_plain ==
    /\ prog = "urg" /\ pc = "handler"
    /\ \/ (recvBytes \/ recvEnd) /\ pc' = afterHandler
       \/ recvWaits /\ UNCHANGED pc
    /\ UNCHANGED <<prog, fin, urg, interrupted, stdin, reset>>

\* What recv returns is not looked at: the byte that is to come is not asked for
\* again.
sig_urg_handler ==
    /\ prog = "urg" /\ pc = "handler"
    /\ recvUrgent
    /\ pc' = afterHandler
    /\ UNCHANGED <<prog, fin, urg, interrupted, stdin, reset>>

\* The handler of 10/3_copy: recv without MSG_OOB, which may wait for bytes.
sig_handler ==
    /\ prog = "copy" /\ pc = "handler"
    /\ \/ (recvBytes \/ recvEnd) /\ pc' = afterHandler
       \/ recvWaits /\ UNCHANGED pc
    /\ UNCHANGED <<prog, fin, urg, interrupted, stdin, reset>>

-----------------------------------------------------------------------------
(* 9/1: select, and the urgent byte when there is nothing else.            *)

\* Mutation: bytes, or nothing.
select_deaf ==
    /\ prog = "select" /\ pc = "loop"
    /\ \/ recvBytes /\ UNCHANGED pc
       \/ recvEnd /\ pc' = "end"
    /\ UNCHANGED <<prog, fin, urg, interrupted, stdin, reset>>

select ==
    /\ prog = "select" /\ pc = "loop"
    /\ \/ recvBytes /\ UNCHANGED pc
       \/ recvEnd /\ pc' = "end"
       \/ /\ ~before /\ ~after /\ ~fin /\ Urgent
          /\ recvUrgent /\ UNCHANGED pc
    /\ UNCHANGED <<prog, fin, urg, interrupted, stdin, reset>>

(* 9/6: poll.  When the server has closed, what is still to be read is not *)
(* read.  At the end of a file or of a terminal's input nothing gets into  *)
(* the pipe, and the second splice waits for ever.                         *)
poll ==
    /\ prog = "client" /\ pc = "loop"
    /\ IF fin THEN /\ pc' = "end"
                   /\ UNCHANGED <<stream, stdin>>
       ELSE /\ before \/ stdin \in {"text", "eof"}
            /\ IF before THEN recvBytes ELSE UNCHANGED stream
            /\ \/ stdin = "text" /\ stdin' = "none" /\ UNCHANGED pc
               \/ stdin = "eof" /\ pc' = "stuck" /\ UNCHANGED stdin
               \/ stdin \in {"none", "hup"} /\ UNCHANGED <<pc, stdin>>
    /\ UNCHANGED <<prog, fin, urg, interrupted, reset>>

-----------------------------------------------------------------------------
(* strcliselect01: at the end of its input the client shuts the socket     *)
(* down and reads on until the server closes.  The set given to select is  *)
(* not emptied first: what it may hold besides, of descriptors 1 and 2,    *)
(* makes select return with nothing for the client to do.                  *)
str_cli_select ==
    /\ prog = "half" /\ pc = "loop"
    /\ \/ recvEnd /\ pc' = "end" /\ UNCHANGED stdin
       \/ /\ before \/ (~fin /\ stdin \in {"text", "eof", "hup"})
          /\ IF before THEN recvBytes ELSE UNCHANGED stream
          /\ stdin' = CASE stdin = "text" -> "none"
                       [] stdin \in {"eof", "hup"} -> "shut"
                       [] OTHER -> stdin
          /\ UNCHANGED pc
    /\ UNCHANGED <<prog, fin, urg, interrupted, reset>>

(* tcpcli01 and tcpcli04: a line is sent and one read.  The client that    *)
(* waits for its input does not see the server close; its next line is     *)
(* sent and answered by a reset, and the one after that kills it.          *)
fgets ==
    /\ prog = "cli" /\ pc = "loop"
    /\ \/ stdin \in {"eof", "hup"} /\ pc' = "end" /\ UNCHANGED <<stdin, reset>>
       \/ /\ stdin = "text" /\ stdin' = "none"
          /\ pc' = IF reset THEN "end" ELSE "waiting"
          /\ reset' = (reset \/ fin)
    /\ UNCHANGED <<prog, stream, fin, urg, interrupted>>

\* Mutation: the end of the connection is not taken for an answer.
readline_waits ==
    /\ prog = "cli" /\ pc = "waiting"
    /\ recvBytes /\ pc' = "loop"
    /\ UNCHANGED <<prog, fin, urg, interrupted, stdin, reset>>

\* A line, 0 at the end of the connection, or the error after a reset.
readline ==
    /\ prog = "cli" /\ pc = "waiting"
    /\ \/ recvBytes /\ pc' = "loop"
       \/ recvEnd /\ pc' = "loop"
       \/ reset /\ pc' = "end" /\ UNCHANGED stream
    /\ UNCHANGED <<prog, fin, urg, interrupted, stdin, reset>>

-----------------------------------------------------------------------------
Program == own \/ recvLoop \/ recvLoop_copy \/ str_cli_select \/ fgets \/ readline
           \/ sigurg \/ sig_urg_handler \/ sig_handler \/ select \/ poll

Next == send \/ sendUrgent \/ urgentComes \/ close \/ type \/ Program

Spec == Init /\ [][Next]_vars
FairSpec == Spec /\ WF_vars(Program)

-----------------------------------------------------------------------------
(* An urgent byte that 10/3 was told of is not passed over (lines 58 and   *)
(* 122) if it comes before the handler has asked for it: bytes that follow *)
(* it stay unread until the handler has taken it, and one announced while  *)
(* the handler runs is asked for again.  Of one that comes when the        *)
(* handler has asked, line 58 not looking at the answer, this says nothing.*)
UrgentTaken == prog = "urg" => ~lost

(* An urgent byte is taken by 9/1 or passed over for bytes sent after it   *)
(* (lines 98 and 107), unless another follows each time.  When the peer    *)
(* closes the program ends, unless its input ended before (9/6:97) or it   *)
(* waits for input (tcpcli01:11).                                          *)
ConnectionEnds ==
    /\ <>[][~sendUrgent]_vars =>
          (prog = "select" /\ oob = "valid" /\ ~fin ~> oob # "valid" \/ fin)
    /\ fin ~> pc = "end" \/ (pc = "stuck" /\ stdin = "eof")
                   \/ (prog = "cli" /\ pc = "loop" /\ stdin = "none")
=============================================================================
