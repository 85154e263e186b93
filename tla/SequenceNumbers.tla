--------------------------- MODULE SequenceNumbers ---------------------------
(***************************************************************************)
(* The servers of TLPI/src that give out sequence numbers, and their       *)
(* clients: over FIFOs (44_Pipes_and_FIFOs/7 and 8) and over connections   *)
(* (59_Internet_Domain_Sockets/6 and 7).  Each client asks for a number of *)
(* numbers and is told the first of them.  Clients may be killed.  The     *)
(* sequence number is taken not to overflow.                               *)
(***************************************************************************)
EXTENDS Integers, Sequences, FiniteSets, SequenceTheorems, TLAPS

CONSTANTS
    Clients,
    Lengths,        \* what clients may ask for; a length of 0 is a bad request
    MaxKills        \* bound: the clients that are killed

VARIABLES
    transport,      \* "fifo" or "socket"
    seqNum,
    server,         \* "read" the next request, "open" the client or "write" to it
    client,         \* the client of the request at hand
    queue,          \* fifo: requests in SERVER_FIFO; socket: connections, by client
    seqLen,         \* what each client asks for
    pc,             \* of each client: "start"; then, fifo, "made" when its FIFO
                    \* exists, "open" when it has written the request, and
                    \* "opened" when the server has opened the FIFO, too; or,
                    \* socket, "made" when it is connected, "sent" when it has
                    \* written the length and "open" with the newline;
                    \* "read" when the server is done, "done", "failed", "killed"
    killed,         \* where those who were killed were
    resp            \* the first of the numbers it is given, or None

vars == <<transport, seqNum, server, client, queue, seqLen, pc, killed, resp>>

None == -1
Nobody == "nobody"

\* What each server sets up before its loop.
main_fifo == transport = "fifo" /\ seqNum = 0 /\ server = "read"
main_socket == transport = "socket" /\ seqNum = 0 /\ server = "read"

Init ==
    /\ main_fifo \/ main_socket
    /\ client = Nobody /\ queue = <<>>
    /\ seqLen \in [Clients -> IF transport = "fifo" THEN Lengths \ {0} ELSE Lengths]
    /\ pc = [c \in Clients |-> "start"]
    /\ killed = [c \in Clients |-> "no"]
    /\ resp = [c \in Clients |-> None]

-----------------------------------------------------------------------------
(* The clients.                                                            *)

moves(c, from, to) == pc[c] = from /\ pc' = [pc EXCEPT ![c] = to]

mkfifo(c) ==
    /\ transport = "fifo" /\ moves(c, "start", "made")
    /\ UNCHANGED queue

writeRequest(c) ==
    /\ transport = "fifo" /\ moves(c, "made", "open")
    /\ queue' = Append(queue, c)

connect(c) ==
    /\ transport = "socket" /\ moves(c, "start", "made")
    /\ queue' = Append(queue, c)

writeLength(c) ==
    /\ transport = "socket"
    /\ moves(c, "made", "sent") \/ moves(c, "sent", "open")
    /\ UNCHANGED queue

Asks(c) ==
    /\ mkfifo(c) \/ writeRequest(c) \/ connect(c) \/ writeLength(c)
    /\ UNCHANGED <<transport, seqNum, server, client, seqLen, killed, resp>>

\* Without an answer there is the end of the connection to read.
readResponse(c) ==
    /\ pc[c] = "read"
    /\ pc' = [pc EXCEPT ![c] = IF resp[c] = None THEN "failed" ELSE "done"]
    /\ UNCHANGED <<transport, seqNum, server, client, queue, seqLen, killed, resp>>

\* SIGKILL: nothing of the client is left but its FIFO, and the numbers it had.
kill(c) ==
    /\ pc[c] \notin {"done", "failed", "killed"}
    /\ Cardinality({d \in Clients : pc[d] = "killed"}) < MaxKills
    /\ pc' = [pc EXCEPT ![c] = "killed"]
    /\ killed' = [killed EXCEPT ![c] = pc[c]]
    /\ UNCHANGED <<transport, seqNum, server, client, queue, seqLen, resp>>

-----------------------------------------------------------------------------
(* The server.                                                             *)

\* read of a request, or accept.
take ==
    /\ server = "read" /\ queue # <<>>
    /\ client' = Head(queue) /\ queue' = Tail(queue)
    /\ server' = "open"
    /\ UNCHANGED <<transport, seqNum, seqLen, pc, killed, resp>>

(* open of the FIFO of the client waits until the client opens it, too; it *)
(* is there, since it is made before the request is written.               *)
open ==
    /\ transport = "fifo" /\ server = "open"
    /\ pc[client] = "open"
    /\ server' = "write" /\ pc' = [pc EXCEPT ![client] = "opened"]
    /\ UNCHANGED <<transport, seqNum, client, queue, seqLen, killed, resp>>

\* Mutation: the newline is waited for, whatever has become of the client.
readLine_newline ==
    /\ transport = "socket" /\ server = "open"
    /\ pc[client] = "open"
    /\ server' = IF seqLen[client] > 0 THEN "write" ELSE "read"
    /\ pc' = IF seqLen[client] > 0 THEN pc ELSE [pc EXCEPT ![client] = "read"]
    /\ UNCHANGED <<transport, seqNum, client, queue, seqLen, killed, resp>>

(* readLine returns the length when there is a newline or the client is    *)
(* gone, which also ends the line.                                         *)
readLine ==
    /\ transport = "socket" /\ server = "open"
    /\ pc[client] \in {"open", "killed"}
    /\ LET asked == killed[client] \in {"no", "sent", "open"} /\ seqLen[client] > 0
       IN /\ server' = IF asked THEN "write" ELSE "read"
          /\ pc' = IF asked \/ pc[client] = "killed" THEN pc
                   ELSE [pc EXCEPT ![client] = "read"]
    /\ UNCHANGED <<transport, seqNum, client, queue, seqLen, killed, resp>>

\* Mutation: one number for each request.
nextSeqNum_one == seqNum + 1

nextSeqNum == seqNum + seqLen[client]

(* write, which fails when the client is gone, and close.  A request that  *)
(* was taken up uses its numbers whether the client is told or not.        *)
write ==
    /\ server = "write"
    /\ IF pc[client] = "killed" THEN UNCHANGED <<pc, resp>>
       ELSE /\ resp' = [resp EXCEPT ![client] = seqNum]
            /\ pc' = [pc EXCEPT ![client] = "read"]
    /\ seqNum' = nextSeqNum
    /\ server' = "read"
    /\ UNCHANGED <<transport, client, queue, seqLen, killed>>

-----------------------------------------------------------------------------
Server == take \/ open \/ readLine \/ write
Client(c) == Asks(c) \/ readResponse(c)

Next == Server \/ \E c \in Clients : Client(c) \/ kill(c)

Spec == Init /\ [][Next]_vars

(* The server runs, and clients that are not killed go on.                 *)
FairSpec == Spec /\ WF_vars(Server) /\ \A c \in Clients : WF_vars(Client(c))

-----------------------------------------------------------------------------
(* No number is given to two clients (7:46, 59/6:88), however requests     *)
(* overlap and whoever is killed.                                          *)
NumbersDisjoint ==
    \A c, d \in Clients :
        c # d /\ resp[c] # None /\ resp[d] # None =>
            resp[c] + seqLen[c] <= resp[d] \/ resp[d] + seqLen[d] <= resp[c]

(* A client that was killed before it opened its FIFO keeps the server in  *)
(* open for ever (7:34).                                                   *)
Stuck == transport = "fifo" /\ server = "open" /\ pc[client] = "killed"

(* Every client is answered, except then; over connections, the end of the *)
(* connection ends the wait for the line (read_line.c:46).                 *)
ClientsAnswered ==
    \A c \in Clients :
        pc[c] \notin {"start", "killed"} ~> Stuck \/ pc[c] \in {"done", "failed", "killed"}
-----------------------------------------------------------------------------
(* NumbersDisjoint holds for any clients, any lengths and any number of    *)
(* clients that are killed.                                                *)

(* All numbers that were given out are below the next one.                 *)
Below == \A c \in Clients : resp[c] # None => resp[c] + seqLen[c] <= seqNum

IInv ==
    /\ seqNum \in Nat /\ seqLen \in [Clients -> Nat]
    /\ resp \in [Clients -> Int] /\ queue \in Seq(Clients)
    /\ server # "read" => client \in Clients
    /\ Below /\ NumbersDisjoint

-----------------------------------------------------------------------------
(* The answer to a client is above all that was given to others.           *)
LEMMA WritePreserves == ASSUME IInv, write PROVE IInv'
<1>1. client \in Clients /\ seqLen[client] \in Nat
  BY DEF write, IInv
<1>2. /\ seqNum' = seqNum + seqLen[client] /\ seqNum' \in Nat /\ seqNum' >= seqNum
      /\ server' = "read" /\ UNCHANGED <<client, queue, seqLen>>
  BY <1>1 DEF write, nextSeqNum, IInv
<1>3. CASE resp' = resp
  BY <1>2, <1>3 DEF IInv, Below, NumbersDisjoint
<1>4. CASE resp' = [resp EXCEPT ![client] = seqNum]
  <2>1. resp' \in [Clients -> Int]
    BY <1>1, <1>4 DEF IInv
  <2>2. ASSUME NEW c \in Clients, resp'[c] # None
        PROVE  /\ resp'[c] + seqLen[c] <= seqNum'
               /\ c # client => resp'[c] = resp[c] /\ resp[c] + seqLen[c] <= seqNum
               /\ c = client => resp'[c] = seqNum
    BY <1>1, <1>2, <1>4, <2>2 DEF IInv, Below
  <2>3. Below'
    BY <1>2, <2>2 DEF Below
  <2>4. NumbersDisjoint'
    <3> SUFFICES ASSUME NEW c \in Clients, NEW d \in Clients, c # d,
                        resp'[c] # None, resp'[d] # None
                 PROVE  \/ resp'[c] + seqLen[c] <= resp'[d]
                        \/ resp'[d] + seqLen[d] <= resp'[c]
      BY <1>2 DEF NumbersDisjoint
    <3>1. CASE c = client \/ d = client
      BY <2>2, <3>1
    <3>2. CASE c # client /\ d # client
      BY <2>2, <3>2 DEF IInv, NumbersDisjoint
    <3> QED
      BY <3>1, <3>2
  <2> QED
    BY <1>2, <2>1, <2>3, <2>4 DEF IInv
<1> QED
  BY <1>3, <1>4 DEF write

(* The other steps give nothing out.                                       *)
LEMMA OthersPreserve ==
    ASSUME IInv, UNCHANGED <<seqNum, seqLen, resp>>, queue' \in Seq(Clients),
           server' # "read" => client' \in Clients
    PROVE  IInv'
BY DEF IInv, Below, NumbersDisjoint

(* No number is given to two clients, whoever is killed and when           *)
(* (44/7:46, 59/6:88).                                                     *)
THEOREM NoNumberTwice == ASSUME Lengths \subseteq Nat PROVE Spec => []NumbersDisjoint
<1>1. Init => IInv
  <2> SUFFICES ASSUME Init PROVE IInv
    OBVIOUS
  <2>1. seqNum = 0 /\ server = "read"
    BY DEF Init, main_fifo, main_socket
  <2>2. seqLen \in [Clients -> Nat]
    <3>1. (IF transport = "fifo" THEN Lengths \ {0} ELSE Lengths) \subseteq Nat
      OBVIOUS
    <3> QED
      BY <3>1 DEF Init
  <2>3. resp \in [Clients -> Int] /\ queue \in Seq(Clients)
    BY DEF Init, None
  <2> QED
    BY <2>1, <2>2, <2>3 DEF Init, IInv, Below, NumbersDisjoint
<1>2. IInv /\ [Next]_vars => IInv'
  <2> SUFFICES ASSUME IInv, [Next]_vars PROVE IInv'
    OBVIOUS
  <2>1. CASE take
    <3>1. client' \in Clients /\ queue' \in Seq(Clients)
      BY <2>1, HeadTailProperties DEF take, IInv
    <3> QED
      BY <2>1, <3>1, OthersPreserve DEF take
  <2>2. CASE open \/ readLine
    BY <2>2, OthersPreserve DEF open, readLine, IInv
  <2>3. CASE write
    BY <2>3, WritePreserves
  <2>4. ASSUME NEW c \in Clients, Client(c) \/ kill(c)
        PROVE  IInv'
    <3>1. queue' = queue \/ queue' = Append(queue, c)
      BY <2>4 DEF Client, Asks, mkfifo, writeRequest, connect, writeLength, readResponse, kill
    <3>2. queue' \in Seq(Clients)
      BY SMTT(60), <3>1, AppendProperties DEF IInv
    <3>3. UNCHANGED <<seqNum, seqLen, resp, server, client>>
      BY <2>4 DEF Client, Asks, readResponse, kill
    <3> QED
      BY <3>2, <3>3, OthersPreserve DEF IInv
  <2>5. CASE UNCHANGED vars
    BY <2>5, OthersPreserve DEF vars, IInv
  <2> QED
    BY <2>1, <2>2, <2>3, <2>4, <2>5 DEF Next, Server
<1>3. IInv => NumbersDisjoint
  BY DEF IInv
<1> QED
  BY <1>1, <1>2, <1>3, PTL DEF Spec
=============================================================================
