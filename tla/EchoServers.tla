---------------------------- MODULE EchoServers -----------------------------
(***************************************************************************)
(* The echo servers of UNP_Volume_1_Third_Edition/src: one process around  *)
(* poll or select (6_select), and a child for each connection              *)
(* (5_tcpcliserv).  The wrapper of select tests n == select(...) and       *)
(* returns n, which nobody has set; and poll leaves the revents of a place *)
(* it was not told of as they are.  Both are any value here.  readline     *)
(* waits for the end of the line, and the server with it.                  *)
(***************************************************************************)
EXTENDS Integers, FiniteSets, FiniteSetsExt

CONSTANTS
    Fds,        \* the descriptors accept may return
    Kids        \* the children that are forked at most

VARIABLES
    prog,       \* "poll", "select", "wait" (tcpserv01) or "waitpid" (tcpserv04)
    backlog, sock,
    text,       \* what can be read: "none", "part" of a line, or a "line"
    client,     \* the table: descriptors, or -1
    maxi, allset, maxfd,
    ready,      \* the places (poll) or descriptors (select) reported, 0 for listenfd
    nready,
    i,          \* 0 at the listening socket, then the place; -1 before poll
    kid,        \* "none", "serving", "zombie" or "reaped"
    chld,       \* SIGCHLD is pending
    pc,         \* of the parent: "accept", "handler" or "dead"
    killed      \* by SIGPIPE

loop == <<client, maxi, allset, maxfd, ready, nready, i>>
forking == <<kid, chld, pc>>
vars == <<prog, backlog, sock, text, loop, forking, killed>>

listenfd == 3
Places == 1 .. Cardinality(Fds)
Looping == prog \in {"poll", "select"} /\ ~killed

\* What each main sets up before its loop.
NoClients == client = [p \in Places |-> -1] /\ maxi = 0
main_poll == prog = "poll" /\ NoClients
main_select == prog = "select" /\ NoClients /\ allset = {listenfd} /\ maxfd = listenfd
main_wait == prog = "wait" /\ kid = [c \in Kids |-> "none"] /\ pc = "accept"
main_waitpid == prog = "waitpid" /\ kid = [c \in Kids |-> "none"] /\ pc = "accept"

Init ==
    /\ main_poll \/ main_select \/ main_wait \/ main_waitpid
    /\ backlog = 0 /\ sock = [fd \in Fds |-> "free"] /\ text = [fd \in Fds |-> "none"]
    /\ NoClients /\ allset = {listenfd} /\ maxfd = listenfd
    /\ ready = {} /\ nready = 0 /\ i = -1
    /\ kid = [c \in Kids |-> "none"] /\ chld = FALSE /\ pc = "accept"
    /\ killed = FALSE

-----------------------------------------------------------------------------
(* The clients of the first two servers.                                   *)

Open == {fd \in Fds : sock[fd] # "free"}

connect ==
    /\ Looping
    /\ backlog + Cardinality(Open) < Cardinality(Fds)
    /\ backlog' = backlog + 1
    /\ UNCHANGED <<prog, sock, text, loop, forking, killed>>

write(fd) ==
    /\ sock[fd] = "open" /\ text[fd] # "line"
    /\ \E t \in {"part", "line"} : text' = [text EXCEPT ![fd] = t]
    /\ UNCHANGED <<prog, backlog, sock, loop, forking, killed>>

hangUp(fd) ==
    /\ \/ sock[fd] = "open" /\ sock' = [sock EXCEPT ![fd] = "fin"]
       \/ sock[fd] \in {"open", "fin"} /\ sock' = [sock EXCEPT ![fd] = "reset"]
    /\ UNCHANGED <<prog, backlog, text, loop, forking, killed>>

-----------------------------------------------------------------------------
(* The loop around poll and select.                                        *)

Readable(fd) == text[fd] # "none" \/ sock[fd] \in {"fin", "reset"}
Listening == IF backlog > 0 THEN {0} ELSE {}
Used == {p \in Places : client[p] # -1}

\* The places up to maxi, and how many of them have something.
Poll ==
    /\ prog = "poll"
    /\ ready' = Listening \cup {p \in Used : p <= maxi /\ Readable(client[p])}
    /\ nready' = Cardinality(ready')

\* The descriptors in allset up to maxfd; the number returned is any number.
Select ==
    /\ prog = "select"
    /\ ready' = Listening \cup {fd \in allset \cap Open : fd <= maxfd /\ Readable(fd)}
    /\ nready' \in {0, 1, 2, Cardinality(Fds) + 2}

wait ==
    /\ Looping /\ i = -1
    /\ Poll \/ Select
    /\ ready' # {}
    /\ i' = 0
    /\ UNCHANGED <<prog, backlog, sock, text, client, maxi, allset, maxfd, forking, killed>>

\* Mutation: the highest place is not raised for a new client.
newMaxi_same(p) == maxi

newMaxi(p) == IF p > maxi THEN p ELSE maxi

(* The new client gets the first free place.  In a place that poll has not *)
(* been told of yet it is taken for readable or not, as revents happens to *)
(* be.                                                                     *)
accept ==
    /\ Looping /\ i = 0
    /\ \/ /\ 0 \in ready
          /\ LET connfd == Min({fd \in Fds : sock[fd] = "free"})
                 place == Min(Places \ Used)
             IN /\ sock' = [sock EXCEPT ![connfd] = "open"]
                /\ client' = [client EXCEPT ![place] = connfd]
                /\ allset' = allset \cup {connfd}
                /\ maxi' = newMaxi(place)
                /\ maxfd' = IF connfd > maxfd THEN connfd ELSE maxfd
                /\ ready' \in {ready} \cup (IF prog = "poll" /\ place > maxi
                                            THEN {ready \cup {place}} ELSE {})
          /\ backlog' = backlog - 1
          /\ nready' = nready - 1
          /\ i' = IF nready' <= 0 THEN -1 ELSE 1
       \/ /\ 0 \notin ready
          /\ i' = 1
          /\ UNCHANGED <<backlog, sock, client, allset, maxi, maxfd, ready, nready>>
    /\ UNCHANGED <<prog, text, forking, killed>>

At(p) == IF prog = "poll" THEN p \in ready ELSE client[p] \in ready

\* To the next place, or to poll again.
next(p) == IF p = Cardinality(Fds) THEN -1 ELSE p + 1

pass ==
    /\ Looping /\ i \in Places
    /\ client[i] = -1 \/ ~At(i)
    /\ i' = next(i)
    /\ UNCHANGED <<prog, backlog, sock, text, client, maxi, allset, maxfd, ready,
                   nready, forking, killed>>

\* poll ends the pass when as many have been served as it has reported.
served ==
    /\ nready' = nready - 1
    /\ i' = IF prog = "poll" /\ nready' <= 0 THEN -1 ELSE next(i)

\* Mutation: the place is given free, the descriptor stays in allset.
leave_keepBit(p) ==
    /\ sock' = [sock EXCEPT ![client[p]] = "free"]
    /\ text' = [text EXCEPT ![client[p]] = "none"]
    /\ client' = [client EXCEPT ![p] = -1]
    /\ UNCHANGED allset

leave(p) ==
    /\ sock' = [sock EXCEPT ![client[p]] = "free"]
    /\ text' = [text EXCEPT ![client[p]] = "none"]
    /\ client' = [client EXCEPT ![p] = -1]
    /\ allset' = allset \ {client[p]}

(* A line, or what there was of one when the client closed, is echoed.  A  *)
(* text sent to a client that has closed may bring a reset back.  A line   *)
(* received before a reset may still be read: the error is then that of    *)
(* the write, which is not looked at, and the connection looks closed.     *)
echo(fd) ==
    /\ text[fd] = "line" \/ (text[fd] = "part" /\ sock[fd] = "fin")
    /\ text' = [text EXCEPT ![fd] = "none"]
    /\ \/ sock[fd] # "reset" /\ UNCHANGED sock
       \/ sock[fd] = "fin" /\ sock' = [sock EXCEPT ![fd] = "reset"]
       \/ sock[fd] = "reset" /\ sock' = [sock EXCEPT ![fd] = "fin"]

(* readline, which waits until there is a line, the end or an error.  The  *)
(* poll server closes after a reset; the one with select writes to it.     *)
readline ==
    /\ Looping /\ i \in Places /\ client[i] # -1 /\ At(i)
    /\ LET fd == client[i]
       IN \/ /\ echo(fd)
             /\ UNCHANGED <<client, allset, killed>>
          \/ /\ sock[fd] = "fin" /\ text[fd] = "none"
             /\ leave(i)
             /\ UNCHANGED killed
          \/ /\ sock[fd] = "reset"
             /\ \/ prog = "poll" /\ leave(i) /\ UNCHANGED killed
                \/ /\ prog = "select" /\ killed' = TRUE
                   /\ UNCHANGED <<sock, text, client, allset>>
    /\ served
    /\ UNCHANGED <<prog, backlog, maxi, maxfd, ready, forking>>

-----------------------------------------------------------------------------
(* A child for each connection.                                            *)

\* The loop around accept goes on until accept fails.
Running == prog \in {"wait", "waitpid"} /\ pc # "dead"
others == <<prog, backlog, sock, text, loop, killed>>

fork(c) ==
    /\ Running /\ pc = "accept" /\ kid[c] = "none"
    /\ kid' = [kid EXCEPT ![c] = "serving"]
    /\ UNCHANGED <<others, chld, pc>>

\* str_echo ends, at the end of the connection or in err_sys.
str_echo(c) ==
    /\ kid[c] = "serving"
    /\ kid' = [kid EXCEPT ![c] = "zombie"]
    /\ chld' = TRUE
    /\ UNCHANGED <<others, pc>>

sigchld ==
    /\ Running /\ pc = "accept" /\ chld
    /\ chld' = FALSE
    /\ pc' = "handler"
    /\ UNCHANGED <<others, kid>>

\* Mutation: without SA_RESTART; Accept takes EINTR for an error.
afterHandler_interrupted == IF prog = "wait" THEN "dead" ELSE "accept"

\* SA_RESTART: accept goes on.
afterHandler == "accept"

Zombies == {c \in Kids : kid[c] = "zombie"}

\* tcpserv01: one wait, which waits for a death when there is no zombie.
sig_chld_wait ==
    /\ prog = "wait" /\ pc = "handler"
    /\ \/ \E c \in Zombies : kid' = [kid EXCEPT ![c] = "reaped"]
       \/ \A c \in Kids : kid[c] \in {"none", "reaped"} /\ UNCHANGED kid
    /\ pc' = afterHandler
    /\ UNCHANGED <<others, chld>>

\* Mutation: one waitpid for the signal.
goesOn_once == afterHandler

goesOn == "handler"

\* tcpserv04: waitpid until there is no zombie.
sig_chld_waitpid ==
    /\ prog = "waitpid" /\ pc = "handler"
    /\ \/ \E c \in Zombies : kid' = [kid EXCEPT ![c] = "reaped"] /\ pc' = goesOn
       \/ Zombies = {} /\ pc' = afterHandler /\ UNCHANGED kid
    /\ UNCHANGED <<others, chld>>

-----------------------------------------------------------------------------
Loop == wait \/ accept \/ pass \/ readline
Parent == sigchld \/ sig_chld_wait \/ sig_chld_waitpid

Next ==
    \/ connect \/ \E fd \in Fds : write(fd) \/ hangUp(fd)
    \/ Loop
    \/ Parent \/ \E c \in Kids : fork(c) \/ str_echo(c)

Spec == Init /\ [][Next]_vars

(* The server runs.  Clients do as they like, and so do the children.      *)
FairSpec == Spec /\ WF_vars(Loop) /\ WF_vars(Parent)

-----------------------------------------------------------------------------
(* The table holds each connection once and no other descriptor, and what  *)
(* poll and select are given covers it: maxi every place in use (poll:66), *)
(* allset every descriptor and no closed one (select:54, 87), up to maxfd. *)
TableExact ==
    /\ {client[p] : p \in Used} = Open
    /\ \A p, q \in Used : client[p] = client[q] => p = q
    /\ \A p \in Used : p <= maxi /\ client[p] <= maxfd
    /\ allset = {listenfd} \cup Open

(* Lines are echoed, and those who leave are closed, whatever nready was   *)
(* (poll:68, 100; select:70), when no client leaves the server waiting for *)
(* the rest of his line.                                                   *)
LinesEchoed ==
    []<>(i = -1 \/ killed) => \A fd \in Fds :
        /\ text[fd] = "line" ~> text[fd] # "line" \/ killed
        /\ sock[fd] \in {"fin", "reset"} ~> sock[fd] \in {"free", "open"} \/ killed

(* The handler of tcpserv01 returns: for each signal it takes there is a   *)
(* child to wait for (line 10), though others may stay zombies.  That of   *)
(* tcpserv04 leaves none (line 11).  And accept survives them (wrapper:22  *)
(* and 66).                                                                *)
ChildrenReaped ==
    /\ pc = "handler" ~> pc = "accept"
    /\ prog = "waitpid" /\ Zombies # {} ~> Zombies = {}
=============================================================================
