----------------------------- MODULE ChatServer -----------------------------
(***************************************************************************)
(* The chat room Linux高性能服务器编程/src/9/7.cpp: one thread around poll,  *)
(* a table fds of the users, and in users[fd] a pointer to the text that a  *)
(* user has still to be sent.  A user that has text to come is watched for *)
(* POLLOUT and not for POLLIN.                                             *)
(*                                                                         *)
(* The events poll has reported are handled one after the other while the  *)
(* connections go on changing.  A send to a user that has closed his end   *)
(* may bring a reset back; a send after a reset fails, or ends the server  *)
(* by SIGPIPE.  The texts themselves are left out, and so is a send buffer *)
(* that is full.                                                           *)
(***************************************************************************)
EXTENDS Integers, Sequences, FiniteSets, FiniteSetsExt

CONSTANTS
    USER_LIMIT,
    Fds,            \* the descriptors accept may return, at least USER_LIMIT
    MaxBacklog      \* bound: connections waiting to be accepted

VARIABLES
    backlog,        \* connections waiting to be accepted
    sock,           \* "free", "open", "fin" and "reset" by the client
    unread,         \* there are bytes to recv
    fds,            \* fds[1] .. fds[user_counter]: [fd, events, revents]
    listenRevents,  \* fds[0] has POLLIN
    i,              \* the loop over the events; -1 before poll
    write_buf,      \* users[fd].write_buf is not null
    killed          \* the server has been killed by SIGPIPE

network == <<backlog, sock, unread>>
vars == <<network, fds, listenRevents, i, write_buf, killed>>

user_counter == Len(fds)

Init ==
    /\ backlog = 0
    /\ sock = [fd \in Fds |-> "free"]
    /\ unread = [fd \in Fds |-> FALSE]
    /\ fds = <<>> /\ listenRevents = FALSE
    /\ i = -1
    /\ write_buf = [fd \in Fds |-> FALSE]
    /\ killed = FALSE

-----------------------------------------------------------------------------
(* The clients.                                                            *)

connect ==
    /\ backlog < MaxBacklog
    /\ backlog' = backlog + 1
    /\ UNCHANGED <<sock, unread, fds, listenRevents, i, write_buf, killed>>

say(fd) ==
    /\ sock[fd] = "open" /\ ~unread[fd]
    /\ unread' = [unread EXCEPT ![fd] = TRUE]
    /\ UNCHANGED <<backlog, sock, fds, listenRevents, i, write_buf, killed>>

hangUp(fd) ==
    /\ \/ sock[fd] = "open" /\ sock' = [sock EXCEPT ![fd] = "fin"]
       \/ sock[fd] \in {"open", "fin"} /\ sock' = [sock EXCEPT ![fd] = "reset"]
    /\ UNCHANGED <<backlog, unread, fds, listenRevents, i, write_buf, killed>>

-----------------------------------------------------------------------------
(* The loop over the events, at an entry of the table.                     *)

revents(p) ==
    {e \in p.events :
        \/ e = "OUT"
        \/ e = "IN" /\ (unread[p.fd] \/ sock[p.fd] # "open")
        \/ e = "RDHUP" /\ sock[p.fd] # "open"}
    \cup (IF sock[p.fd] = "reset" THEN {"ERR"} ELSE {})

poll ==
    /\ i = -1 /\ ~killed
    /\ fds' = [k \in DOMAIN fds |-> [fds[k] EXCEPT !.revents = revents(fds[k])]]
    /\ listenRevents' = (backlog > 0)
    /\ listenRevents' \/ \E k \in DOMAIN fds' : fds'[k].revents # {}
    /\ i' = 0
    /\ UNCHANGED <<network, write_buf, killed>>

pollAgain ==
    /\ i = user_counter + 1 /\ ~killed
    /\ i' = -1
    /\ UNCHANGED <<network, fds, listenRevents, write_buf, killed>>

\* The listening socket; with USER_LIMIT users the new one is sent away.
accept ==
    /\ i = 0 /\ ~killed
    /\ i' = 1
    /\ \/ /\ listenRevents
          /\ backlog' = backlog - 1
          /\ \/ /\ user_counter >= USER_LIMIT
                /\ UNCHANGED <<sock, fds>>
             \/ /\ user_counter < USER_LIMIT
                /\ LET connfd == Min({fd \in Fds : sock[fd] = "free"})
                   IN /\ sock' = [sock EXCEPT ![connfd] = "open"]
                      /\ fds' = Append(fds, [fd |-> connfd, events |-> {"IN", "RDHUP"},
                                             revents |-> {}])
       \/ ~listenRevents /\ UNCHANGED <<backlog, sock, fds>>
    /\ UNCHANGED <<unread, listenRevents, write_buf, killed>>

At(e) == i \in DOMAIN fds /\ e \in fds[i].revents /\ ~killed

\* Mutation: the last entry is not moved to the place that is free.
leave_truncate ==
    LET fd == fds[i].fd
        last == fds[user_counter]
    IN /\ sock' = [sock EXCEPT ![fd] = "free"]
       /\ unread' = [unread EXCEPT ![fd] = FALSE]
       /\ write_buf' = [write_buf EXCEPT ![fd] = write_buf[last.fd]]
       /\ fds' = SubSeq(fds, 1, user_counter - 1)

(* The entry is closed and the last one moved to its place, with what poll *)
(* has reported for it: it comes next.  users[fd] becomes a copy of the    *)
(* last user's, of no use to anybody.                                      *)
leave ==
    LET fd == fds[i].fd
        last == fds[user_counter]
    IN /\ sock' = [sock EXCEPT ![fd] = "free"]
       /\ unread' = [unread EXCEPT ![fd] = FALSE]
       /\ write_buf' = [write_buf EXCEPT ![fd] = write_buf[last.fd]]
       /\ fds' = SubSeq([fds EXCEPT ![i] = last], 1, user_counter - 1)

\* POLLERR is only printed.
pollerr ==
    /\ At("ERR")
    /\ i' = i + 1
    /\ UNCHANGED <<network, fds, listenRevents, write_buf, killed>>

pollrdhup ==
    /\ At("RDHUP") /\ ~At("ERR")
    /\ leave
    /\ UNCHANGED <<backlog, listenRevents, i, killed>>

\* Mutation: the events of the others are set to POLLOUT, not changed to it.
askToWrite_set(p) == [p EXCEPT !.events = {"OUT"}]

askToWrite(p) == [p EXCEPT !.events = (@ \ {"IN"}) \cup {"OUT"}]

(* recv: bytes, which every other user is then to be sent; nothing when    *)
(* the client has closed; or an error after a reset, which ends the entry. *)
pollin ==
    /\ At("IN") /\ ~At("ERR") /\ ~At("RDHUP")
    /\ LET connfd == fds[i].fd
       IN \/ /\ unread[connfd]
             /\ unread' = [unread EXCEPT ![connfd] = FALSE]
             /\ fds' = [k \in DOMAIN fds |-> IF k = i THEN fds[k] ELSE askToWrite(fds[k])]
             /\ write_buf' = [fd \in Fds |-> \/ write_buf[fd]
                                             \/ \E k \in DOMAIN fds \ {i} : fds[k].fd = fd]
             /\ i' = i + 1
             /\ UNCHANGED sock
          \/ /\ ~unread[connfd] /\ sock[connfd] = "fin"
             /\ i' = i + 1
             /\ UNCHANGED <<sock, unread, fds, write_buf>>
          \/ /\ sock[connfd] = "reset"
             /\ leave
             /\ UNCHANGED i
    /\ UNCHANGED <<backlog, listenRevents, killed>>

\* Mutation: the entry goes on waiting for POLLOUT, with nothing to send.
listenAgain_forget(p) == p

listenAgain(p) == [p EXCEPT !.events = (@ \ {"OUT"}) \cup {"IN"}]

(* The text is sent, whatever becomes of it.  An error that send returns   *)
(* is gone from the socket, which then looks closed.                       *)
pollout ==
    /\ fds[i].revents = {"OUT"}
    /\ LET fd == fds[i].fd
       IN \/ /\ ~write_buf[fd]
             /\ i' = i + 1
             /\ UNCHANGED <<sock, fds, write_buf, killed>>
          \/ /\ write_buf[fd]
             /\ write_buf' = [write_buf EXCEPT ![fd] = FALSE]
             /\ fds' = [fds EXCEPT ![i] = listenAgain(@)]
             /\ i' = i + 1
             /\ \/ sock[fd] = "open" /\ UNCHANGED <<sock, killed>>
                \/ /\ sock[fd] = "fin"
                   /\ \E s \in {"fin", "reset"} : sock' = [sock EXCEPT ![fd] = s]
                   /\ UNCHANGED killed
                \/ /\ sock[fd] = "reset"
                   /\ sock' = [sock EXCEPT ![fd] = "fin"]
                   /\ killed' \in BOOLEAN
    /\ UNCHANGED <<backlog, unread, listenRevents>>

nothing ==
    /\ fds[i].revents = {}
    /\ i' = i + 1
    /\ UNCHANGED <<network, fds, listenRevents, write_buf, killed>>

-----------------------------------------------------------------------------
Server ==
    \/ poll \/ pollAgain \/ accept \/ pollerr \/ pollrdhup \/ pollin
    \/ i \in DOMAIN fds /\ ~killed /\ (pollout \/ nothing)

Next ==
    \/ connect
    \/ \E fd \in Fds : say(fd) \/ hangUp(fd)
    \/ Server

Spec == Init /\ [][Next]_vars

(* The server runs; clients do as they like.                               *)
FairSpec == Spec /\ WF_vars(Server)

-----------------------------------------------------------------------------
(* The table holds each open connection once and no other descriptor,      *)
(* however entries are moved while the events are gone through (lines 139  *)
(* to 145, 160 to 164): nobody is closed in somebody else's place.         *)
UsersTable ==
    /\ {fds[k].fd : k \in DOMAIN fds} = {fd \in Fds : sock[fd] # "free"}
    /\ \A k, l \in DOMAIN fds : fds[k].fd = fds[l].fd => k = l
    /\ user_counter <= USER_LIMIT

(* A user who is to be sent something is not heard (line 178): he is heard *)
(* again, or has left, or the server has ended.                            *)
events(fd) == UNION {fds[k].events : k \in {l \in DOMAIN fds : fds[l].fd = fd}}
HeardAgain ==
    \A fd \in Fds :
        sock[fd] = "open" /\ "OUT" \in events(fd)
            ~> killed \/ sock[fd] # "open" \/ "IN" \in events(fd)

(* A client that closes his end gives his place free (line 136), unless a  *)
(* reset comes first: that entry stays for good (line 132).                *)
PlacesFreed ==
    \A fd \in Fds : sock[fd] = "fin" ~> killed \/ sock[fd] \in {"free", "reset"}
=============================================================================
