----------------------------- MODULE EpollChat ------------------------------
(***************************************************************************)
(* The chat room of Linux高性能服务器编程/src/9/7_epoll.cpp.  A connection   *)
(* is watched for EPOLLIN, edge-triggered, or while there is something to  *)
(* send it for EPOLLOUT.  Whom to send to is read from user_fds, which is  *)
(* filled at user_counter and never compacted, and one entry too far: the  *)
(* value of an entry that was never written, or is not in the array, is    *)
(* anything.  What is said during one event is taken to fit into a buffer. *)
(* What was said before a reset may still be received, or not.             *)
(***************************************************************************)
EXTENDS Integers, Sequences, FiniteSets, FiniteSetsExt, SequencesExt

CONSTANTS
    USER_LIMIT,
    Fds,            \* the descriptors accept may return, at least USER_LIMIT
    MaxBacklog      \* bound: connections waiting to be accepted

VARIABLES
    backlog,
    sock,           \* "free", "open", "fin" and "reset" by the client
    unread,         \* there are bytes to recv
    interest,       \* what the descriptor is registered for: "in" or "out"
    edge,           \* the descriptors, listenfd too, with news for epoll_wait
    deaf,           \* garbage was listenfd, which is no longer watched for EPOLLIN
    events,         \* what is left of the batch: pairs of descriptor and event
    user_fds, user_counter,
    write_buf,      \* users[fd].write_buf is not null
    killed          \* by SIGPIPE, or by garbage far outside of users

network == <<backlog, sock, unread>>
vars == <<network, interest, edge, deaf, events, user_fds, user_counter,
          write_buf, killed>>

listenfd == 3
nobody == 0         \* a number that is no open descriptor
outside == -1       \* a number that takes users + fd out of the memory
Unset == -2

Init ==
    /\ backlog = 0 /\ sock = [fd \in Fds |-> "free"] /\ unread = {}
    /\ interest = [fd \in Fds |-> "in"] /\ edge = {} /\ deaf = FALSE
    /\ events = <<>>
    /\ user_fds = [k \in 0 .. USER_LIMIT |-> Unset] /\ user_counter = 0
    /\ write_buf = {} /\ killed = FALSE

-----------------------------------------------------------------------------
(* The clients.                                                            *)

connect ==
    /\ backlog < MaxBacklog
    /\ backlog' = backlog + 1
    /\ edge' = edge \cup {listenfd}
    /\ UNCHANGED <<sock, unread, interest, deaf, events, user_fds, user_counter,
                   write_buf, killed>>

say(fd) ==
    /\ sock[fd] = "open" /\ fd \notin unread
    /\ unread' = unread \cup {fd}
    /\ edge' = edge \cup {fd}
    /\ UNCHANGED <<backlog, sock, interest, deaf, events, user_fds, user_counter,
                   write_buf, killed>>

hangUp(fd) ==
    /\ \/ sock[fd] = "open" /\ sock' = [sock EXCEPT ![fd] = "fin"]
       \/ sock[fd] \in {"open", "fin"} /\ sock' = [sock EXCEPT ![fd] = "reset"]
    /\ edge' = edge \cup {fd}
    /\ UNCHANGED <<backlog, unread, interest, deaf, events, user_fds,
                   user_counter, write_buf, killed>>

-----------------------------------------------------------------------------
(* doit, at the event at the head of the batch.                            *)

Open == {fd \in Fds : sock[fd] # "free"}
Handles(fd, event) == ~killed /\ events # <<>> /\ Head(events) = <<fd, event>>
Readable(fd) == fd \in unread \/ sock[fd] \in {"fin", "reset"}

\* EPOLLOUT is level-triggered, and there is always room to send.
epoll_wait ==
    LET ready == {<<fd, "in">> : fd \in {f \in Open \cap edge : interest[f] = "in"}}
                 \cup {<<fd, "out">> : fd \in {f \in Open : interest[f] = "out"}}
                 \cup {<<fd, "in">> : fd \in IF deaf THEN {} ELSE edge \cap {listenfd}}
    IN /\ ~killed /\ events = <<>> /\ ready # {}
       /\ events' \in SetToSeqs(ready)
       /\ edge' = {}
       /\ UNCHANGED <<network, interest, deaf, user_fds, user_counter, write_buf,
                      killed>>

\* One accept for the event, however many connections it stands for.
accept ==
    /\ Handles(listenfd, "in")
    /\ events' = Tail(events)
    /\ backlog' = IF backlog = 0 THEN 0 ELSE backlog - 1
    /\ IF backlog = 0 \/ user_counter >= USER_LIMIT
       THEN UNCHANGED <<sock, interest, edge, user_fds, user_counter>>
       ELSE LET connfd == Min({fd \in Fds : sock[fd] = "free"})
            IN /\ sock' = [sock EXCEPT ![connfd] = "open"]
               /\ interest' = [interest EXCEPT ![connfd] = "in"]
               /\ edge' = edge \ {connfd}
               /\ user_fds' = [user_fds EXCEPT ![user_counter] = connfd]
               /\ user_counter' = user_counter + 1
    /\ UNCHANGED <<unread, deaf, write_buf, killed>>

\* Mutation: recv is called once for the event.
nextRecv_never == Tail(events)

\* After recv has returned bytes it is called again.
nextRecv == events

\* recv returns bytes: entries 0 to user_counter of user_fds are to be sent them.
recvText(fd) ==
    /\ fd \in unread
    /\ unread' = unread \ {fd}
    /\ \E garbage \in Fds \cup {nobody, listenfd, outside} :
          LET entry(k) == IF user_fds[k] = Unset THEN garbage ELSE user_fds[k]
              to == {entry(k) : k \in 0 .. user_counter} \ {fd}
              modified == to \cap Open
          IN /\ killed' = (outside \in to)
             /\ deaf' = (deaf \/ listenfd \in to)
             /\ write_buf' = write_buf \cup (to \cap Fds)
             /\ interest' = [f \in Fds |-> IF f \in modified THEN "out" ELSE interest[f]]
             /\ edge' = edge \ modified
    /\ events' = nextRecv
    /\ UNCHANGED <<backlog, sock, user_fds, user_counter>>

\* Mutation: the counter of users is left as it is.
recvEnd_forget(fd) ==
    /\ sock' = [sock EXCEPT ![fd] = "free"]
    /\ user_counter' = user_counter

(* recv returns 0, and after the close EBADF, or at once an error: the     *)
(* connection is closed.  The entry of user_fds stays what it is.          *)
recvEnd(fd) ==
    /\ sock' = [sock EXCEPT ![fd] = "free"]
    /\ user_counter' = user_counter - 1

pollin(fd) ==
    /\ Handles(fd, "in")
    /\ \/ recvText(fd)
       \/ /\ sock[fd] = "open" /\ fd \notin unread      \* EAGAIN
          /\ events' = Tail(events)
          /\ UNCHANGED <<network, interest, edge, deaf, user_fds, user_counter,
                         write_buf, killed>>
       \/ /\ sock[fd] = "reset" \/ (sock[fd] = "fin" /\ fd \notin unread)
          /\ recvEnd(fd)
          /\ unread' = unread \ {fd} /\ edge' = edge \ {fd}
          /\ events' = Tail(events)
          /\ UNCHANGED <<backlog, interest, deaf, user_fds, write_buf, killed>>

\* Mutation: the descriptor goes on being watched for EPOLLOUT.
listenAgain_never(fd) == UNCHANGED <<interest, edge>>

\* EPOLL_CTL_MOD: what can be read already counts as news.
listenAgain(fd) ==
    /\ interest' = [interest EXCEPT ![fd] = "in"]
    /\ edge' = IF Readable(fd) THEN edge \cup {fd} ELSE edge \ {fd}

(* What is to be sent is sent, whatever becomes of it; an error that send  *)
(* returns is gone from the socket, which then looks closed.               *)
pollout(fd) ==
    /\ Handles(fd, "out")
    /\ events' = Tail(events)
    /\ \/ /\ fd \notin write_buf
          /\ UNCHANGED <<sock, interest, edge, write_buf, killed>>
       \/ /\ fd \in write_buf
          /\ write_buf' = write_buf \ {fd}
          /\ listenAgain(fd)
          /\ \/ sock[fd] = "open" /\ UNCHANGED <<sock, killed>>
             \/ /\ sock[fd] = "fin"
                /\ \E s \in {"fin", "reset"} : sock' = [sock EXCEPT ![fd] = s]
                /\ UNCHANGED killed
             \/ /\ sock[fd] = "reset"
                /\ sock' = [sock EXCEPT ![fd] = "fin"]
                /\ killed' \in BOOLEAN
    /\ UNCHANGED <<backlog, unread, deaf, user_fds, user_counter>>

-----------------------------------------------------------------------------
Server == epoll_wait \/ accept \/ \E fd \in Fds : pollin(fd) \/ pollout(fd)

Next ==
    \/ connect
    \/ \E fd \in Fds : say(fd) \/ hangUp(fd)
    \/ Server

Spec == Init /\ [][Next]_vars

(* The server runs; clients do as they like.                               *)
FairSpec == Spec /\ WF_vars(Server)

-----------------------------------------------------------------------------
(* The counter, by which the size of the batch, the next place in user_fds *)
(* and the limit are told (lines 84, 96, 214), is the number of open       *)
(* connections, although a connection is closed twice (lines 121, 128).    *)
CounterExact ==
    /\ user_counter = Cardinality(Open)
    /\ user_counter <= USER_LIMIT

(* A user who is watched for EPOLLOUT is heard again (line 159), unless    *)
(* some client talks so fast that recv never returns EAGAIN (line 104).    *)
HeardAgain ==
    []<>(events = <<>> \/ killed) => \A fd \in Fds :
        interest[fd] = "out" ~> killed \/ interest[fd] = "in" \/ sock[fd] = "free"

(* When clients go on talking, one who has closed his end may be watched   *)
(* for EPOLLOUT at every epoll_wait.  Once they are quiet he is closed     *)
(* here, too, though his end may be reported with his last words.          *)
PlacesFreed ==
    <>[][\A fd \in Fds : ~say(fd)]_vars => \A fd \in Fds :
        sock[fd] \in {"fin", "reset"} ~> killed \/ sock[fd] \in {"free", "open"}
=============================================================================
