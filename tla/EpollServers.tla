---------------------------- MODULE EpollServers ----------------------------
(***************************************************************************)
(* Three servers of Linux高性能服务器编程/src around epoll, with what they  *)
(* have in common: 9/3.cpp, whose events are handled by et, or by lt when  *)
(* the comment in main is moved; 9/4.cpp, where each event starts a thread *)
(* and EPOLLONESHOT keeps a second one away; and 10/1.cpp, where signals   *)
(* are bytes in a pipe.  A thread of 9/4 gets the address of a variable of *)
(* main's loop: when it reads it late it finds what main has put there     *)
(* since.                                                                  *)
(***************************************************************************)
EXTENDS Integers, Sequences, FiniteSets, FiniteSetsExt, SequencesExt

CONSTANTS
    Fds,            \* the descriptors accept may return
    Signals         \* those that are sent, of "HUP", "CHLD", "TERM" and "INT"

VARIABLES
    server,         \* which one it is: "lt", "et", "oneshot" or "signals"
    backlog, sock, unread,      \* as in EpollChat
    edge,           \* the descriptors with news for epoll_wait
    armed,          \* oneshot: those not reported since they were (re)set
    events,         \* what is left of the batch
    sockfd,         \* oneshot: fds_for_new_worker
    late,           \* oneshot: threads may read it late
    started,        \* oneshot: the number of threads that have yet to read it
    recving, rearming,          \* oneshot: the number of threads in recv, and
                                \* before reset_oneshot, for each descriptor
    sent, pending,  \* signals: sent so far, and not yet taken
    pipe,           \* signals: the bytes in pipefd
    stop_server

threads == <<sockfd, started, recving, rearming>>
signalled == <<sent, pending, pipe, stop_server>>
vars == <<server, late, backlog, sock, unread, edge, armed, events, threads, signalled>>

listenfd == 3
pipefd == 4
None == [fd \in Fds |-> 0]

\* What each main sets up before its loop.
main_et == server \in {"lt", "et"} /\ late = FALSE
main_oneshot == server = "oneshot" /\ late \in BOOLEAN
main_signals == server = "signals" /\ late = FALSE

Init ==
    /\ main_et \/ main_oneshot \/ main_signals
    /\ backlog = 0 /\ sock = [fd \in Fds |-> "free"] /\ unread = {}
    /\ edge = {} /\ armed = {} /\ events = <<>>
    /\ sockfd = listenfd /\ started = 0 /\ recving = None /\ rearming = None
    /\ sent = {} /\ pending = {} /\ pipe = <<>> /\ stop_server = FALSE

-----------------------------------------------------------------------------
(* Clients and signals.                                                    *)

Open == {fd \in Fds : sock[fd] # "free"}
Readable(fd) == fd \in unread \/ sock[fd] \in {"fin", "reset"}

connect ==
    /\ backlog + Cardinality(Open) < Cardinality(Fds)
    /\ backlog' = backlog + 1
    /\ edge' = edge \cup {listenfd}
    /\ UNCHANGED <<server, late, sock, unread, armed, events, threads, signalled>>

say(fd) ==
    /\ sock[fd] = "open" /\ fd \notin unread
    /\ unread' = unread \cup {fd} /\ edge' = edge \cup {fd}
    /\ UNCHANGED <<server, late, backlog, sock, armed, events, threads, signalled>>

hangUp(fd) ==
    /\ \/ sock[fd] = "open" /\ sock' = [sock EXCEPT ![fd] = "fin"]
       \/ sock[fd] \in {"open", "fin"} /\ sock' = [sock EXCEPT ![fd] = "reset"]
    /\ edge' = edge \cup {fd}
    /\ UNCHANGED <<server, late, backlog, unread, armed, events, threads, signalled>>

\* Signals with a handler.
addsig == {"HUP", "CHLD", "TERM", "INT"}

kill(sig) ==
    /\ server = "signals" /\ sig \in addsig \ sent
    /\ sent' = sent \cup {sig} /\ pending' = pending \cup {sig}
    /\ UNCHANGED <<server, late, backlog, sock, unread, edge, armed, events,
                   threads, pipe, stop_server>>

\* The handler, at any time: one byte to the pipe.
sig_handler(sig) ==
    /\ sig \in pending
    /\ pending' = pending \ {sig}
    /\ pipe' = Append(pipe, sig)
    /\ edge' = edge \cup {pipefd}
    /\ UNCHANGED <<server, late, backlog, sock, unread, armed, events, threads,
                   sent, stop_server>>

-----------------------------------------------------------------------------
(* main and the handlers of events.                                        *)

\* Mutation: connections are registered without EPOLLONESHOT.
Reported_always(fd) == IF server = "lt" THEN Readable(fd) ELSE fd \in edge

Reported(fd) ==
    CASE server = "lt" -> Readable(fd)
      [] server = "oneshot" -> fd \in edge \cap armed
      [] OTHER -> fd \in edge

\* The loop of main is left after the batch in which a signal said so.
goesOn == server = "signals" => ~stop_server

epoll_wait ==
    LET ready == {fd \in Open : Reported(fd)} \cup (edge \cap {listenfd, pipefd})
    IN /\ events = <<>> /\ ready # {} /\ goesOn
       /\ events' \in SetToSeqs(ready)
       /\ edge' = edge \ ready
       /\ armed' = armed \ ready
       /\ UNCHANGED <<server, late, backlog, sock, unread, threads, signalled>>

Handles(fd) == events # <<>> /\ Head(events) = fd

\* EPOLL_CTL_ADD of a new connection: news from now on, and one report of it.
addfd(connfd) == edge' = edge \ {connfd} /\ armed' = armed \cup {connfd}

\* Mutation: accept until none waits, and its answer is not looked at.
waiting_all == 0

\* One connection is taken for one event.
waiting == backlog - 1

accept ==
    /\ Handles(listenfd)
    /\ LET connfd == Min({fd \in Fds : sock[fd] = "free"})
       IN /\ sock' = [sock EXCEPT ![connfd] = "open"]
          /\ addfd(connfd)
    /\ backlog' = waiting
    /\ events' = Tail(events)
    /\ UNCHANGED <<server, late, unread, threads, signalled>>

\* recv returns bytes; 0 or an error, when the connection is closed.
recvText(fd) ==
    /\ fd \in unread /\ sock[fd] # "reset"
    /\ unread' = unread \ {fd}
    /\ UNCHANGED <<sock, edge, armed>>
recvEnd(fd) ==
    /\ sock[fd] = "reset" \/ (sock[fd] = "fin" /\ fd \notin unread)
    /\ sock' = [sock EXCEPT ![fd] = "free"]
    /\ unread' = unread \ {fd} /\ edge' = edge \ {fd} /\ armed' = armed \ {fd}
recvNothing(fd) ==
    /\ sock[fd] = "open" /\ fd \notin unread
    /\ UNCHANGED <<sock, unread, edge, armed>>

\* Once for the event.
lt(fd) ==
    /\ Handles(fd)
    /\ recvText(fd) \/ recvEnd(fd)
    /\ events' = Tail(events)
    /\ UNCHANGED <<server, late, backlog, threads, signalled>>

\* Mutation: once for the event, as if it were level-triggered.
et_once(fd) ==
    /\ Handles(fd)
    /\ recvText(fd) \/ recvEnd(fd) \/ recvNothing(fd)
    /\ events' = Tail(events)
    /\ UNCHANGED <<server, late, backlog, threads, signalled>>

\* Until recv has failed; a connection that is closed fails at the next turn.
et(fd) ==
    /\ Handles(fd)
    /\ \/ recvText(fd) /\ UNCHANGED events
       \/ (recvEnd(fd) \/ recvNothing(fd)) /\ events' = Tail(events)
    /\ UNCHANGED <<server, late, backlog, threads, signalled>>

readClient(fd) == et(fd)

\* Mutation: only the first of the bytes is looked at.
stops_first(signals) == 1 \in DOMAIN signals /\ signals[1] \in {"TERM", "INT"}

stops(signals) == \E k \in DOMAIN signals : signals[k] \in {"TERM", "INT"}

readSignals ==
    /\ Handles(pipefd)
    /\ stop_server' = (stop_server \/ stops(pipe))
    /\ pipe' = <<>>
    /\ events' = Tail(events)
    /\ UNCHANGED <<server, late, backlog, sock, unread, edge, armed, threads, sent, pending>>

\* pthread_create with the address of fds_for_new_worker.
startWorker(fd) ==
    /\ Handles(fd)
    /\ started = 0 \/ (late /\ started = 1)
    /\ sockfd' = fd
    /\ started' = started + 1
    /\ events' = Tail(events)
    /\ UNCHANGED <<server, late, backlog, sock, unread, edge, armed, recving,
                   rearming, signalled>>

readArgument ==
    /\ started > 0
    /\ started' = started - 1
    /\ recving' = [recving EXCEPT ![sockfd] = @ + 1]
    /\ UNCHANGED <<server, late, backlog, sock, unread, edge, armed, events,
                   sockfd, rearming, signalled>>

(* recv in a thread.  After an error other than EAGAIN it is called again, *)
(* and says then that the connection is closed; for a descriptor that      *)
(* another thread has closed it fails until somebody gets it from accept.  *)
worker(fd) ==
    /\ recving[fd] > 0
    /\ \/ recvText(fd) /\ UNCHANGED <<recving, rearming>>
       \/ /\ recvEnd(fd)
          /\ recving' = [recving EXCEPT ![fd] = @ - 1]
          /\ UNCHANGED rearming
       \/ /\ recvNothing(fd)
          /\ recving' = [recving EXCEPT ![fd] = @ - 1]
          /\ rearming' = [rearming EXCEPT ![fd] = @ + 1]
    /\ UNCHANGED <<server, late, backlog, events, sockfd, started, signalled>>

\* EPOLL_CTL_MOD: what can be read by now is news.
reset_oneshot(fd) ==
    /\ rearming[fd] > 0
    /\ rearming' = [rearming EXCEPT ![fd] = @ - 1]
    /\ armed' = armed \cup (Open \cap {fd})
    /\ edge' = IF Readable(fd) THEN edge \cup {fd} ELSE edge

-----------------------------------------------------------------------------
Main ==
    \/ epoll_wait \/ accept \/ readSignals
    \/ \E fd \in Fds : \/ server = "lt" /\ lt(fd)
                       \/ server = "et" /\ et(fd)
                       \/ server = "signals" /\ readClient(fd)
                       \/ server = "oneshot" /\ startWorker(fd)
Worker(fd) ==
    \/ worker(fd)
    \/ /\ reset_oneshot(fd)
       /\ UNCHANGED <<server, late, backlog, sock, unread, events, sockfd, started,
                      recving, signalled>>

Next ==
    \/ connect
    \/ \E fd \in Fds : say(fd) \/ hangUp(fd)
    \/ \E sig \in Signals : kill(sig) \/ sig_handler(sig)
    \/ Main \/ readArgument \/ \E fd \in Fds : Worker(fd)

Spec == Init /\ [][Next]_vars

(* The server runs, and so do its threads; signals are delivered.          *)
FairSpec ==
    /\ Spec /\ WF_vars(Main) /\ WF_vars(readArgument)
    /\ \A fd \in Fds : WF_vars(Worker(fd))
    /\ WF_vars(\E sig \in Signals : sig_handler(sig))

-----------------------------------------------------------------------------
(* The assertion of 10/1.cpp:80, which the other servers rely on without a *)
(* test: accept has a connection to return, although one event may stand   *)
(* for several connections and several events for one wait.                *)
AcceptReturns == Handles(listenfd) => backlog > 0

(* EPOLLONESHOT (9/4.cpp:42, 51): as long as the threads read their        *)
(* argument in time, one of them at a time works on a connection, it is    *)
(* open, and no event can start another one.                               *)
OneReader ==
    ~late => \A fd \in Fds :
        /\ recving[fd] + rearming[fd] <= 1
        /\ recving[fd] + rearming[fd] = 1 => sock[fd] # "free" /\ fd \notin armed

(* What clients say is read and connections they close are closed (9/3:99, *)
(* 9/4:77, 10/1:135), once nobody talks without end and with threads that  *)
(* read their argument in time.  A connection that waits behind another    *)
(* for the next event of listenfd is not yet open.                         *)
ClientsRead ==
    <>[][\A fd \in Fds : ~say(fd)]_vars => \A fd \in Fds :
        Readable(fd) ~> ~Readable(fd) \/ late \/ stop_server

(* TERM or INT ends the server, whatever else comes with it (10/1.cpp:115).*)
StopsOnSignal ==
    <>[][\A fd \in Fds : ~say(fd)]_vars => (sent \cap {"TERM", "INT"} # {} ~> stop_server)
=============================================================================
