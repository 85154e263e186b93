------------------------------ MODULE MCSockets ------------------------------
(***************************************************************************)
(* Servers and clients around sockets, in one run: a behavior is one of    *)
(* one program.  The chat room with epoll, the three servers with epoll    *)
(* and the echo servers share the variables of the network.                *)
(***************************************************************************)
EXTENDS Integers, FiniteSets

CONSTANTS USER_LIMIT, Fds, MaxBacklog, Signals, Kids

\* accept returns none of the descriptors that are open before the first client:
\* the standard ones, listenfd and the pipe of the signals.
ASSUME FdsAssumption == IsFiniteSet(Fds) /\ Fds \subseteq Nat \ (0 .. 4)

\* 9/7_epoll.cpp:20, 24: there are more descriptors than users.
ASSUME LimitAssumption == USER_LIMIT \in Nat /\ USER_LIMIT <= Cardinality(Fds)

VARIABLES
    running,    \* which of the four modules it is
    backlog, sock, unread, edge, events, killed,
    interest, deaf, user_fds, user_counter, write_buf,
    server, armed, sockfd, late, started, recving, rearming, sent, pending,
    pipe, stop_server,
    prog, text, client, maxi, allset, maxfd, ready, nready, i, kid, chld, pc,
    program, before, after, oob, fin, urg, interrupted, lost, stdin, reset, at

Chat == INSTANCE EpollChat
Servers == INSTANCE EpollServers
Echo == INSTANCE EchoServers
One == INSTANCE OneConnection WITH prog <- program, pc <- at

network == <<backlog, sock, unread, edge, events, killed>>
chatVars == <<interest, deaf, user_fds, user_counter, write_buf>>
serverVars == <<server, armed, sockfd, late, started, recving, rearming, sent,
                pending, pipe, stop_server>>
echoVars == <<prog, text, client, maxi, allset, maxfd, ready, nready, i, kid,
              chld, pc>>
oneVars == <<program, before, after, oob, fin, urg, interrupted, lost, stdin, reset,
             at>>
allVars == <<running, network, chatVars, serverVars, echoVars, oneVars>>

\* The variables of the programs that do not run have one value.
MCInit ==
    /\ running \in {"chat", "servers", "echo", "one"}
    /\ Chat!Init /\ Servers!Init /\ Echo!Init /\ One!Init
    /\ running # "servers" => server = "lt" /\ ~late
    /\ running # "echo" => prog = "poll"
    /\ running # "one" => program = "select"

InChat(step) == /\ running = "chat" /\ step
                /\ UNCHANGED <<running, serverVars, echoVars, oneVars>>
InServer(step) == /\ running = "servers" /\ step
                  /\ UNCHANGED <<running, killed, chatVars, echoVars, oneVars>>
InEcho(step) == /\ running = "echo" /\ step
                /\ UNCHANGED <<running, unread, edge, events, chatVars, serverVars, oneVars>>
InOne(step) == /\ running = "one" /\ step
               /\ UNCHANGED <<running, network, chatVars, serverVars, echoVars>>

MCNext ==
    \/ InChat(Chat!Next) \/ InServer(Servers!Next) \/ InEcho(Echo!Next) \/ InOne(One!Next)

\* The fairness of the four specifications: whichever program it is runs, and
\* so do its threads and its handlers of signals, of which it gets finitely many.
TheProgram == InChat(Chat!Server) \/ InServer(Servers!Main) \/ InEcho(Echo!Loop)
              \/ InOne(One!Program)
TheHandlers == InServer(Servers!readArgument) \/ InEcho(Echo!Parent)
               \/ InServer(\E sig \in Signals : Servers!sig_handler(sig))
MCSpec ==
    /\ MCInit /\ [][MCNext]_allVars
    /\ WF_allVars(TheProgram)
    /\ WF_allVars(TheHandlers)
    /\ \A fd \in Fds : WF_allVars(InServer(Servers!Worker(fd)))

-----------------------------------------------------------------------------
(* CounterExact of EpollChat and TableExact of EchoServers: the counter,   *)
(* the table and the sets for poll and select are those of the connections *)
(* that are open (7_epoll.cpp:96, tcpservpoll01.c:66, tcpservselect01:54). *)
TablesExact ==
    /\ running = "chat" => Chat!CounterExact
    /\ running = "echo" => Echo!TableExact

(* AcceptReturns and OneReader of EpollServers: accept is not called in    *)
(* vain (10/1.cpp:80), and EPOLLONESHOT keeps a second thread away as long *)
(* as the first is not done (9/4.cpp:77).                                  *)
EventsTrue == running = "servers" => Servers!AcceptReturns /\ Servers!OneReader

(* UrgentTaken of OneConnection: the handler takes an urgent byte that has *)
(* come when it asks before it is passed over (10/3.cpp:58).               *)
UrgentTaken == running = "one" => One!UrgentTaken

(* HeardAgain and PlacesFreed of EpollChat, ClientsRead of EpollServers,   *)
(* LinesEchoed of EchoServers and ConnectionEnds of OneConnection: what    *)
(* clients say is read, and connections they close are closed.             *)
ConnectionsServed ==
    /\ running = "chat" => Chat!HeardAgain /\ Chat!PlacesFreed
    /\ running = "servers" => Servers!ClientsRead
    /\ running = "echo" => Echo!LinesEchoed
    /\ running = "one" => One!ConnectionEnds

(* StopsOnSignal of EpollServers and ChildrenReaped of EchoServers: TERM   *)
(* or INT ends the server (10/1.cpp:115); the handler of SIGCHLD returns,  *)
(* accept goes on, and tcpserv04 leaves no zombie (tcpserv01.c:10,         *)
(* tcpserv04.c:11).                                                        *)
SignalsHandled ==
    /\ running = "servers" => Servers!StopsOnSignal
    /\ running = "echo" => Echo!ChildrenReaped
=============================================================================
