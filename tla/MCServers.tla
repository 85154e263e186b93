------------------------------ MODULE MCServers ------------------------------
(***************************************************************************)
(* Three servers of Linux高性能服务器编程 that have nothing to do with each   *)
(* other, checked in one run: a behavior is a behavior of one of them, and *)
(* the variables of the others keep their first values.                    *)
(***************************************************************************)
EXTENDS ProcessPool

CONSTANTS TIMESLOT, TimedFds, USER_LIMIT, ChatFds, MaxBacklog

\* 11/3.cpp:18; descriptors are numbers.
ASSUME TimedAssumption == TIMESLOT \in Nat /\ TimedFds \subseteq Nat

\* 9/7.cpp:21, 25: there are more descriptors than users.
ASSUME ChatAssumption ==
    /\ ChatFds \subseteq Nat /\ IsFiniteSet(ChatFds)
    /\ USER_LIMIT \in Nat /\ USER_LIMIT <= Cardinality(ChatFds)

VARIABLES
    timedBacklog, arrival, timedPending, bytes, byteEdge, alarmIn, ready, pc,
    stop_server, timeout, timer_lst, open,
    chatBacklog, sock, unread, fds, listenRevents, i, write_buf, chatKilled,
    running     \* which server it is

Timed == INSTANCE TimedServer
            WITH Fds <- TimedFds, backlog <- timedBacklog, pending <- timedPending
Chat == INSTANCE ChatServer
            WITH Fds <- ChatFds, backlog <- chatBacklog, killed <- chatKilled

poolVars == vars
timedVars == <<timedBacklog, arrival, timedPending, bytes, byteEdge, alarmIn,
               ready, pc, stop_server, timeout, timer_lst, open>>
chatVars == <<chatBacklog, sock, unread, fds, listenRevents, i, write_buf,
              chatKilled>>
allVars == <<poolVars, timedVars, chatVars, running>>

-----------------------------------------------------------------------------
World(c, d, t, s) == [conns |-> c, deaths |-> d, terms |-> t, spaced |-> s]

\* Everything at once; clients and TERM one after the other; deaths and TERM
\* one after the other.
MCWorlds == {World(2, 2, 1, FALSE), World(2, 0, 1, TRUE), World(1, 2, 1, TRUE)}

MCInit ==
    /\ Init /\ Timed!Init /\ Chat!Init
    /\ running \in {"pool", "timed", "chat"}
    \* the pool has several initial states, which are one for the others
    /\ running # "pool" => world = World(2, 2, 1, FALSE)

Pool(step) == /\ running = "pool" /\ step
              /\ UNCHANGED <<timedVars, chatVars, running>>
InTime(step) == /\ running = "timed" /\ step
                /\ UNCHANGED <<poolVars, chatVars, running>>
InRoom(step) == /\ running = "chat" /\ step
                /\ UNCHANGED <<poolVars, timedVars, running>>

MCNext == Pool(Next) \/ InTime(Timed!Next) \/ InRoom(Chat!Next)

\* The fairness of the three specifications.  The loop of whichever server
\* it is gets the processor, and so do those around it: workers and their CGI
\* programs, or the clock and the signals.
TheServer == Pool(ParentStep) \/ InTime(Timed!Server) \/ InRoom(Chat!Server)
MCSpec ==
    /\ MCInit /\ [][MCNext]_allVars
    /\ WF_allVars(TheServer)
    /\ WF_allVars(InTime(Timed!second)) /\ WF_allVars(InTime(Timed!sig_handler))
    /\ \A c \in Workers : WF_allVars(Pool(WorkerStep(c))) /\ WF_allVars(Pool(cgiEnds(c)))

-----------------------------------------------------------------------------
(* StopExact and NoticesBacked of ProcessPool: the parent goes on exactly  *)
(* as long as it has a worker, and a notice in a pipe has a connection in  *)
(* the backlog behind it, or one that was taken (1_processpool.h:258, 341).*)
PoolExact == StopExact /\ NoticesBacked

(* OneTimerEach of TimedServer and UsersTable of ChatServer: connections   *)
(* and timers belong together one to one, in order, and the table of the   *)
(* users holds each connection once and nothing else (2_lst_timer.h:170,   *)
(* 7.cpp:139 to 145).                                                      *)
TablesTrue == Timed!OneTimerEach /\ Chat!UsersTable

(* WorkersStop and ParentStops of ProcessPool: after TERM the workers end, *)
(* and the parent with them (1_processpool.h:258, 271, 382).               *)
PoolStops == WorkersStop /\ ParentStops

(* ConnectionsClosed of TimedServer, HeardAgain and PlacesFreed of         *)
(* ChatServer: once the alarm is going, connections are closed when their  *)
(* time is up (3.cpp:75); a user waiting for POLLOUT gets his text and is  *)
(* heard again (7.cpp:178, 198); who closes his end leaves (7.cpp:136).    *)
UsersServed ==
    /\ running = "timed" => Timed!ConnectionsClosed
    /\ running = "chat" => Chat!HeardAgain /\ Chat!PlacesFreed
=============================================================================
