----------------------------- MODULE TimedServer -----------------------------
(***************************************************************************)
(* The server Linux高性能服务器编程/src/11/3.cpp, which closes connections    *)
(* by timers, with the ascending timer list of 11/2_lst_timer.h.           *)
(*                                                                         *)
(* The code never puts an accepted socket into its epoll descriptor, and   *)
(* the first alarm is commented out (line 139).  So every connection is    *)
(* closed by its timer, none by its client, and the timers start with the  *)
(* first SIGALRM from outside; ajust_timer and del_timer are not reached.  *)
(*                                                                         *)
(* Times are kept as what is left of them, so that the clock needs no      *)
(* bound: an expired timer has nothing left.                               *)
(***************************************************************************)
EXTENDS Integers, Sequences, SequencesExt, FiniteSetsExt

CONSTANTS
    TIMESLOT,
    Fds,            \* descriptors that accept may return, a set of numbers
    MaxBacklog      \* bound: connections that wait to be accepted

VARIABLES
    backlog, arrival,   \* the listening socket, and whether epoll has an edge
    pending,            \* SIGALRM, SIGTERM on the way to the process
    bytes, byteEdge,    \* what is in the pipe, and whether epoll has an edge
    alarmIn,            \* what is left until SIGALRM; 0 when no alarm is set
    ready,              \* the rest of what epoll_wait returned
    pc,                 \* "wait", "events", "end"
    stop_server, timeout,
    timer_lst,          \* the list from its head: [sockfd, left]
    open                \* the descriptors of connections

listening == <<backlog, arrival>>
signals == <<pending, bytes, byteEdge>>
server == <<ready, pc, stop_server, timeout>>
vars == <<listening, signals, alarmIn, server, timer_lst, open>>

Init ==
    /\ backlog = 0 /\ arrival = FALSE
    /\ pending = {} /\ bytes = {} /\ byteEdge = FALSE
    /\ alarmIn = 0
    /\ ready = {}
    /\ pc = "wait"
    /\ stop_server = FALSE /\ timeout = FALSE
    /\ timer_lst = <<>>
    /\ open = {}

-----------------------------------------------------------------------------
(* The environment.                                                        *)

connect ==
    /\ pc # "end" /\ backlog < MaxBacklog
    /\ backlog' = backlog + 1
    /\ arrival' = TRUE
    /\ UNCHANGED <<signals, alarmIn, server, timer_lst, open>>

kill(sig) ==
    /\ pc # "end"
    /\ pending' = pending \cup {sig}
    /\ UNCHANGED <<listening, bytes, byteEdge, alarmIn, server, timer_lst, open>>

\* A second passes: all that is left of times becomes less.
second ==
    /\ pc # "end"
    /\ timer_lst' = [k \in DOMAIN timer_lst |->
                        [timer_lst[k] EXCEPT !.left = Max({0, @ - 1})]]
    /\ alarmIn' = Max({0, alarmIn - 1})
    /\ pending' = IF alarmIn = 1 THEN pending \cup {"ALRM"} ELSE pending
    /\ UNCHANGED <<listening, bytes, byteEdge, server, open>>

sig_handler ==
    /\ pc # "end"
    /\ \E sig \in pending :
          /\ pending' = pending \ {sig}
          /\ bytes' = bytes \cup {sig}
    /\ byteEdge' = TRUE
    /\ UNCHANGED <<listening, alarmIn, server, timer_lst, open>>

-----------------------------------------------------------------------------
(* sort_timer_lst.                                                         *)

\* Mutation: a list that is not empty takes every timer at its head.
add_timer_first(lst, timer) == <<timer>> \o lst

\* add_timer: before the first timer that expires later.
add_timer(lst, timer) ==
    LET later == {k \in DOMAIN lst : timer.left < lst[k].left}
    IN IF later = {} THEN Append(lst, timer) ELSE InsertAt(lst, Min(later), timer)

\* The timers tick takes off: it stops at the first that has not expired.
expired(lst) ==
    Max({n \in 0 .. Len(lst) : \A k \in 1 .. n : lst[k].left = 0})

-----------------------------------------------------------------------------
(* main.                                                                   *)

epoll_wait ==
    /\ pc = "wait" /\ ~stop_server
    /\ ready' = (IF arrival /\ backlog > 0 THEN {"listenfd"} ELSE {})
                \cup (IF byteEdge /\ bytes # {} THEN {"pipefd"} ELSE {})
    /\ ready' # {}
    /\ arrival' = FALSE /\ byteEdge' = FALSE
    /\ pc' = "events"
    /\ UNCHANGED <<backlog, pending, bytes, alarmIn, stop_server, timeout, timer_lst, open>>

\* accept, once for each event, and a timer for the connection.
accept ==
    /\ pc = "events" /\ "listenfd" \in ready
    /\ ready' = ready \ {"listenfd"}
    /\ \/ /\ Fds \subseteq open
          /\ UNCHANGED <<backlog, timer_lst, open>>
       \/ /\ ~(Fds \subseteq open)
          /\ backlog' = backlog - 1
          /\ LET connfd == Min(Fds \ open)
             IN /\ open' = open \cup {connfd}
                /\ timer_lst' = add_timer(timer_lst, [sockfd |-> connfd, left |-> 3 * TIMESLOT])
    /\ UNCHANGED <<arrival, signals, alarmIn, pc, stop_server, timeout>>

readSignals ==
    /\ pc = "events" /\ "pipefd" \in ready
    /\ ready' = ready \ {"pipefd"}
    /\ bytes' = {}
    /\ stop_server' = (stop_server \/ "TERM" \in bytes)
    /\ timeout' = (timeout \/ "ALRM" \in bytes)
    /\ UNCHANGED <<listening, pending, byteEdge, alarmIn, pc, timer_lst, open>>

\* Mutation: the alarm is not set again by a tick that found nothing to do.
nextAlarm_lazy == IF expired(timer_lst) = 0 THEN alarmIn ELSE TIMESLOT

nextAlarm == TIMESLOT

(* After the events: timer_handler, which takes the expired timers off,    *)
(* closes their connections and sets the alarm, and the loop's test.       *)
endOfEvents ==
    /\ pc = "events" /\ ready = {}
    /\ \/ /\ timeout
          /\ open' = open \ {timer_lst[k].sockfd : k \in 1 .. expired(timer_lst)}
          /\ timer_lst' = SubSeq(timer_lst, expired(timer_lst) + 1, Len(timer_lst))
          /\ alarmIn' = nextAlarm
       \/ /\ ~timeout
          /\ UNCHANGED <<open, timer_lst, alarmIn>>
    /\ timeout' = FALSE
    /\ pc' = IF stop_server THEN "end" ELSE "wait"
    /\ UNCHANGED <<listening, signals, ready, stop_server>>

-----------------------------------------------------------------------------
Server == epoll_wait \/ accept \/ readSignals \/ endOfEvents

Next ==
    \/ connect \/ second \/ sig_handler
    \/ \E sig \in {"ALRM", "TERM"} : kill(sig)
    \/ Server

Spec == Init /\ [][Next]_vars

(* Time passes, signals arrive, and the server gets the processor.         *)
FairSpec ==
    Spec /\ WF_vars(second) /\ WF_vars(sig_handler) /\ WF_vars(Server)

-----------------------------------------------------------------------------
(* Each connection has one timer and each timer a connection, although the *)
(* kernel gives a closed descriptor to the next client, and the timers     *)
(* stand in the order of their times, so that tick may stop at the first   *)
(* that has not expired (2_lst_timer.h:170): no timer closes a descriptor  *)
(* that belongs to somebody else by now.                                   *)
OneTimerEach ==
    /\ {timer_lst[k].sockfd : k \in DOMAIN timer_lst} = open
    /\ \A k, l \in DOMAIN timer_lst :
          k < l => /\ timer_lst[k].sockfd # timer_lst[l].sockfd
                   /\ timer_lst[k].left <= timer_lst[l].left

(* Once a SIGALRM has come, connections are closed when their time is up,  *)
(* since each tick sets the next alarm (3.cpp:75), unless the server ends. *)
Ticking == alarmIn > 0 \/ "ALRM" \in pending \cup bytes \/ timeout
ConnectionsClosed ==
    \A fd \in Fds : Ticking /\ fd \in open ~> fd \notin open \/ pc = "end"
=============================================================================
