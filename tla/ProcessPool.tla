----------------------------- MODULE ProcessPool -----------------------------
(***************************************************************************)
(* The pool of worker processes of Linux高性能服务器编程/src/15,                *)
(* 1_processpool.h: a parent that watches the listening socket and sends   *)
(* a notice over a socket pair to the first worker it knows, workers that  *)
(* accept one connection per notice, and signals turned into bytes of a    *)
(* signal pipe.  Three things make it hard.                                *)
(*                                                                         *)
(*   - epoll is used with EPOLLET: several connections (or notices) that   *)
(*     arrive before epoll_wait make one event, and one event is answered  *)
(*     with one notice (or one accept).                                    *)
(*   - A signal is pending at most once, so the death of several workers   *)
(*     may make one SIGCHLD byte, and the bytes are handled later than the *)
(*     deaths they tell of.                                                *)
(*   - m_stop is set by every byte and cleared when, during a reaping loop,*)
(*     a worker is found that is still known.                              *)
(*                                                                         *)
(* The connections of a worker belong to the cgi_conn of 2_cgi_conn.cpp,   *)
(* seen from the pool: a request either ends the connection or forks a CGI *)
(* process as well.  SIGINT and SIGTERM are treated alike by the code and  *)
(* are both written TERM.                                                  *)
(***************************************************************************)
EXTENDS Integers, FiniteSets, Sequences, FiniteSetsExt

CONSTANTS
    m_process_number,   \* how many workers the constructor forks
    Worlds              \* the surroundings the pool may find itself in, with
                        \* the bounds on what they do to it:
                        \*   conns   connections that clients make
                        \*   deaths  workers killed from outside
                        \*   terms   TERM signals sent to the parent
                        \*   spaced  a client waits for the clients before
                        \*           it, a signal for the signals before it

ASSUME PoolAssumption ==
    /\ m_process_number \in 1 .. 16     \* MAX_PROCESS_NUMBER
    /\ \A w \in Worlds : /\ {w.conns, w.deaths, w.terms} \subseteq Nat
                         /\ w.spaced \in BOOLEAN

Workers == 0 .. m_process_number - 1
Signal == {"TERM", "CHLD"}

VARIABLES
    \* the listening socket
    arrived,        \* connections made so far
    backlog,        \* those nobody has accepted
    listenReady,    \* an arrival epoll has not reported yet
    sigReady,       \* and a byte of the parent's signal pipe
    \* the parent
    ppc,            \* "setup", "wait", "events", "signals", "reaping", "done"
    events,         \* the rest of what epoll_wait returned
    pending,        \* signals pending for the parent
    sig_pipe,       \* bytes its handlers have written
    signals,        \* bytes received and not yet handled
    m_stop,
    m_pid,          \* the workers whose m_pid is not -1
    killed,         \* history: the parent has sent TERM to the workers
    unseen,         \* history: workers that died before addsig(SIGCHLD)
    \* the workers
    proc,           \* "running", "zombie", "gone"
    wpc,            \* "setup", "wait", "events", "reaping"
    wevents, wsignals, wstop,
    pipefd,         \* notices in the pair of each worker
    pipeReady,      \* one of them is not reported yet
    conns,          \* open connections of each worker
    cgi,            \* CGI processes of each worker that still run
    \* the environment
    world,          \* the one of Worlds this behavior is in
    deaths, terms

listening == <<arrived, backlog, listenReady, sigReady>>
parent == <<ppc, events, pending, sig_pipe, signals, m_stop, m_pid, killed,
            unseen>>
workers == <<proc, wpc, wevents, wsignals, wstop, pipefd, pipeReady, conns, cgi>>
bounds == <<world, deaths, terms>>
vars == <<listening, parent, workers, bounds>>

\* Once the constructor has forked every worker.
Init ==
    /\ arrived = 0 /\ backlog = 0 /\ listenReady = FALSE /\ sigReady = FALSE
    /\ ppc = "setup"
    /\ events = {} /\ pending = {} /\ sig_pipe = <<>> /\ signals = <<>>
    /\ m_stop = FALSE
    /\ m_pid = Workers
    /\ killed = FALSE /\ unseen = {}
    /\ proc = [c \in Workers |-> "running"]
    /\ wpc = [c \in Workers |-> "setup"]
    /\ wevents = [c \in Workers |-> {}]
    /\ wsignals = [c \in Workers |-> {}]
    /\ wstop = [c \in Workers |-> FALSE]
    /\ pipefd = [c \in Workers |-> 0]
    /\ pipeReady = [c \in Workers |-> FALSE]
    /\ conns = [c \in Workers |-> 0]
    /\ cgi = [c \in Workers |-> 0]
    /\ world \in Worlds
    /\ deaths = 0 /\ terms = 0

Running(c) == proc[c] = "running"

\* No signal is on its way to the parent and no death is left to reap.
Quiet ==
    /\ pending = {} /\ sig_pipe = <<>> /\ signals = <<>>
    /\ ppc \notin {"setup", "reaping"}
    /\ \A c \in Workers : proc[c] # "zombie"

-----------------------------------------------------------------------------
(* The environment: clients, operators, the kernel.                        *)

connect ==
    /\ arrived < world.conns
    /\ world.spaced => backlog = 0
    /\ arrived' = arrived + 1
    /\ backlog' = backlog + 1
    /\ listenReady' = TRUE
    /\ UNCHANGED <<parent, workers, bounds, sigReady>>

\* A signal for the parent; before addsig, SIGCHLD is ignored and TERM kills.
Raise(sig) ==
    IF ppc = "setup"
    THEN /\ ppc' = IF sig = "TERM" THEN "done" ELSE ppc
         /\ UNCHANGED pending
    ELSE /\ pending' = IF ppc = "done" THEN pending ELSE pending \cup {sig}
         /\ UNCHANGED ppc

terminate ==
    /\ terms < world.terms /\ ppc # "done"
    /\ world.spaced => Quiet
    /\ terms' = terms + 1
    /\ Raise("TERM")
    /\ UNCHANGED <<listening, workers, world, deaths, events, sig_pipe, signals,
                   m_stop, m_pid, killed, unseen>>

\* Worker c has ended: the kernel keeps a zombie and tells its parent.
Die(c) ==
    /\ proc' = [proc EXCEPT ![c] = "zombie"]
    /\ wpc' = [wpc EXCEPT ![c] = "wait"]
    /\ wevents' = [wevents EXCEPT ![c] = {}]
    /\ wsignals' = [wsignals EXCEPT ![c] = {}]
    /\ conns' = [conns EXCEPT ![c] = 0]
    /\ Raise("CHLD")
    /\ unseen' = IF ppc = "setup" THEN unseen \cup {c} ELSE unseen
    /\ UNCHANGED <<events, sig_pipe, signals, m_stop, m_pid, killed,
                   wstop, pipefd, pipeReady, cgi>>

crash(c) ==
    /\ Running(c) /\ deaths < world.deaths
    /\ world.spaced => Quiet
    /\ deaths' = deaths + 1
    /\ Die(c)
    /\ UNCHANGED <<listening, world, terms>>

\* sig_handler of the parent: one pending signal becomes a byte of the pipe.
sig_handler ==
    /\ ppc # "done"
    /\ \E sig \in pending :
          /\ pending' = pending \ {sig}
          /\ sig_pipe' = Append(sig_pipe, sig)
    /\ sigReady' = TRUE
    /\ UNCHANGED <<arrived, backlog, listenReady, workers, bounds, ppc, events, signals, m_stop,
                   m_pid, unseen, killed>>

-----------------------------------------------------------------------------
(* run_parent.                                                             *)

setup_sig_pipe ==
    /\ ppc = "setup"
    /\ ppc' = "wait"
    /\ UNCHANGED <<listening, workers, bounds, events, pending, sig_pipe,
                   signals, m_stop, m_pid, unseen, killed>>

\* The loop's test and epoll_wait, which reports an arrival only once, and
\* a byte of the signal pipe as well (addfd, line 34).
parentWait ==
    /\ ppc = "wait" /\ ~m_stop
    /\ events' = (IF listenReady /\ backlog > 0 THEN {"listen"} ELSE {})
                 \cup (IF sigReady /\ sig_pipe # <<>> THEN {"signal"} ELSE {})
    /\ events' # {}
    /\ listenReady' = FALSE /\ sigReady' = FALSE
    /\ ppc' = "events"
    /\ UNCHANGED <<workers, bounds, arrived, backlog, pending, sig_pipe,
                   signals, m_stop, m_pid, unseen, killed>>

parentEndsBatch ==
    /\ ppc = "events" /\ events = {}
    /\ ppc' = "wait"
    /\ UNCHANGED <<listening, workers, bounds, events, pending, sig_pipe,
                   signals, m_stop, m_pid, unseen, killed>>

\* The loop left: the process closes its descriptors and ends.
parentReturns ==
    /\ ppc = "wait" /\ m_stop
    /\ ppc' = "done"
    /\ UNCHANGED <<listening, workers, bounds, events, pending, sig_pipe,
                   signals, m_stop, m_pid, unseen, killed>>

\* Mutation: the socket is watched as if every event were a new arrival, and
\* a notice goes to every known worker.
notify_all ==
    /\ ppc = "events" /\ "listen" \in events
    /\ events' = events \ {"listen"}
    /\ pipefd' = [c \in Workers |-> IF c \in m_pid THEN pipefd[c] + 1 ELSE pipefd[c]]
    /\ pipeReady' = [c \in Workers |-> c \in m_pid \/ pipeReady[c]]
    /\ UNCHANGED <<listening, bounds, ppc, pending, sig_pipe, signals, m_stop,
                   m_pid, unseen, killed, proc, wpc, wevents, wsignals, wstop, conns, cgi>>

(* The event of the listening socket.  sub_child_counter is never          *)
(* advanced, so the search always ends at the first worker that is known.  *)
(* When there is none, `break` leaves the loop over the events, and the    *)
(* bytes of the signal pipe wait for the next signal.  What is sent to a   *)
(* worker that is dead and not reaped is lost.                             *)
notify ==
    /\ ppc = "events" /\ "listen" \in events
    /\ \/ /\ m_pid = {}
          /\ events' = {}
          /\ UNCHANGED <<pipefd, pipeReady>>
       \/ /\ m_pid # {}
          /\ events' = events \ {"listen"}
          /\ LET n == Min(m_pid)
             IN IF Running(n)
                THEN /\ pipefd' = [pipefd EXCEPT ![n] = @ + 1]
                     /\ pipeReady' = [pipeReady EXCEPT ![n] = TRUE]
                ELSE UNCHANGED <<pipefd, pipeReady>>
    /\ UNCHANGED <<listening, bounds, ppc, pending, sig_pipe, signals, m_stop,
                   m_pid, unseen, killed, proc, wpc, wevents, wsignals, wstop, conns, cgi>>

\* The event of the signal pipe: recv takes every byte there is.
parentSignals ==
    /\ ppc = "events" /\ "signal" \in events
    /\ events' = events \ {"signal"}
    /\ signals' = sig_pipe
    /\ sig_pipe' = <<>>
    /\ ppc' = "signals"
    /\ UNCHANGED <<listening, workers, bounds, pending, m_stop, m_pid, unseen, killed>>

parentEndsSignals ==
    /\ ppc = "signals" /\ signals = <<>>
    /\ ppc' = "events"
    /\ UNCHANGED <<listening, workers, bounds, events, pending, sig_pipe,
                   signals, m_stop, m_pid, unseen, killed>>

\* Mutation: the loop that kills the workers starts at the second one.
killAll_fromOne ==
    /\ ppc = "signals" /\ signals # <<>> /\ Head(signals) = "TERM"
    /\ signals' = Tail(signals)
    /\ m_stop' = TRUE
    /\ killed' = TRUE
    /\ wsignals' = [c \in Workers |-> IF c \in m_pid \ {0} /\ Running(c)
                                      THEN wsignals[c] \cup {"TERM"} ELSE wsignals[c]]
    /\ UNCHANGED <<listening, bounds, ppc, events, pending, sig_pipe, m_pid, unseen, proc,
                   wpc, wevents, wstop, pipefd, pipeReady, conns, cgi>>

\* Mutation: TERM kills the workers but does not end the parent's loop.
killAll_noStop ==
    /\ ppc = "signals" /\ signals # <<>> /\ Head(signals) = "TERM"
    /\ signals' = Tail(signals)
    /\ killed' = TRUE
    /\ wsignals' = [c \in Workers |-> IF c \in m_pid /\ Running(c)
                                      THEN wsignals[c] \cup {"TERM"} ELSE wsignals[c]]
    /\ UNCHANGED <<listening, bounds, ppc, events, pending, sig_pipe, m_stop, m_pid, unseen, proc,
                   wpc, wevents, wstop, pipefd, pipeReady, conns, cgi>>

\* A TERM byte: every known worker is killed with TERM and the loop will end.
killAll ==
    /\ ppc = "signals" /\ signals # <<>> /\ Head(signals) = "TERM"
    /\ signals' = Tail(signals)
    /\ m_stop' = TRUE
    /\ killed' = TRUE
    /\ wsignals' = [c \in Workers |-> IF c \in m_pid /\ Running(c)
                                      THEN wsignals[c] \cup {"TERM"} ELSE wsignals[c]]
    /\ UNCHANGED <<listening, bounds, ppc, events, pending, sig_pipe, m_pid, unseen, proc,
                   wpc, wevents, wstop, pipefd, pipeReady, conns, cgi>>

\* A SIGCHLD byte: m_stop is set before the loop that reaps.
startReaping ==
    /\ ppc = "signals" /\ signals # <<>> /\ Head(signals) = "CHLD"
    /\ signals' = Tail(signals)
    /\ m_stop' = TRUE
    /\ ppc' = "reaping"
    /\ UNCHANGED <<listening, workers, bounds, events, pending, sig_pipe, m_pid, unseen,
                   killed>>

\* Mutation: m_stop is not cleared when another worker is still known.
reap_keepStop(c) ==
    /\ ppc = "reaping" /\ proc[c] = "zombie"
    /\ proc' = [proc EXCEPT ![c] = "gone"]
    /\ m_pid' = m_pid \ {c}
    /\ UNCHANGED <<listening, bounds, ppc, events, pending, sig_pipe, signals,
                   killed, unseen, m_stop, wpc, wevents, wsignals, wstop, pipefd, pipeReady,
                   conns, cgi>>

\* waitpid returned worker c, which is forgotten; another that is still known
\* clears m_stop, and nothing sets it again before the next byte.
reap(c) ==
    /\ ppc = "reaping" /\ proc[c] = "zombie"
    /\ proc' = [proc EXCEPT ![c] = "gone"]
    /\ m_pid' = m_pid \ {c}
    /\ m_stop' = (m_stop /\ m_pid' = {})
    /\ UNCHANGED <<listening, bounds, ppc, events, pending, sig_pipe, signals,
                   killed, unseen, wpc, wevents, wsignals, wstop, pipefd, pipeReady,
                   conns, cgi>>

\* Mutation: one waitpid per SIGCHLD.
endReaping_once ==
    /\ ppc = "reaping"
    /\ ppc' = "signals"
    /\ UNCHANGED <<listening, workers, bounds, events, pending, sig_pipe,
                   signals, m_stop, m_pid, unseen, killed>>

\* waitpid found nobody else.
endReaping ==
    /\ ppc = "reaping"
    /\ \A c \in Workers : proc[c] # "zombie"
    /\ ppc' = "signals"
    /\ UNCHANGED <<listening, workers, bounds, events, pending, sig_pipe,
                   signals, m_stop, m_pid, unseen, killed>>

-----------------------------------------------------------------------------
(* run_child of worker c.                                                  *)

workerSetup(c) ==
    /\ wpc[c] = "setup" /\ Running(c) /\ "TERM" \notin wsignals[c]
    /\ wpc' = [wpc EXCEPT ![c] = "wait"]
    /\ UNCHANGED <<listening, parent, bounds, proc, wevents, wsignals, wstop,
                   pipefd, pipeReady, conns, cgi>>

\* TERM before addsig has its default effect.
workerKilled(c) ==
    /\ wpc[c] = "setup" /\ Running(c) /\ "TERM" \in wsignals[c]
    /\ Die(c)
    /\ UNCHANGED <<listening, bounds>>

workerWait(c) ==
    /\ wpc[c] = "wait" /\ Running(c) /\ ~wstop[c]
    /\ \E requests \in SUBSET (IF conns[c] > 0 THEN {"client"} ELSE {}) :
          wevents' = [wevents EXCEPT ![c] =
              requests
              \cup (IF pipeReady[c] /\ pipefd[c] > 0 THEN {"pipe"} ELSE {})
              \cup (IF wsignals[c] # {} THEN {"signal"} ELSE {})]
    /\ wevents'[c] # {}
    /\ pipeReady' = [pipeReady EXCEPT ![c] = FALSE]
    /\ wpc' = [wpc EXCEPT ![c] = "events"]
    /\ UNCHANGED <<listening, parent, bounds, proc, wsignals, wstop, pipefd,
                   conns, cgi>>

workerEndsBatch(c) ==
    /\ wpc[c] = "events" /\ wevents[c] = {}
    /\ wpc' = [wpc EXCEPT ![c] = "wait"]
    /\ UNCHANGED <<listening, parent, bounds, proc, wevents, wsignals, wstop,
                   pipefd, pipeReady, conns, cgi>>

\* Mutation: a worker that serves a connection accepts no other.
accept_ifIdle(c) ==
    /\ wpc[c] = "events" /\ "pipe" \in wevents[c]
    /\ wevents' = [wevents EXCEPT ![c] = @ \ {"pipe"}]
    /\ pipefd' = [pipefd EXCEPT ![c] = @ - 1]
    /\ \/ /\ backlog > 0 /\ conns[c] = 0
          /\ backlog' = backlog - 1
          /\ conns' = [conns EXCEPT ![c] = @ + 1]
       \/ /\ backlog = 0 \/ conns[c] # 0
          /\ UNCHANGED <<backlog, conns>>
    /\ UNCHANGED <<parent, bounds, arrived, listenReady, sigReady, proc, wpc, wsignals,
                   wstop, pipeReady, cgi>>

\* One notice is read, whatever their number, and one connection accepted.
accept(c) ==
    /\ wpc[c] = "events" /\ "pipe" \in wevents[c]
    /\ wevents' = [wevents EXCEPT ![c] = @ \ {"pipe"}]
    /\ pipefd' = [pipefd EXCEPT ![c] = @ - 1]
    /\ \/ /\ backlog > 0
          /\ backlog' = backlog - 1
          /\ conns' = [conns EXCEPT ![c] = @ + 1]
       \/ /\ backlog = 0
          /\ UNCHANGED <<backlog, conns>>
    /\ UNCHANGED <<parent, bounds, arrived, listenReady, sigReady, proc, wpc, wsignals,
                   wstop, pipeReady, cgi>>

\* The bytes of the worker's own signal pipe.
workerSignals(c) ==
    /\ wpc[c] = "events" /\ "signal" \in wevents[c]
    /\ wevents' = [wevents EXCEPT ![c] = @ \ {"signal"}]
    /\ wsignals' = [wsignals EXCEPT ![c] = {}]
    /\ wstop' = [wstop EXCEPT ![c] = @ \/ "TERM" \in wsignals[c]]
    /\ wpc' = [wpc EXCEPT ![c] = IF "CHLD" \in wsignals[c] THEN "reaping" ELSE @]
    /\ UNCHANGED <<listening, parent, bounds, proc, pipefd, pipeReady, conns, cgi>>

\* waitpid(...) != -1: the worker spins until it has no CGI process left.
workerReaped(c) ==
    /\ wpc[c] = "reaping" /\ cgi[c] = 0
    /\ wpc' = [wpc EXCEPT ![c] = "events"]
    /\ UNCHANGED <<listening, parent, bounds, proc, wevents, wsignals, wstop,
                   pipefd, pipeReady, conns, cgi>>

\* A client's event: an incomplete request, a connection closed, or a CGI
\* process that has taken the connection over.
process(c) ==
    /\ wpc[c] = "events" /\ "client" \in wevents[c]
    /\ wevents' = [wevents EXCEPT ![c] = @ \ {"client"}]
    /\ \/ UNCHANGED <<conns, cgi>>
       \/ /\ conns' = [conns EXCEPT ![c] = @ - 1]
          /\ \/ UNCHANGED cgi
             \/ cgi' = [cgi EXCEPT ![c] = @ + 1]
    /\ UNCHANGED <<listening, parent, bounds, proc, wpc, wsignals, wstop,
                   pipefd, pipeReady>>

workerReturns(c) ==
    /\ wpc[c] = "wait" /\ Running(c) /\ wstop[c]
    /\ Die(c)
    /\ UNCHANGED <<listening, bounds>>

cgiEnds(c) ==
    /\ cgi[c] > 0
    /\ cgi' = [cgi EXCEPT ![c] = @ - 1]
    /\ wsignals' = [wsignals EXCEPT ![c] = IF Running(c) THEN @ \cup {"CHLD"} ELSE @]
    /\ UNCHANGED <<listening, parent, bounds, proc, wpc, wevents, wstop, pipefd,
                   pipeReady, conns>>

-----------------------------------------------------------------------------
ParentStep ==
    \/ setup_sig_pipe \/ sig_handler \/ parentWait \/ parentEndsBatch
    \/ parentReturns \/ notify \/ parentSignals \/ parentEndsSignals
    \/ killAll \/ startReaping \/ endReaping
    \/ \E c \in Workers : reap(c)

WorkerStep(c) ==
    \/ workerSetup(c) \/ workerKilled(c) \/ workerWait(c) \/ workerEndsBatch(c)
    \/ accept(c) \/ workerSignals(c) \/ workerReaped(c) \/ process(c)
    \/ workerReturns(c)

Next ==
    \/ connect
    \/ terminate
    \/ ParentStep
    \/ \E c \in Workers : crash(c) \/ WorkerStep(c) \/ cgiEnds(c)

Spec == Init /\ [][Next]_vars

(* The processes get the processor, pending signals are delivered, and CGI *)
(* programs end.  Clients, operators and crashes come when they like.      *)
FairSpec ==
    /\ Spec
    /\ WF_vars(ParentStep)
    /\ \A c \in Workers : WF_vars(WorkerStep(c)) /\ WF_vars(cgiEnds(c))

-----------------------------------------------------------------------------
(* What is in the pipes, the batches and the counters.                     *)
TypeOK ==
    /\ arrived \in 0 .. world.conns /\ backlog \in 0 .. arrived
    /\ listenReady \in BOOLEAN /\ sigReady \in BOOLEAN
    /\ ppc \in {"setup", "wait", "events", "signals", "reaping", "done"}
    /\ events \subseteq {"listen", "signal"}
    /\ pending \subseteq Signal /\ sig_pipe \in Seq(Signal) /\ signals \in Seq(Signal)
    /\ m_stop \in BOOLEAN /\ killed \in BOOLEAN
    /\ m_pid \subseteq Workers /\ unseen \subseteq Workers
    /\ proc \in [Workers -> {"running", "zombie", "gone"}]
    /\ wpc \in [Workers -> {"setup", "wait", "events", "reaping"}]
    /\ wevents \in [Workers -> SUBSET {"pipe", "signal", "client"}]
    /\ wsignals \in [Workers -> SUBSET Signal]
    /\ wstop \in [Workers -> BOOLEAN] /\ pipeReady \in [Workers -> BOOLEAN]
    /\ pipefd \in [Workers -> 0 .. world.conns]
    /\ conns \in [Workers -> 0 .. world.conns] /\ cgi \in [Workers -> 0 .. world.conns]
    /\ world \in Worlds
    /\ deaths \in 0 .. world.deaths /\ terms \in 0 .. world.terms

\* The notices in the pipes, numbered in each.
Notices == UNION {{c} \X (1 .. pipefd[c]) : c \in Workers}

(* There are never more notices under way than connections to accept: the  *)
(* accept of a worker that was told of a connection (1_processpool.h:351)  *)
(* always finds one, whichever worker comes first and however many died.   *)
NoticesBacked ==
    LET reported == (IF listenReady THEN 1 ELSE 0)
                    + (IF "listen" \in events THEN 1 ELSE 0)
    IN Cardinality(Notices) + reported <= backlog

(* A dead worker is never forgotten by a parent in its loop: a SIGCHLD is  *)
(* pending, or a byte of it unread, or the loop of waitpid (line 276) has  *)
(* yet to find that nobody is left.                                        *)
DeathNoticed ==
    \A c \in Workers :
        proc[c] = "zombie" /\ c \notin unseen /\ ppc \notin {"setup", "done"}
        => \/ "CHLD" \in pending
           \/ \E k \in DOMAIN sig_pipe : sig_pipe[k] = "CHLD"
           \/ \E k \in DOMAIN signals : signals[k] = "CHLD"
           \/ ppc = "reaping"

(* Once the parent has killed its workers (lines 263 to 274) each of them  *)
(* ends, whatever it was doing, its CGI processes included.                *)
WorkersStop == killed ~> \A c \in Workers : ~Running(c)

(* When signals come one at a time, the parent's loop ends exactly when it *)
(* was told to stop or has no worker left (m_stop of lines 258 and 288).   *)
(* Without the spacing this fails: a SIGCHLD byte whose workers were       *)
(* reaped for an earlier byte sets m_stop and finds nobody to clear it.    *)
StopExact == world.spaced /\ ppc = "wait" => (m_stop <=> killed \/ m_pid = {})

\* Signals and clients come one at a time and no worker is killed.
Calm == world.spaced /\ world.deaths = 0

(* When no worker dies before it, TERM ends the parent as well.            *)
ParentStops == Calm /\ killed ~> ppc = "done"

(* Clients that come one after the other are all accepted while the pool   *)
(* works and no worker has died.                                           *)
AllServed == Calm /\ backlog > 0 ~> (backlog = 0 \/ m_stop \/ ppc = "done")
=============================================================================
