------------------------------ MODULE ThreadPool ------------------------------
(***************************************************************************)
(* The thread pool of Linux高性能服务器编程/src/15/3_threadpool.h with the   *)
(* semaphore and the mutex of 15/locker.h.  A worker that has taken a      *)
(* request does not unlock the queue (lines 93 to 98).  No program of the  *)
(* repository uses the pool: the callers of append are the model's, and    *)
(* the pool is not destroyed.  The pool installs no handlers, so no signal *)
(* interrupts sem_wait; in a process that handles some, run would go on    *)
(* without a request after one, since it does not look at what wait returns*)
(***************************************************************************)
EXTENDS Integers, Sequences, FiniteSets

CONSTANTS
    PoolWorkers,
    Callers,        \* the threads that call append
    Appends,        \* how many requests each of them appends
    m_max_requests

VARIABLES
    m_workqueue, m_queuelocker, m_queuestat,
    caller,         \* of each caller: "out", "lock", "unlock", "post" or "refuse"
    worker,         \* of each worker: "wait", "lock", "pop" or "process"
    appended,       \* history: the requests pushed
    taken,          \* history: and those taken
    calls           \* how many calls each caller has still to make

vars == <<m_workqueue, m_queuelocker, m_queuestat, caller, worker, appended, taken, calls>>

Free == "free"

Init ==
    /\ m_workqueue = <<>> /\ m_queuelocker = Free /\ m_queuestat = 0
    /\ caller = [c \in Callers |-> "out"]
    /\ worker = [w \in PoolWorkers |-> "wait"]
    /\ appended = <<>> /\ taken = <<>>
    /\ calls = [c \in Callers |-> Appends]

-----------------------------------------------------------------------------
(* The semaphore, whose value is given by now, and the mutex.              *)
post == m_queuestat' = m_queuestat + 1
wait == m_queuestat > 0 /\ m_queuestat' = m_queuestat - 1
lock(t) == m_queuelocker = Free /\ m_queuelocker' = t
unlock == m_queuelocker' = Free

goto(c, from, to) == caller[c] = from /\ caller' = [caller EXCEPT ![c] = to]

\* A request is named by its caller and the number of calls that are left.
append(c) ==
    /\ calls[c] > 0 /\ goto(c, "out", "lock")
    /\ UNCHANGED <<m_workqueue, m_queuelocker, m_queuestat, appended, calls>>

\* Mutation: the semaphore is posted for a request that is refused, too.
push_always(c) ==
    /\ goto(c, "lock", "unlock") /\ lock(c)
    /\ IF Len(m_workqueue) >= m_max_requests
       THEN UNCHANGED <<m_workqueue, appended>>
       ELSE /\ m_workqueue' = Append(m_workqueue, <<c, calls[c]>>)
            /\ appended' = Append(appended, <<c, calls[c]>>)
    /\ UNCHANGED <<m_queuestat, calls>>

\* From lock to push_back.
push(c) ==
    /\ lock(c)
    /\ IF Len(m_workqueue) >= m_max_requests
       THEN goto(c, "lock", "refuse") /\ UNCHANGED <<m_workqueue, appended>>
       ELSE /\ goto(c, "lock", "unlock")
            /\ m_workqueue' = Append(m_workqueue, <<c, calls[c]>>)
            /\ appended' = Append(appended, <<c, calls[c]>>)
    /\ UNCHANGED <<m_queuestat, calls>>

Returns(c) == calls' = [calls EXCEPT ![c] = @ - 1]
pushed(c) ==
    /\ \/ goto(c, "unlock", "post") /\ UNCHANGED calls
       \/ goto(c, "refuse", "out") /\ Returns(c)
    /\ unlock
    /\ UNCHANGED <<m_workqueue, m_queuestat, appended>>

postRequest(c) ==
    /\ goto(c, "post", "out") /\ post /\ Returns(c)
    /\ UNCHANGED <<m_workqueue, m_queuelocker, appended>>

Caller(c) ==
    /\ append(c) \/ push(c) \/ pushed(c) \/ postRequest(c)
    /\ UNCHANGED <<worker, taken>>

-----------------------------------------------------------------------------
turns(w, from, to) == worker[w] = from /\ worker' = [worker EXCEPT ![w] = to]

waitRequest(w) ==
    /\ turns(w, "wait", "lock") /\ wait
    /\ UNCHANGED <<m_workqueue, m_queuelocker, taken>>

lockQueue(w) ==
    /\ turns(w, "lock", "pop") /\ lock(w)
    /\ UNCHANGED <<m_workqueue, m_queuestat, taken>>

\* With the queue empty the mutex is given back; with a request it is kept.
run(w) ==
    /\ IF m_workqueue = <<>>
       THEN turns(w, "pop", "wait") /\ unlock /\ UNCHANGED <<m_workqueue, taken>>
       ELSE /\ turns(w, "pop", "process")
            /\ m_workqueue' = Tail(m_workqueue)
            /\ taken' = Append(taken, Head(m_workqueue))
            /\ UNCHANGED m_queuelocker
    /\ UNCHANGED m_queuestat

processed(w) ==
    /\ turns(w, "process", "wait")
    /\ UNCHANGED <<m_workqueue, m_queuelocker, m_queuestat, taken>>

PoolWorker(w) ==
    /\ waitRequest(w) \/ lockQueue(w) \/ run(w) \/ processed(w)
    /\ UNCHANGED <<caller, appended, calls>>

Next == (\E c \in Callers : Caller(c)) \/ (\E w \in PoolWorkers : PoolWorker(w))

Spec == Init /\ [][Next]_vars

(* Threads run; the callers make finitely many calls.                      *)
FairSpec ==
    /\ Spec
    /\ \A c \in Callers : WF_vars(Caller(c))
    /\ \A w \in PoolWorkers : WF_vars(PoolWorker(w))

-----------------------------------------------------------------------------
(* Every request in the queue has one token: in the semaphore, with the    *)
(* caller that has not posted it yet, or with a worker that has not popped *)
(* yet.  So no worker finds the queue empty (line 88), none is refused     *)
(* room that is there, and requests are taken in the order they came.      *)
TokensMatch ==
    /\ Len(m_workqueue) <= m_max_requests
    /\ Len(m_workqueue) = m_queuestat
                          + Cardinality({c \in Callers : caller[c] \in {"unlock", "post"}})
                          + Cardinality({w \in PoolWorkers : worker[w] \in {"lock", "pop"}})
    /\ appended = taken \o m_workqueue

(* A call of append returns unless a worker has taken a request: it keeps  *)
(* the mutex for ever, and neither it nor anybody else gets it again       *)
(* (line 94).                                                              *)
QueueKept == m_queuelocker \in PoolWorkers /\ taken # <<>>
AppendsReturn == <>(QueueKept \/ \A c \in Callers : calls[c] = 0)
=============================================================================
