------------------------------ MODULE MCThreads ------------------------------
(***************************************************************************)
(* Monitors and programs of a few threads, in one run: the queue in call   *)
(* order, the queue with two conditions, the barrier, the thread pool and  *)
(* the small programs.  The same four threads take the parts in each.      *)
(***************************************************************************)
EXTENDS FIFOBBQ, TLC

CONSTANTS i1, i2, r1, r2, Calls, Rounds, Appends, m_max_requests, loops

ASSUME CallsAssumption == Calls \in Nat

MCInserters == {i1, i2}
MCRemovers == {r1, r2}

\* two threads on each side, with everything that may happen to them
Crowd == [calls |-> i1 :> 2 @@ i2 :> 2 @@ r1 :> 2 @@ r2 :> 2,
          spurious |-> TRUE, front |-> {"null", "garbage"}]
\* the same with no spurious wake-ups and the list of libstdc++
Quiet == [Crowd EXCEPT !.spurious = FALSE, !.front = {"null"}]
\* the test program: more items than the ring holds
Pair == [Quiet EXCEPT !.calls = i1 :> 5 @@ i2 :> 0 @@ r1 :> 5 @@ r2 :> 0]

MCPrograms == {Crowd, Quiet, Pair}
QuietPrograms == {Quiet}

VARIABLES
    running,    \* which of the five modules it is
    cvItems, cvFront, cvNextEmpty, itemAddedCond, itemRemovedCond, cvLeft, cvItem, cvPc,
    cvRemove_n,
    numEntered, numLeaving, allCheckedInCond, allLeavingCond, bpc, begun, returned,
    m_workqueue, m_queuelocker, m_queuestat, caller, worker, appended, taken, calls,
    prog, inTime, mutex, glob, loc, turnsLeft, tpc, mpc, waiting, canceled, memory,
    errors, usr1, copy, child

CV == INSTANCE BBQ
    WITH items <- cvItems, front <- cvFront, nextEmpty <- cvNextEmpty, left <- cvLeft,
         item <- cvItem, pc <- cvPc, remove_n <- cvRemove_n
Round == INSTANCE Barrier WITH pc <- bpc
Pool == INSTANCE ThreadPool WITH PoolWorkers <- Removers, Callers <- Inserters
Small == INSTANCE ThreadPrograms
    WITH Pair <- Inserters, left <- turnsLeft, pc <- tpc, block <- memory

cvVars == <<cvItems, cvFront, cvNextEmpty, itemAddedCond, itemRemovedCond, cvLeft, cvItem,
            cvPc, cvRemove_n>>
roundVars == <<numEntered, numLeaving, allCheckedInCond, allLeavingCond, bpc, begun,
               returned>>
poolVars == <<m_workqueue, m_queuelocker, m_queuestat, caller, worker, appended, taken,
              calls>>
smallVars == <<prog, inTime, mutex, glob, loc, turnsLeft, tpc, mpc, waiting, canceled,
               memory, errors, usr1, copy, child>>
allVars == <<running, vars, cvVars, roundVars, poolVars, smallVars>>

\* The variables of the modules that do not run have one value.
MCInit ==
    /\ running \in {"queue", "cv", "barrier", "pool", "small"}
    /\ Init /\ CV!Init /\ Round!Init /\ Pool!Init /\ Small!Init
    /\ running # "queue" => program = Pair
    /\ running # "small" => prog = "racy" /\ inTime

InQueue(step) ==
    running = "queue" /\ step /\ UNCHANGED <<running, cvVars, roundVars, poolVars, smallVars>>
InCV(step) ==
    running = "cv" /\ step /\ UNCHANGED <<running, vars, roundVars, poolVars, smallVars>>
InRound(step) ==
    running = "barrier" /\ step /\ UNCHANGED <<running, vars, cvVars, poolVars, smallVars>>
InPool(step) ==
    running = "pool" /\ step /\ UNCHANGED <<running, vars, cvVars, roundVars, smallVars>>
InSmall(step) ==
    running = "small" /\ step /\ UNCHANGED <<running, vars, cvVars, roundVars, poolVars>>

MCNext ==
    \/ InQueue(Next) \/ InCV(CV!Next) \/ InRound(Round!Next) \/ InPool(Pool!Next)
    \/ InSmall(Small!Next)

\* The fairness of the five specifications: each thread that can run does.
TheThread(t) ==
    \/ InQueue(threadStep(t)) \/ InCV(CV!threadStep(t)) \/ InRound(Round!threadStep(t))
    \/ t \in Inserters /\ (InPool(Pool!Caller(t)) \/ InSmall(Small!Thread(t)))
    \/ t \in Removers /\ InPool(Pool!PoolWorker(t))
MCSpec ==
    /\ MCInit /\ [][MCNext]_allVars
    /\ \A t \in Threads : WF_allVars(TheThread(t))
    /\ WF_allVars(InSmall(Small!main)) /\ WF_allVars(InSmall(Small!childStep))

\* The queue in call order alone.
QueueSpec ==
    /\ MCInit /\ running = "queue" /\ [][InQueue(Next)]_allVars
    /\ \A t \in Threads : WF_allVars(InQueue(threadStep(t)))

-----------------------------------------------------------------------------
(* NoLostWakeup of BBQ: an inserter is blocked only while the ring is full *)
(* and a remover only while it is empty                                    *)
(* (ThreadSafeBoundedQueue_CV.cpp:38, 49, 60, 69).                         *)
NobodyStranded == CV!NoLostWakeup

(* ImplementsBoundedQueue of BBQ: each call acts on a bounded FIFO queue at*)
(* one instant (ThreadSafeBoundedQueue_CV.cpp:46, 67).                     *)
CVIsQueue == CV!ImplementsBoundedQueue

(* NobodyAhead of Barrier: no thread is let through a round early          *)
(* (Barrier.cpp:31, 46).                                                   *)
NobodyAhead == Round!NobodyAhead

(* TokensMatch of ThreadPool and EndsRight of ThreadPrograms: requests and *)
(* tokens are the same number (3_threadpool.h:69, 86), and what threads    *)
(* have counted, locked and allocated is right at the end (30/1:11,        *)
(* 32/2:35, 14/3:63).                                                      *)
CountsRight == Pool!TokensMatch /\ Small!EndsRight

(* PairReturns of FIFOBBQ, AllCallsReturn of BBQ, AllRoundsEnd of Barrier, *)
(* AppendsReturn of ThreadPool and MainReturns of ThreadPrograms: the calls*)
(* return, and programs end (6_3:70, 4_3:47, Barrier.cpp:31,               *)
(* 3_threadpool.h:94, 14/3:54).                                            *)
ThreadsReturn ==
    /\ running = "queue" => PairReturns
    /\ running = "cv" => CV!AllCallsReturn
    /\ running = "barrier" => Round!AllRoundsEnd
    /\ running = "pool" => Pool!AppendsReturn
    /\ running = "small" => Small!MainReturns
=============================================================================
