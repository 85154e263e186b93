------------------------------- MODULE JoinAny -------------------------------
(***************************************************************************)
(* The main thread of TLPI/src/30/4_A_main_thread_that_can_join_with_any_  *)
(* terminated_thread.c, which joins its threads in the order in which they *)
(* terminate.  The index of a thread is passed as the address of main's    *)
(* own variable idx: a thread that reads it late reads the index of        *)
(* another thread, or the length of the array.  What the program does      *)
(* after writing outside the array, or after joining a thread twice, is    *)
(* undefined: the behavior ends there.                                     *)
(***************************************************************************)
EXTENDS Integers, FiniteSets

CONSTANTS
    totThreads,     \* the arguments of the program, one thread for each
    ReadsInTime     \* TRUE: each thread reads its index before main goes on

Threads == 0 .. totThreads - 1

VARIABLES
    idx,            \* main's variable, which every thread is given
    state,          \* thread[i].state
    numLive, numUnjoined,
    threadDied,     \* main is blocked on the condition
    mutex,          \* main holds threadMutex
    mpc,            \* main: "create", "next", "lock", "test", "wait",
                    \* "scan", "unlock", "done"
    tpc,            \* threads: "none", "start", "work", "signal", "ended",
                    \* "joined"
    my,             \* the index each thread has read
    undefined

vars == <<idx, state, numLive, numUnjoined, threadDied, mutex, mpc, tpc, my,
          undefined>>

Init ==
    /\ idx = 0
    /\ state = [i \in Threads |-> "TS_ALIVE"]
    /\ numLive = 0 /\ numUnjoined = 0
    /\ threadDied = FALSE
    /\ mutex = FALSE
    /\ mpc = "create"
    /\ tpc = [i \in Threads |-> "none"]
    /\ my = [i \in Threads |-> totThreads]
    /\ undefined = FALSE

ThreadAt(t, where) == ~undefined /\ tpc[t] = where
MainAt(where) == ~undefined /\ mpc = where

-----------------------------------------------------------------------------
(* threadFunc of thread t.                                                 *)

readIndex(t) ==
    /\ ThreadAt(t, "start")
    /\ my' = [my EXCEPT ![t] = idx]
    /\ tpc' = [tpc EXCEPT ![t] = "work"]
    /\ UNCHANGED <<idx, state, numLive, numUnjoined, threadDied, mutex, mpc, undefined>>

\* Mutation: the index is read again when the thread terminates.
terminate_readAgain(t) ==
    /\ ThreadAt(t, "work") /\ ~mutex
    /\ \/ /\ idx \in Threads
          /\ numUnjoined' = numUnjoined + 1
          /\ state' = [state EXCEPT ![idx] = "TS_TERMINATED"]
          /\ tpc' = [tpc EXCEPT ![t] = "signal"]
          /\ UNCHANGED undefined
       \/ /\ idx \notin Threads
          /\ undefined' = TRUE
          /\ UNCHANGED <<numUnjoined, state, tpc>>
    /\ UNCHANGED <<idx, numLive, threadDied, mutex, mpc, my>>

\* The critical section of a thread that has done its work.
terminate(t) ==
    /\ ThreadAt(t, "work") /\ ~mutex
    /\ \/ /\ my[t] \in Threads
          /\ numUnjoined' = numUnjoined + 1
          /\ state' = [state EXCEPT ![my[t]] = "TS_TERMINATED"]
          /\ tpc' = [tpc EXCEPT ![t] = "signal"]
          /\ UNCHANGED undefined
       \/ /\ my[t] \notin Threads
          /\ undefined' = TRUE
          /\ UNCHANGED <<numUnjoined, state, tpc>>
    /\ UNCHANGED <<idx, numLive, threadDied, mutex, mpc, my>>

\* The signal follows the unlock, and the thread returns.
signal(t) ==
    /\ ThreadAt(t, "signal")
    /\ tpc' = [tpc EXCEPT ![t] = "ended"]
    /\ threadDied' = FALSE
    /\ UNCHANGED <<idx, state, numLive, numUnjoined, mutex, mpc, my, undefined>>

-----------------------------------------------------------------------------
(* main.                                                                   *)

create ==
    /\ MainAt("create")
    /\ \/ /\ idx < totThreads
          /\ state' = [state EXCEPT ![idx] = "TS_ALIVE"]
          /\ tpc' = [tpc EXCEPT ![idx] = "start"]
          /\ mpc' = "next"
          /\ UNCHANGED numLive
       \/ /\ idx = totThreads
          /\ numLive' = totThreads
          /\ mpc' = "lock"
          /\ UNCHANGED <<state, tpc>>
    /\ UNCHANGED <<idx, numUnjoined, threadDied, mutex, my, undefined>>

nextIndex ==
    /\ MainAt("next")
    /\ ReadsInTime => tpc[idx] # "start"
    /\ idx' = idx + 1
    /\ mpc' = "create"
    /\ UNCHANGED <<state, numLive, numUnjoined, threadDied, mutex, tpc, my, undefined>>

lock ==
    /\ MainAt("lock")
    /\ \/ /\ numLive > 0 /\ ~mutex
          /\ mutex' = TRUE
          /\ mpc' = "test"
       \/ /\ numLive <= 0
          /\ mpc' = "done"
          /\ UNCHANGED mutex
    /\ UNCHANGED <<idx, state, numLive, numUnjoined, threadDied, tpc, my, undefined>>

testUnjoined ==
    /\ MainAt("test")
    /\ \/ /\ numUnjoined = 0
          /\ threadDied' = TRUE
          /\ mutex' = FALSE
          /\ mpc' = "wait"
          /\ UNCHANGED idx
       \/ /\ numUnjoined # 0
          /\ idx' = 0
          /\ mpc' = "scan"
          /\ UNCHANGED <<threadDied, mutex>>
    /\ UNCHANGED <<state, numLive, numUnjoined, tpc, my, undefined>>

\* pthread_cond_wait returns with the mutex.
wakeUp ==
    /\ MainAt("wait") /\ ~threadDied /\ ~mutex
    /\ mutex' = TRUE
    /\ mpc' = "test"
    /\ UNCHANGED <<idx, state, numLive, numUnjoined, threadDied, tpc, my, undefined>>

(* One turn of the loop over the threads.  pthread_join blocks until the   *)
(* thread has ended, and main holds the mutex all the while.               *)
scan ==
    /\ MainAt("scan")
    /\ \/ /\ idx \in Threads /\ state[idx] = "TS_TERMINATED" /\ tpc[idx] = "ended"
          /\ state' = [state EXCEPT ![idx] = "TS_JOINED"]
          /\ tpc' = [tpc EXCEPT ![idx] = "joined"]
          /\ numLive' = numLive - 1
          /\ numUnjoined' = numUnjoined - 1
          /\ idx' = idx + 1
          /\ UNCHANGED <<mpc, undefined>>
       \/ /\ idx \in Threads /\ state[idx] = "TS_TERMINATED" /\ tpc[idx] = "joined"
          /\ undefined' = TRUE
          /\ UNCHANGED <<idx, state, numLive, numUnjoined, mpc, tpc>>
       \/ /\ idx \in Threads /\ state[idx] # "TS_TERMINATED"
          /\ idx' = idx + 1
          /\ UNCHANGED <<state, numLive, numUnjoined, mpc, tpc, undefined>>
       \/ /\ idx = totThreads
          /\ mpc' = "unlock"
          /\ UNCHANGED <<idx, state, numLive, numUnjoined, tpc, undefined>>
    /\ UNCHANGED <<threadDied, mutex, my>>

unlock ==
    /\ MainAt("unlock")
    /\ mutex' = FALSE
    /\ mpc' = "lock"
    /\ UNCHANGED <<idx, state, numLive, numUnjoined, threadDied, tpc, my, undefined>>

spuriousWakeup ==
    /\ MainAt("wait") /\ threadDied
    /\ threadDied' = FALSE
    /\ UNCHANGED <<idx, state, numLive, numUnjoined, mutex, mpc, tpc, my, undefined>>

-----------------------------------------------------------------------------
Main == create \/ nextIndex \/ lock \/ testUnjoined \/ wakeUp \/ scan \/ unlock
Thread(t) == readIndex(t) \/ terminate(t) \/ signal(t)

ended == (mpc = "done" \/ undefined) /\ UNCHANGED vars

Next ==
    \/ Main
    \/ spuriousWakeup
    \/ \E t \in Threads : Thread(t)
    \/ ended

Spec == Init /\ [][Next]_vars

(* Every thread gets the processor, and a mutex that is free again and     *)
(* again in turn (each thread takes it once, main while threads are left). *)
FairSpec ==
    /\ Spec
    /\ SF_vars(Main)
    /\ \A t \in Threads : SF_vars(Thread(t))

-----------------------------------------------------------------------------
TypeOK ==
    /\ idx \in 0 .. totThreads
    /\ state \in [Threads -> {"TS_ALIVE", "TS_TERMINATED", "TS_JOINED"}]
    /\ numLive \in 0 .. totThreads /\ numUnjoined \in 0 .. totThreads
    /\ threadDied \in BOOLEAN /\ mutex \in BOOLEAN /\ undefined \in BOOLEAN
    /\ mpc \in {"create", "next", "lock", "test", "wait", "scan", "unlock", "done"}
    /\ tpc \in [Threads -> {"none", "start", "work", "signal", "ended", "joined"}]
    /\ my \in [Threads -> 0 .. totThreads]

(* "TS_TERMINATED: Thread terminated, not yet joined" (line 13): a thread  *)
(* that is marked so needs the mutex no more, and main, which joins it     *)
(* with the mutex held (line 77), does not wait for itself.                *)
StateIsTrue ==
    \A i \in Threads :
        state[i] = "TS_TERMINATED" => tpc[i] \in {"signal", "ended"}

(* main joins every thread and exits (lines 64 to 90).                     *)
MainReturns == <>(mpc = "done")
=============================================================================
