---------------------------- MODULE ThreadPrograms ----------------------------
(***************************************************************************)
(* Programs with a few threads, one mutex and one condition: of TLPI/src   *)
(*   "racy"    30/1: two threads add to glob without the mutex             *)
(*   "mutex"   30/2: and with it                                           *)
(*   "count"   30/4_practice: the last thread to end signals main          *)
(*   "cancel"  32/1: main cancels a thread that never ends                 *)
(*   "cleanup" 32/2: main cancels a thread that waits with the mutex       *)
(*   "signal"  32/2 with an argument: main signals the condition           *)
(*   "strerror" 31/3: two threads call strerror, with a buffer for each     *)
(*   "static"  31/2: and with one buffer for both                          *)
(*   "sync"    24/6: a child, in the place of the thread, signals main     *)
(* and of Linux高性能服务器编程/src                                          *)
(*   "fork"    14/3.cpp: main forks while a thread may hold the mutex      *)
(* A sleep of main is long enough for the thread, or it is not: inTime.    *)
(***************************************************************************)
EXTENDS Integers, FiniteSets, PthreadCond

CONSTANTS
    Pair,           \* the threads; from "cancel" on there is one of them
    loops

VARIABLES
    prog, inTime,
    mutex,          \* "free", "destroyed", or who holds it
    glob,           \* glob, or count
    loc, left,      \* of each thread: its copy of glob, the turns left
    pc, mpc,        \* where each thread and main are
    waiting,        \* those blocked on the condition
    canceled,       \* pthread_cancel was called
    block,          \* what the thread has allocated: "none", "live", "freed"
    errors,         \* the buffers of strerror, each with the error it names
    usr1,           \* SIGUSR1 is pending
    copy, child     \* the mutex of the child, and where the child is

data == <<glob, loc, left>>
cond == <<waiting, canceled, block>>
forked == <<copy, child>>
others == <<errors, usr1>>
vars == <<prog, inTime, mutex, data, pc, mpc, cond, forked, others>>

One == CHOOSE t \in Pair : TRUE
Threads == IF prog \in {"racy", "mutex", "count"} THEN Pair ELSE {One}

Init ==
    /\ prog \in {"racy", "mutex", "count", "cancel", "cleanup", "signal", "fork", "strerror",
              "static", "sync"}
    /\ inTime \in BOOLEAN
    /\ mutex = "free" /\ glob = 0
    /\ loc = [t \in Pair |-> 0] /\ left = [t \in Pair |-> loops]
    /\ pc = [t \in Pair |-> "none"]
    /\ mpc = IF prog \in {"strerror", "static"} THEN "strerror" ELSE "create"
    /\ errors = [p \in {"main", "thread"} |-> "none"] /\ usr1 = FALSE
    /\ waiting = {} /\ canceled = FALSE /\ block = "none"
    /\ copy = "free" /\ child = "none"

Goto(t, l) == pc' = [pc EXCEPT ![t] = l]
lock(who) == mutex = "free" /\ mutex' = who
unlock == mutex' = "free"

-----------------------------------------------------------------------------
(* The threads of each program.                                            *)

\* One turn of the loop: loc = glob; loc++; glob = loc.
load(t) == loc' = [loc EXCEPT ![t] = glob + 1] /\ UNCHANGED <<glob, left>>
store(t) == glob' = loc[t] /\ left' = [left EXCEPT ![t] = @ - 1] /\ UNCHANGED loc
endOfTurn(t) == Goto(t, IF left[t] = 1 THEN "end" ELSE "start")

racyThread(t) ==
    /\ prog = "racy"
    /\ \/ pc[t] = "start" /\ load(t) /\ Goto(t, "store")
       \/ pc[t] = "store" /\ store(t) /\ endOfTurn(t)
    /\ UNCHANGED <<mutex, cond>>

mutexThread(t) ==
    /\ prog = "mutex"
    /\ \/ pc[t] = "start" /\ lock(t) /\ Goto(t, "load") /\ UNCHANGED data
       \/ pc[t] = "load" /\ load(t) /\ Goto(t, "store") /\ UNCHANGED mutex
       \/ pc[t] = "store" /\ store(t) /\ Goto(t, "unlock") /\ UNCHANGED mutex
       \/ /\ pc[t] = "unlock" /\ unlock /\ UNCHANGED data
          /\ Goto(t, IF left[t] = 0 THEN "end" ELSE "start")
    /\ UNCHANGED cond

\* Mutation: the first thread signals, not the last.
lastOne_first == glob + 1 = 1

lastOne == glob + 1 = Cardinality(Threads)

countThread(t) ==
    /\ prog = "count"
    /\ \/ /\ pc[t] = "start" /\ lock(t) /\ Goto(t, "unlock")
          /\ glob' = glob + 1 /\ UNCHANGED <<loc, left>>
          /\ IF lastOne THEN waiting' \in AfterSignal(waiting) ELSE UNCHANGED waiting
       \/ pc[t] = "unlock" /\ unlock /\ Goto(t, "end") /\ UNCHANGED <<data, waiting>>
    /\ UNCHANGED <<canceled, block>>

\* A printf may be where a thread is canceled, a sleep is.
cancelThread(t) ==
    /\ prog = "cancel"
    /\ \/ pc[t] = "start" /\ Goto(t, "sleep")
       \/ pc[t] = "sleep" /\ ~canceled /\ Goto(t, "start")
       \/ canceled /\ pc[t] \in {"start", "sleep"} /\ Goto(t, "end")
    /\ UNCHANGED <<mutex, data, cond>>

cleanupHandler(t) ==
    /\ block' = "freed" /\ unlock /\ Goto(t, "end")

\* The thread is canceled where it waits, or would; at the printf in front of
\* it, it may be, and then leaves its block behind.
condThread(t) ==
    /\ prog \in {"cleanup", "signal"}
    /\ \/ /\ pc[t] = "start" /\ block' = "live"
          /\ Goto(t, "printf") /\ UNCHANGED <<mutex, waiting>>
       \/ /\ pc[t] = "printf" /\ canceled
          /\ Goto(t, "end") /\ UNCHANGED <<mutex, waiting, block>>
       \/ pc[t] = "printf" /\ lock(t) /\ Goto(t, "test") /\ UNCHANGED <<waiting, block>>
       \* main sets glob without the mutex: the test may be out of date
       \/ /\ pc[t] = "test" /\ glob = 0
          /\ Goto(t, "toWait") /\ UNCHANGED <<mutex, waiting, block>>
       \/ /\ pc[t] = "toWait" /\ ~canceled
          /\ waiting' = waiting \cup {t} /\ unlock
          /\ Goto(t, "wait") /\ UNCHANGED block
       \/ pc[t] = "toWait" /\ canceled /\ cleanupHandler(t) /\ UNCHANGED waiting
       \/ pc[t] = "test" /\ glob # 0 /\ cleanupHandler(t) /\ UNCHANGED waiting
       \/ /\ pc[t] = "wait" /\ t \notin waiting /\ lock(t)
          /\ Goto(t, "test") /\ UNCHANGED <<waiting, block>>
       \/ /\ pc[t] = "wait" /\ canceled /\ mutex = "free"
          /\ waiting' = waiting \ {t} /\ cleanupHandler(t)
    /\ UNCHANGED <<data, canceled>>

another(t) ==
    /\ prog = "fork"
    /\ \/ pc[t] = "start" /\ lock(t) /\ Goto(t, "sleep")
       \/ /\ pc[t] = "sleep" /\ Goto(t, "end")
          /\ mutex' = IF mutex = t THEN "free" ELSE mutex
    /\ UNCHANGED <<data, cond>>

\* Mutation: one buffer for all threads.
buffer_static(p) == "main"

\* The buffer strerror writes to when p calls it.
buffer(p) == IF prog = "static" THEN "main" ELSE p
strerror(p, err) == errors' = [errors EXCEPT ![buffer(p)] = err]

\* A thread that ends frees its buffer.
errorThread(t) ==
    /\ prog \in {"strerror", "static"}
    /\ \/ pc[t] = "start" /\ strerror("thread", "EPERM") /\ Goto(t, "free")
       \/ /\ pc[t] = "free" /\ Goto(t, "end")
          /\ errors' = [errors EXCEPT !["thread"] = "freed"]
    /\ UNCHANGED usr1

\* Mutation: main has not blocked the signal, and handles one that is early.
kill_early == usr1' = (mpc = "suspend")

\* main has blocked the signal until it waits for it.
kill == usr1' = TRUE
signalChild(t) ==
    /\ prog = "sync" /\ pc[t] = "start" /\ kill /\ Goto(t, "end")
    /\ UNCHANGED errors

Thread(t) ==
    /\ \/ /\ \/ racyThread(t) \/ mutexThread(t) \/ countThread(t) \/ cancelThread(t)
             \/ condThread(t) \/ another(t)
          /\ UNCHANGED others
       \/ (errorThread(t) \/ signalChild(t)) /\ UNCHANGED <<mutex, data, cond>>
    /\ UNCHANGED <<prog, inTime, mpc, forked>>

\* While main sleeps long enough, the thread is back in its wait in time.
spuriousWakeup ==
    /\ inTime => mpc # "sleep"
    /\ \E who \in waiting : waiting' = waiting \ {who}
    /\ UNCHANGED <<prog, inTime, mutex, data, pc, mpc, canceled, block, forked, others>>

-----------------------------------------------------------------------------
(* main.                                                                   *)

Main == "main"
next(from, to) == mpc = from /\ mpc' = to
Ended == \A t \in Threads : pc[t] = "end"

create ==
    /\ mpc = "create"
    /\ \E t \in Threads : pc[t] = "none" /\ Goto(t, "start")
    /\ mpc' = IF \A t \in Threads : pc'[t] # "none"
              THEN CASE prog \in {"racy", "mutex", "strerror", "static"} -> "join"
                     [] prog = "count" -> "lock" [] prog = "sync" -> "parent"
                     [] OTHER -> "sleep"
              ELSE mpc
    /\ UNCHANGED <<mutex, data, cond, forked>>

join ==
    /\ Ended
    /\ \/ next("join", "exited") /\ UNCHANGED mutex
       \/ next("joinFirst", "exited") /\ mutex' = "destroyed"
    /\ UNCHANGED <<data, pc, cond, forked>>

\* From lock to the test of the loop, and from a wait that has returned.
main_count ==
    /\ mpc = "lock" \/ (mpc = "wait" /\ prog = "count" /\ Main \notin waiting)
    /\ mutex = "free"
    /\ IF glob = Cardinality(Threads)
       THEN mpc' = "exited" /\ UNCHANGED waiting
       ELSE mpc' = "wait" /\ waiting' = waiting \cup {Main}
    /\ UNCHANGED <<mutex, data, pc, canceled, block, forked>>

main_strerror ==
    /\ next("strerror", "create") /\ strerror(Main, "EINVAL")
    /\ UNCHANGED <<mutex, data, pc, cond, forked, usr1>>

\* sigsuspend unblocks the signal and waits for it in one step.
main_sync ==
    /\ \/ next("parent", "suspend") /\ UNCHANGED usr1
       \/ next("suspend", "exited") /\ usr1 /\ usr1' = FALSE
    /\ UNCHANGED <<mutex, data, pc, cond, forked, errors>>

\* What main sleeps for, when the sleep is long enough.
Reached ==
    CASE prog \in {"cleanup", "signal"} -> pc[One] = "wait"
      [] prog = "fork" -> pc[One] \notin {"none", "start"}
      [] OTHER -> TRUE
Slept == inTime => Reached

main_cancel ==
    /\ prog = "cancel" /\ Slept /\ next("sleep", "join")
    /\ canceled' = TRUE
    /\ UNCHANGED <<mutex, data, pc, waiting, block, forked>>

\* glob is set without the mutex.
main_cond ==
    /\ \/ /\ prog = "cleanup" /\ Slept /\ next("sleep", "join")
          /\ canceled' = TRUE /\ UNCHANGED <<glob, waiting>>
       \/ /\ prog = "signal" /\ Slept /\ next("sleep", "signal")
          /\ glob' = 1 /\ UNCHANGED <<waiting, canceled>>
       \/ /\ next("signal", "join")
          /\ waiting' \in AfterSignal(waiting) /\ UNCHANGED <<glob, canceled>>
    /\ UNCHANGED <<mutex, loc, left, pc, block, forked>>

\* Mutation: fork runs no handler before it.
prepare_none == UNCHANGED mutex

prepare == lock(Main)
infork == unlock

main_fork ==
    /\ prog = "fork"
    /\ \/ Slept /\ next("sleep", "fork") /\ prepare /\ UNCHANGED forked
       \/ /\ next("fork", "infork")
          /\ copy' = mutex /\ child' = "infork" /\ UNCHANGED mutex
       \* fork fails
       \/ next("fork", "joinFirst") /\ infork /\ UNCHANGED forked
       \/ next("infork", "waitChild") /\ infork /\ UNCHANGED forked
       \/ /\ next("waitChild", "join") /\ child = "exited"
          /\ mutex' = "destroyed" /\ UNCHANGED forked
    /\ UNCHANGED <<data, pc, cond>>

\* The child has only the thread that called fork: it can unlock what main
\* has locked, and nobody unlocks what another has.
childStep ==
    /\ \/ child = "infork" /\ copy' = (IF copy = Main THEN "free" ELSE copy) /\ child' = "lock"
       \/ child = "lock" /\ copy = "free" /\ copy' = Main /\ child' = "unlock"
       \/ child = "unlock" /\ copy' = "free" /\ child' = "exited"
    /\ UNCHANGED <<prog, inTime, mutex, data, pc, mpc, cond, others>>

main ==
    /\ \/ /\ create \/ join \/ main_count \/ main_cancel \/ main_cond \/ main_fork
          /\ UNCHANGED others
       \/ main_strerror \/ main_sync
    /\ UNCHANGED <<prog, inTime>>

-----------------------------------------------------------------------------
Next == main \/ childStep \/ spuriousWakeup \/ \E t \in Pair : Thread(t)

Spec == Init /\ [][Next]_vars

FairSpec ==
    /\ Spec /\ WF_vars(main) /\ WF_vars(childStep)
    /\ \A t \in Pair : WF_vars(Thread(t))

-----------------------------------------------------------------------------
(* What the threads have added is there when main ends: all of it with the *)
(* mutex; without it at least two, when each has two turns or more, since  *)
(* a store of one that is late takes back everything but its own (30/1:11).*)
(* A thread that was canceled or went on has freed its block and released  *)
(* the mutex (32/2:35), when it had come to push the handler that does it; *)
(* and the mutex of 14/3 is not destroyed under the thread (14/3:63).  The *)
(* text that main has from strerror is still that of its own error, and the*)
(* thread's is freed (31/3:40); from one buffer it is the thread's (31/2). *)
EndsRight ==
    /\ mpc = "exited" =>
        /\ prog = "racy" => glob \in 2 .. 2 * loops
        /\ prog = "mutex" => glob = 2 * loops
        /\ prog = "count" => glob = 2
        /\ prog \in {"cleanup", "signal"} => mutex = "free" /\ (inTime => block = "freed")
        /\ prog = "strerror" => errors["main"] = "EINVAL" /\ errors["thread"] = "freed"
    /\ mutex = "destroyed" /\ inTime => pc[One] = "end"

(* main ends: it joins every thread and reaps its child, which can lock the*)
(* mutex whatever the thread did at the fork (14/3:54), and the signal of  *)
(* 24/6 is not lost when it comes before main waits (24/6:47).  Signalled  *)
(* without the mutex, a thread that is late never wakes (32/2:57), and     *)
(* nothing can be said of one that locks a destroyed mutex (14/3:63).      *)
MainReturns == (prog \in {"signal", "fork"} => inTime) => <>(mpc = "exited")
=============================================================================
