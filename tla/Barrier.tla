------------------------------- MODULE Barrier -------------------------------
(***************************************************************************)
(* The reusable barrier of OSPP/lib/Barrier.cpp, used as in                *)
(* OSPP/src/5/6_2_Barrier.cpp: each of the numThreads threads calls        *)
(* checkin a given number of times.  allLeavingCond is never initialised;  *)
(* the only Barrier of the repository is a static object, so its bytes are *)
(* zero, which is a valid condition variable of the pthread library.       *)
(***************************************************************************)
EXTENDS Integers, FiniteSets, PthreadCond

CONSTANTS
    Threads,    \* the threads that meet at the barrier
    Rounds      \* how many times each of them calls checkin

numThreads == Cardinality(Threads)

VARIABLES
    numEntered, numLeaving,
    allCheckedInCond, allLeavingCond,   \* the threads blocked on each
    pc,         \* "out", or in the first or second wait of checkin
    begun,      \* how many calls of checkin each thread has begun
    returned    \* and how many have returned

vars == <<numEntered, numLeaving, allCheckedInCond, allLeavingCond,
          pc, begun, returned>>

Init ==
    /\ numEntered = 0
    /\ numLeaving = 0
    /\ allCheckedInCond = {}
    /\ allLeavingCond = {}
    /\ pc = [t \in Threads |-> "out"]
    /\ begun = [t \in Threads |-> 0]
    /\ returned = [t \in Threads |-> 0]

Return(t) ==
    /\ pc' = [pc EXCEPT ![t] = "out"]
    /\ returned' = [returned EXCEPT ![t] = @ + 1]

(* The second half of checkin, from numLeaving++ on, with the values the   *)
(* first half left in numEntered and numLeaving.                           *)
leave(t, entered, leaving) ==
    /\ numLeaving' = leaving + 1
    /\ \/ /\ numLeaving' < numThreads
          /\ numEntered' = entered
          /\ allLeavingCond' = allLeavingCond \cup {t}
          /\ pc' = [pc EXCEPT ![t] = "leaving"]
          /\ UNCHANGED returned
       \/ /\ numLeaving' >= numThreads
          /\ numEntered' = 0
          /\ allLeavingCond' = AfterBroadcast
          /\ Return(t)

\* Mutation: the last thread to enter does not reset the exit.
checkin_keepLeaving(t) ==
    /\ pc[t] = "out" /\ begun[t] < Rounds
    /\ begun' = [begun EXCEPT ![t] = @ + 1]
    /\ \/ /\ numEntered + 1 < numThreads
          /\ numEntered' = numEntered + 1
          /\ allCheckedInCond' = allCheckedInCond \cup {t}
          /\ pc' = [pc EXCEPT ![t] = "entering"]
          /\ UNCHANGED <<numLeaving, allLeavingCond, returned>>
       \/ /\ numEntered + 1 >= numThreads
          /\ allCheckedInCond' = AfterBroadcast
          /\ leave(t, numEntered + 1, numLeaving)

(* checkin from the lock to the first wait it meets, or to the end.        *)
checkin(t) ==
    /\ pc[t] = "out" /\ begun[t] < Rounds
    /\ begun' = [begun EXCEPT ![t] = @ + 1]
    /\ \/ /\ numEntered + 1 < numThreads
          /\ numEntered' = numEntered + 1
          /\ allCheckedInCond' = allCheckedInCond \cup {t}
          /\ pc' = [pc EXCEPT ![t] = "entering"]
          /\ UNCHANGED <<numLeaving, allLeavingCond, returned>>
       \/ /\ numEntered + 1 >= numThreads
          /\ allCheckedInCond' = AfterBroadcast
          /\ leave(t, numEntered + 1, 0)

(* Woken from the first wait: round its loop, or on to the second half.    *)
resumeEntering(t) ==
    /\ pc[t] = "entering" /\ t \notin allCheckedInCond
    /\ \/ /\ numEntered < numThreads
          /\ allCheckedInCond' = allCheckedInCond \cup {t}
          /\ UNCHANGED <<numEntered, numLeaving, allLeavingCond, pc, returned>>
       \/ /\ numEntered >= numThreads
          /\ leave(t, numEntered, numLeaving)
          /\ UNCHANGED allCheckedInCond
    /\ UNCHANGED begun

\* Mutation: the second wait is an if, not a while.
resumeLeaving_noLoop(t) ==
    /\ pc[t] = "leaving" /\ t \notin allLeavingCond
    /\ Return(t)
    /\ UNCHANGED <<numEntered, numLeaving, allCheckedInCond, allLeavingCond, begun>>

(* Woken from the second wait.                                             *)
resumeLeaving(t) ==
    /\ pc[t] = "leaving" /\ t \notin allLeavingCond
    /\ \/ /\ numLeaving < numThreads
          /\ allLeavingCond' = allLeavingCond \cup {t}
          /\ UNCHANGED <<pc, returned>>
       \/ /\ numLeaving >= numThreads
          /\ Return(t)
          /\ UNCHANGED allLeavingCond
    /\ UNCHANGED <<numEntered, numLeaving, allCheckedInCond, begun>>

spuriousWakeup(t) ==
    /\ t \in allCheckedInCond \cup allLeavingCond
    /\ allCheckedInCond' = allCheckedInCond \ {t}
    /\ allLeavingCond' = allLeavingCond \ {t}
    /\ UNCHANGED <<numEntered, numLeaving, pc, begun, returned>>

-----------------------------------------------------------------------------
Finished == \A t \in Threads : returned[t] = Rounds

(* Every thread has made its calls.                                        *)
exited == Finished /\ UNCHANGED vars

threadStep(t) == checkin(t) \/ resumeEntering(t) \/ resumeLeaving(t)

Next == (\E t \in Threads : threadStep(t) \/ spuriousWakeup(t)) \/ exited

Spec == Init /\ [][Next]_vars

(* A thread that can run does; each makes finitely many calls, so the      *)
(* mutex is not contended for for ever.                                    *)
FairSpec == Spec /\ \A t \in Threads : WF_vars(threadStep(t))

-----------------------------------------------------------------------------
TypeOK ==
    /\ numEntered \in 0..numThreads
    /\ numLeaving \in 0..numThreads
    /\ allCheckedInCond \subseteq {t \in Threads : pc[t] = "entering"}
    /\ allLeavingCond \subseteq {t \in Threads : pc[t] = "leaving"}
    /\ pc \in [Threads -> {"out", "entering", "leaving"}]
    /\ begun \in [Threads -> 0..Rounds]
    /\ returned \in [Threads -> 0..Rounds]

(* No thread returns from its k-th checkin before every thread has begun   *)
(* its k-th, in every round: a fast thread that comes back while slow ones *)
(* are still leaving the previous round does not let them, or itself,      *)
(* through early.                                                          *)
NobodyAhead == \A t, u \in Threads : returned[t] <= begun[u]

(* Every thread gets through all its rounds.                               *)
AllRoundsEnd == <>Finished
=============================================================================
