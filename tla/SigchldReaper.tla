---------------------------- MODULE SigchldReaper ----------------------------
(***************************************************************************)
(* The parent of TLPI/src/26_monitoring_child_processes/5_reaping_dead_    *)
(* children_via_a_handler_for_SIGCHLD_main.c.  SIGCHLD is blocked but for  *)
(* sigsuspend, it is pending at most once however many children have died, *)
(* and the handler reaps until waitpid finds no more.                      *)
(***************************************************************************)
EXTENDS Integers, FiniteSets

CONSTANT Children   \* a finite set, one for each argument of the program

VARIABLES
    child,              \* "none", "running", "zombie", "gone"
    pending,            \* SIGCHLD is pending for the parent
    pc,                 \* "fork", "loop", "suspend", "handler", "done";
                        \* "suspend" is on the way into sigsuspend or in it
    numLiveChildren,
    sigCnt

vars == <<child, pending, pc, numLiveChildren, sigCnt>>

\* The handler is set and SIGCHLD blocked before the first fork.
Init ==
    /\ child = [c \in Children |-> "none"]
    /\ pending = FALSE
    /\ pc = "fork"
    /\ numLiveChildren = Cardinality(Children)
    /\ sigCnt = 0

fork ==
    /\ pc = "fork"
    /\ \/ \E c \in Children :
             /\ child[c] = "none"
             /\ child' = [child EXCEPT ![c] = "running"]
             /\ UNCHANGED pc
       \/ /\ \A c \in Children : child[c] # "none"
          /\ pc' = "loop"
          /\ UNCHANGED child
    /\ UNCHANGED <<pending, numLiveChildren, sigCnt>>

childExits(c) ==
    /\ child[c] = "running"
    /\ child' = [child EXCEPT ![c] = "zombie"]
    /\ pending' = TRUE
    /\ UNCHANGED <<pc, numLiveChildren, sigCnt>>

testLive ==
    /\ pc = "loop"
    /\ pc' = IF numLiveChildren > 0 THEN "suspend" ELSE "done"
    /\ UNCHANGED <<child, pending, numLiveChildren, sigCnt>>

\* sigsuspend: the mask is emptied and the signal taken in one step.
sigsuspend ==
    /\ pc = "suspend" /\ pending
    /\ pending' = FALSE
    /\ pc' = "handler"
    /\ UNCHANGED <<child, numLiveChildren, sigCnt>>

reap(c) ==
    /\ pc = "handler" /\ child[c] = "zombie"
    /\ child' = [child EXCEPT ![c] = "gone"]
    /\ numLiveChildren' = numLiveChildren - 1
    /\ UNCHANGED <<pending, pc, sigCnt>>

\* Mutation: one waitpid per signal.
returnFromHandler_once ==
    /\ pc = "handler"
    /\ pc' = "loop"
    /\ sigCnt' = sigCnt + 1
    /\ UNCHANGED <<child, pending, numLiveChildren>>

\* waitpid found no other zombie; sigsuspend returns with SIGCHLD blocked.
returnFromHandler ==
    /\ pc = "handler"
    /\ \A c \in Children : child[c] # "zombie"
    /\ pc' = "loop"
    /\ sigCnt' = sigCnt + 1
    /\ UNCHANGED <<child, pending, numLiveChildren>>

ended == pc = "done" /\ UNCHANGED vars

Parent == fork \/ testLive \/ sigsuspend \/ (\E c \in Children : reap(c)) \/ returnFromHandler

Next == Parent \/ (\E c \in Children : childExits(c)) \/ ended

Spec == Init /\ [][Next]_vars

\* The parent runs, and every child ends when its sleep is over.
FairSpec == Spec /\ WF_vars(Parent) /\ \A c \in Children : WF_vars(childExits(c))

-----------------------------------------------------------------------------
TypeOK ==
    /\ child \in [Children -> {"none", "running", "zombie", "gone"}]
    /\ pending \in BOOLEAN
    /\ pc \in {"fork", "loop", "suspend", "handler", "done"}
    /\ numLiveChildren \in 0 .. Cardinality(Children)
    /\ sigCnt \in 0 .. Cardinality(Children)

(* A dead child that is not reaped keeps SIGCHLD pending while it is       *)
(* blocked (line 49), so that sigsuspend (line 71) cannot sleep through it.*)
NoLostDeath ==
    \A c \in Children : child[c] = "zombie" /\ pc # "handler" => pending

(* The parent ends (line 78), and then no child is left behind.            *)
MainReturns == <>(pc = "done" /\ \A c \in Children : child[c] = "gone")
=============================================================================
