---------------------------- MODULE RWLockDriver ----------------------------
(***************************************************************************)
(* The program OSPP/src/5/6_1_RWLock.cpp: main creates reader and writer   *)
(* threads one after the other, each takes the lock once, and main joins   *)
(* them all.                                                               *)
(***************************************************************************)
EXTENDS RWLock, Sequences

CONSTANTS t1, t2, t3, t4, t5

(* The threads in the order in which main creates and joins them; those    *)
(* created with argument 0 read.                                           *)
Creation == <<t1, t2, t3, t4, t5>>
Created == {t1, t2, t3, t4, t5}
Readers == {t1, t2, t5}

ASSUME DriverAssumption == Threads = Created /\ Cardinality(Created) = 5

VARIABLES
    created,    \* how many threads main has created
    joined,     \* how many threads main has joined
    finished    \* the threads whose threadFunc has returned

driverVars == <<vars, created, joined, finished>>

Started == {Creation[i] : i \in 1..created}

DriverInit == Init /\ created = 0 /\ joined = 0 /\ finished = {}

createThread ==
    /\ created < Len(Creation)
    /\ created' = created + 1
    /\ UNCHANGED <<vars, joined, finished>>

joinThread ==
    /\ created = Len(Creation) /\ joined < Len(Creation)
    /\ Creation[joined + 1] \in finished
    /\ joined' = joined + 1
    /\ UNCHANGED <<vars, created, finished>>

(* threadFunc: take the lock, print and sleep, give it back, return.       *)
threadFunc(t) ==
    /\ t \in Started \ finished
    /\ \/ /\ t \in Readers
          /\ startRead(t) \/ resumeRead(t)
          /\ UNCHANGED finished
       \/ /\ t \in Readers
          /\ doneRead(t)
          /\ finished' = finished \cup {t}
       \/ /\ t \notin Readers
          /\ startWrite(t) \/ resumeWrite(t)
          /\ UNCHANGED finished
       \/ /\ t \notin Readers
          /\ doneWrite(t)
          /\ finished' = finished \cup {t}
    /\ UNCHANGED <<created, joined>>

wakeSpuriously ==
    /\ \E t \in Threads : spuriousWakeup(t)
    /\ UNCHANGED <<created, joined, finished>>

(* main has returned; nothing is left to do.                               *)
exited == joined = Len(Creation) /\ UNCHANGED driverVars

DriverNext ==
    \/ createThread
    \/ joinThread
    \/ \E t \in Threads : threadFunc(t)
    \/ wakeSpuriously
    \/ exited

(* Every thread that can run does: the mutex is contended for only         *)
(* finitely often, since each thread makes one call.  Nothing makes a      *)
(* spurious wake-up happen.                                                *)
DriverSpec ==
    /\ DriverInit /\ [][DriverNext]_driverVars
    /\ WF_driverVars(createThread) /\ WF_driverVars(joinThread)
    /\ \A t \in Threads : WF_driverVars(threadFunc(t))

(* Every call of startRead and startWrite returns and main joins all its   *)
(* threads: nobody is left asleep although doneRead signals only for the   *)
(* last reader and doneWrite wakes either one writer or the readers.       *)
MainReturns == <>(joined = Len(Creation))
=============================================================================
