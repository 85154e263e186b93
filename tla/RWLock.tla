------------------------------- MODULE RWLock -------------------------------
(***************************************************************************)
(* The monitor RWLock of OSPP/lib/RWLock.cpp: any thread may call          *)
(* startRead/doneRead or startWrite/doneWrite, any number of times.  The   *)
(* mutex mtx is held from the lock to the wait or to the unlock, so each   *)
(* such stretch of code is one step.                                       *)
(***************************************************************************)
EXTENDS Integers, FiniteSets, PthreadCond

CONSTANT Threads    \* the threads that share the lock

ASSUME ThreadsAssumption == IsFiniteSet(Threads)

VARIABLES
    activeReaders, waitingReaders,  \* the four counters of the object
    activeWriters, waitingWriters,
    readCond, writeCond,            \* the threads blocked on each condition
    pc                              \* where each thread is

vars == <<activeReaders, waitingReaders, activeWriters, waitingWriters,
          readCond, writeCond, pc>>

At(l) == {t \in Threads : pc[t] = l}

Locations == {"idle", "startRead", "reading", "startWrite", "writing"}

Goto(t, l) == pc' = [pc EXCEPT ![t] = l]

Init ==
    /\ activeReaders = 0
    /\ waitingReaders = 0
    /\ activeWriters = 0
    /\ waitingWriters = 0
    /\ readCond = {}
    /\ writeCond = {}
    /\ pc = [t \in Threads |-> "idle"]

\* Mutations: no preference for writers; one of the two tests forgotten.
readShouldWait_readersFirst == activeWriters > 0
writeShouldWait_amongWriters == activeReaders > 0
writeShouldWait_amongReaders == activeWriters > 0

readShouldWait == waitingWriters > 0 \/ activeWriters > 0

writeShouldWait == activeWriters > 0 \/ activeReaders > 0

-----------------------------------------------------------------------------
(* startRead up to the first wait, or to the end when it need not wait.    *)
startRead(t) ==
    /\ pc[t] = "idle"
    /\ \/ /\ readShouldWait
          /\ waitingReaders' = waitingReaders + 1
          /\ readCond' = readCond \cup {t}
          /\ Goto(t, "startRead")
          /\ UNCHANGED activeReaders
       \/ /\ ~readShouldWait
          /\ activeReaders' = activeReaders + 1
          /\ Goto(t, "reading")
          /\ UNCHANGED <<waitingReaders, readCond>>
    /\ UNCHANGED <<activeWriters, waitingWriters, writeCond>>

(* A woken reader goes round the while loop.                               *)
resumeRead(t) ==
    /\ pc[t] = "startRead" /\ t \notin readCond
    /\ \/ /\ readShouldWait
          /\ readCond' = readCond \cup {t}
          /\ UNCHANGED <<waitingReaders, activeReaders, pc>>
       \/ /\ ~readShouldWait
          /\ waitingReaders' = waitingReaders - 1
          /\ activeReaders' = activeReaders + 1
          /\ Goto(t, "reading")
          /\ UNCHANGED readCond
    /\ UNCHANGED <<activeWriters, waitingWriters, writeCond>>

\* Mutation: the counters of the two sides mixed up in the test.
doneRead_wrongCounter(t) ==
    /\ pc[t] = "reading"
    /\ activeReaders' = activeReaders - 1
    /\ writeCond' \in IF activeReaders' = 0 /\ waitingReaders > 0
                      THEN AfterSignal(writeCond)
                      ELSE {writeCond}
    /\ Goto(t, "idle")
    /\ UNCHANGED <<waitingReaders, activeWriters, waitingWriters, readCond>>

doneRead(t) ==
    /\ pc[t] = "reading"
    /\ activeReaders' = activeReaders - 1
    /\ writeCond' \in IF activeReaders' = 0 /\ waitingWriters > 0
                      THEN AfterSignal(writeCond)
                      ELSE {writeCond}
    /\ Goto(t, "idle")
    /\ UNCHANGED <<waitingReaders, activeWriters, waitingWriters, readCond>>

-----------------------------------------------------------------------------
startWrite(t) ==
    /\ pc[t] = "idle"
    /\ \/ /\ writeShouldWait
          /\ waitingWriters' = waitingWriters + 1
          /\ writeCond' = writeCond \cup {t}
          /\ Goto(t, "startWrite")
          /\ UNCHANGED activeWriters
       \/ /\ ~writeShouldWait
          /\ activeWriters' = activeWriters + 1
          /\ Goto(t, "writing")
          /\ UNCHANGED <<waitingWriters, writeCond>>
    /\ UNCHANGED <<activeReaders, waitingReaders, readCond>>

resumeWrite(t) ==
    /\ pc[t] = "startWrite" /\ t \notin writeCond
    /\ \/ /\ writeShouldWait
          /\ writeCond' = writeCond \cup {t}
          /\ UNCHANGED <<waitingWriters, activeWriters, pc>>
       \/ /\ ~writeShouldWait
          /\ waitingWriters' = waitingWriters - 1
          /\ activeWriters' = activeWriters + 1
          /\ Goto(t, "writing")
          /\ UNCHANGED writeCond
    /\ UNCHANGED <<activeReaders, waitingReaders, readCond>>

doneWrite(t) ==
    /\ pc[t] = "writing"
    /\ activeWriters' = activeWriters - 1
    /\ \/ /\ waitingWriters > 0
          /\ writeCond' \in AfterSignal(writeCond)
          /\ UNCHANGED readCond
       \/ /\ waitingWriters = 0
          /\ readCond' = IF waitingReaders > 0 THEN AfterBroadcast ELSE readCond
          /\ UNCHANGED writeCond
    /\ Goto(t, "idle")
    /\ UNCHANGED <<activeReaders, waitingReaders, waitingWriters>>

-----------------------------------------------------------------------------
(* POSIX lets a wait return with no signal.                                *)
spuriousWakeup(t) ==
    /\ t \in readCond \cup writeCond
    /\ readCond' = readCond \ {t}
    /\ writeCond' = writeCond \ {t}
    /\ UNCHANGED <<activeReaders, waitingReaders, activeWriters, waitingWriters, pc>>

threadStep(t) ==
    \/ startRead(t)  \/ resumeRead(t)  \/ doneRead(t)
    \/ startWrite(t) \/ resumeWrite(t) \/ doneWrite(t)

Next == \E t \in Threads : threadStep(t) \/ spuriousWakeup(t)

Spec == Init /\ [][Next]_vars

-----------------------------------------------------------------------------
(* Every variable has its type: the counters of RWLock.h never go negative *)
(* and never exceed the number of threads.                                 *)
TypeOK ==
    /\ activeReaders \in 0..Cardinality(Threads)
    /\ waitingReaders \in 0..Cardinality(Threads)
    /\ activeWriters \in 0..1
    /\ waitingWriters \in 0..Cardinality(Threads)
    /\ readCond \subseteq Threads
    /\ writeCond \subseteq Threads
    /\ pc \in [Threads -> Locations]

(* The exclusion the lock exists for: between startWrite and doneWrite no  *)
(* other thread is between startRead and doneRead or startWrite and        *)
(* doneWrite, whatever wake-ups came in between.                           *)
Exclusion ==
    \A t \in At("writing") : \A u \in Threads \ {t} : pc[u] \notin {"reading", "writing"}

(* doneRead and doneWrite signal only in some branches: a blocked writer   *)
(* must still have a holder of the lock, or a writer already woken, that   *)
(* will wake it; a blocked reader must have a writer ahead of it.  When    *)
(* this fails a thread sleeps in startRead or startWrite on a free lock.   *)
NoLostWakeup ==
    /\ writeCond # {} =>
         \/ At("reading") \cup At("writing") # {}
         \/ At("startWrite") \ writeCond # {}
    /\ readCond # {} => At("writing") \cup At("startWrite") # {}

(* The lock keeps the promise of ReadersWriters, with the threads' own     *)
(* positions in place of the counters: in particular startRead and its     *)
(* woken loop never let a reader in past a thread waiting in startWrite.   *)
modeOf == [t \in Threads |->
             IF pc[t] = "startRead" THEN "wantRead"
             ELSE IF pc[t] = "startWrite" THEN "wantWrite" ELSE pc[t]]

RW == INSTANCE ReadersWriters WITH mode <- modeOf

ImplementsReadersWriters == RW!Spec
=============================================================================
