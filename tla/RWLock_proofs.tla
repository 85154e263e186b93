---------------------------- MODULE RWLock_proofs ----------------------------
(***************************************************************************)
(* Proofs about RWLock, for any finite set of threads.                     *)
(***************************************************************************)
EXTENDS RWLock, FiniteSetTheorems, TLAPS

(* The counters count: each is the number of threads at the place of the   *)
(* code it stands for.                                                     *)
Counts ==
    /\ activeReaders = Cardinality(At("reading"))
    /\ waitingReaders = Cardinality(At("startRead"))
    /\ activeWriters = Cardinality(At("writing"))
    /\ waitingWriters = Cardinality(At("startWrite"))

(* Only threads inside the wait loops are blocked.                         *)
Blocked ==
    /\ readCond \subseteq At("startRead")
    /\ writeCond \subseteq At("startWrite")

(* What the tests of readShouldWait and writeShouldWait preserve.          *)
OneSide == activeWriters \in {0, 1} /\ (activeWriters = 1 => activeReaders = 0)

PcOK == pc \in [Threads -> Locations]

IInv == PcOK /\ Counts /\ Blocked /\ OneSide /\ NoLostWakeup

-----------------------------------------------------------------------------
(* Each set of threads is finite, so its cardinality tells if it is empty. *)
LEMMA AtFinite ==
    ASSUME NEW l
    PROVE  /\ IsFiniteSet(At(l))
           /\ Cardinality(At(l)) \in 0..Cardinality(Threads)
           /\ Cardinality(At(l)) = 0 <=> At(l) = {}
<1>1. At(l) \in SUBSET Threads
  BY DEF At
<1>2. IsFiniteSet(At(l)) /\ Cardinality(At(l)) <= Cardinality(Threads)
  BY <1>1, FS_Subset, ThreadsAssumption
<1>3. Cardinality(At(l)) \in Nat /\ Cardinality(Threads) \in Nat
  BY <1>2, FS_CardinalityType, ThreadsAssumption
<1>4. Cardinality(At(l)) = 0 <=> At(l) = {}
  BY <1>2, FS_EmptySet
<1> QED
  BY <1>2, <1>3, <1>4

(* A thread that moves leaves one set and joins another.                   *)
LEMMA GotoMoves ==
    ASSUME PcOK, NEW t \in Threads, NEW m, Goto(t, m), pc[t] # m
    PROVE  /\ \A l : At(l)' = IF l = m THEN At(l) \cup {t} ELSE At(l) \ {t}
           /\ \A l : Cardinality(At(l)') =
                       IF l = m THEN Cardinality(At(l)) + 1
                       ELSE IF l = pc[t] THEN Cardinality(At(l)) - 1
                       ELSE Cardinality(At(l))
           /\ \A l : l # pc[t] => t \notin At(l)
           /\ t \in At(pc[t])
           /\ \A l : l # m /\ l # pc[t] => At(l)' = At(l)
<1>1. \A l : At(l)' = IF l = m THEN At(l) \cup {t} ELSE At(l) \ {t}
  BY DEF PcOK, Goto, At
<1>2. (\A l : l # pc[t] => t \notin At(l)) /\ t \in At(pc[t])
  BY DEF At
<1>3. ASSUME NEW l
      PROVE  Cardinality(At(l)') =
               IF l = m THEN Cardinality(At(l)) + 1
               ELSE IF l = pc[t] THEN Cardinality(At(l)) - 1
               ELSE Cardinality(At(l))
  <2>1. IsFiniteSet(At(l)) /\ Cardinality(At(l)) \in Nat
    BY AtFinite
  <2>2. CASE l = m
    <3>1. At(l)' = At(l) \cup {t} /\ t \notin At(l)
      BY <1>1, <1>2, <2>2
    <3> QED
      BY <3>1, <2>1, <2>2, FS_AddElement
  <2>3. CASE l # m
    <3>1. At(l)' = At(l) \ {t} /\ (t \in At(l) <=> l = pc[t])
      BY <1>1, <1>2, <2>3
    <3> QED
      BY <3>1, <2>1, <2>3, FS_RemoveElement
  <2> QED
    BY <2>2, <2>3
<1>4. \A l : l # m /\ l # pc[t] => At(l)' = At(l)
  BY <1>1, <1>2
<1> QED
  BY <1>1, <1>2, <1>3, <1>4

(* Waking one or all of the blocked threads leaves a subset blocked.       *)
LEMMA SignalWakes ==
    ASSUME NEW cond, NEW after \in AfterSignal(cond)
    PROVE  after \subseteq cond /\ (cond # {} => after # cond)
BY DEF AfterSignal

-----------------------------------------------------------------------------
(* The steps, one lemma for each operation of the class.  Each move is     *)
(* read off GotoMoves; the branches then differ in counters and wake-ups.  *)
LEMMA StartReadPreserves ==
    ASSUME IInv, NEW t \in Threads, startRead(t)
    PROVE  IInv'
<1> USE DEF IInv
<1>1. CASE readShouldWait
  <2>1. /\ waitingReaders' = waitingReaders + 1
        /\ readCond' = readCond \cup {t}
        /\ Goto(t, "startRead") /\ pc[t] = "idle"
        /\ UNCHANGED <<activeReaders, activeWriters, waitingWriters, writeCond>>
    BY <1>1 DEF startRead
  <2>2. Counts' /\ Blocked'
    BY <2>1, GotoMoves DEF Counts, Blocked
  <2>3. PcOK' /\ OneSide'
    BY <2>1 DEF PcOK, Goto, Locations, OneSide
  <2>4. NoLostWakeup'
    <3>1. At("writing") \cup At("startWrite") # {}
      BY <1>1, AtFinite DEF readShouldWait, Counts
    <3>2. At("writing")' = At("writing") /\ At("startWrite")' = At("startWrite")
          /\ At("reading")' = At("reading")
      BY <2>1, GotoMoves
    <3> QED
      BY <2>1, <3>1, <3>2 DEF NoLostWakeup
  <2> QED
    BY <2>2, <2>3, <2>4
<1>2. CASE ~readShouldWait
  <2>1. /\ activeReaders' = activeReaders + 1
        /\ Goto(t, "reading") /\ pc[t] = "idle"
        /\ UNCHANGED <<waitingReaders, activeWriters, waitingWriters, readCond, writeCond>>
    BY <1>2 DEF startRead
  <2>2. Counts' /\ Blocked'
    BY <2>1, GotoMoves DEF Counts, Blocked
  <2>3. activeWriters = 0
    BY <1>2 DEF readShouldWait, OneSide
  <2>4. PcOK' /\ OneSide'
    BY <2>1, <2>3 DEF PcOK, Goto, Locations, OneSide
  <2>5. NoLostWakeup'
    BY <2>1, GotoMoves DEF NoLostWakeup
  <2> QED
    BY <2>2, <2>4, <2>5
<1> QED
  BY <1>1, <1>2

LEMMA ResumeReadPreserves ==
    ASSUME IInv, NEW t \in Threads, resumeRead(t)
    PROVE  IInv'
<1> USE DEF IInv
<1>1. CASE readShouldWait
  <2>1. /\ readCond' = readCond \cup {t} /\ pc[t] = "startRead"
        /\ UNCHANGED <<waitingReaders, activeReaders, activeWriters,
                       waitingWriters, writeCond, pc>>
    BY <1>1 DEF resumeRead
  <2>2. \A l : At(l)' = At(l)
    BY <2>1 DEF At
  <2>3. Counts' /\ OneSide' /\ PcOK'
    BY <2>1, <2>2 DEF Counts, OneSide, PcOK
  <2>4. Blocked'
    BY <2>1, <2>2 DEF Blocked, At
  <2>5. At("writing") \cup At("startWrite") # {}
    BY <1>1, AtFinite DEF readShouldWait, Counts
  <2>6. NoLostWakeup'
    BY <2>1, <2>2, <2>5 DEF NoLostWakeup
  <2> QED
    BY <2>3, <2>4, <2>6
<1>2. CASE ~readShouldWait
  <2>1. /\ waitingReaders' = waitingReaders - 1
        /\ activeReaders' = activeReaders + 1
        /\ Goto(t, "reading") /\ pc[t] = "startRead" /\ t \notin readCond
        /\ UNCHANGED <<activeWriters, waitingWriters, readCond, writeCond>>
    BY <1>2 DEF resumeRead
  <2>2. Counts' /\ Blocked'
    BY <2>1, GotoMoves DEF Counts, Blocked
  <2>3. activeWriters = 0
    BY <1>2 DEF readShouldWait, OneSide
  <2>4. PcOK' /\ OneSide'
    BY <2>1, <2>3 DEF PcOK, Goto, Locations, OneSide
  <2>5. NoLostWakeup'
    BY <2>1, GotoMoves DEF NoLostWakeup
  <2> QED
    BY <2>2, <2>4, <2>5
<1> QED
  BY <1>1, <1>2

(* doneRead: only the last reader signals.  If another reader is left, it  *)
(* will; if none is left and a writer sleeps, one is woken here.           *)
LEMMA DoneReadPreserves ==
    ASSUME IInv, NEW t \in Threads, doneRead(t)
    PROVE  IInv'
<1> USE DEF IInv
<1>1. /\ activeReaders' = activeReaders - 1
      /\ Goto(t, "idle") /\ pc[t] = "reading"
      /\ writeCond' \in IF activeReaders' = 0 /\ waitingWriters > 0
                        THEN AfterSignal(writeCond)
                        ELSE {writeCond}
      /\ UNCHANGED <<waitingReaders, activeWriters, waitingWriters, readCond>>
  BY DEF doneRead
<1>2. writeCond' \subseteq writeCond
  BY <1>1, SignalWakes
<1>3. Counts' /\ Blocked'
  BY <1>1, <1>2, GotoMoves DEF Counts, Blocked
<1>4. activeReaders \in Nat /\ activeReaders # 0
  <2>1. At("reading") # {}
    BY <1>1, GotoMoves
  <2> QED
    BY <2>1, AtFinite DEF Counts
<1>5. PcOK' /\ OneSide'
  BY <1>1, <1>4 DEF PcOK, Goto, Locations, OneSide
<1>6. NoLostWakeup'
  <2>1. (readCond # {} => At("writing") \cup At("startWrite") # {})'
    BY <1>1, GotoMoves DEF NoLostWakeup
  <2>2. ASSUME writeCond' # {}
        PROVE  \/ (At("reading") \cup At("writing") # {})'
               \/ (At("startWrite") \ writeCond # {})'
    <3>1. At("startWrite")' = At("startWrite")
      BY <1>1, GotoMoves
    <3>2. CASE activeReaders' = 0
      <4>1. waitingWriters > 0
        <5>1. At("startWrite") # {}
          BY <1>2, <2>2 DEF Blocked
        <5> QED
          BY <5>1, AtFinite DEF Counts
      <4>2. writeCond' # writeCond
        BY <1>1, <1>2, <2>2, <3>2, <4>1, SignalWakes
      <4> QED
        BY <1>2, <3>1, <4>2 DEF Blocked
    <3>3. CASE activeReaders' # 0
      <4>1. At("reading")' # {}
        BY <1>3, <3>3, FS_EmptySet DEF Counts
      <4> QED
        BY <4>1
    <3> QED
      BY <3>2, <3>3
  <2> QED
    BY <2>1, <2>2 DEF NoLostWakeup
<1> QED
  BY <1>3, <1>5, <1>6

LEMMA StartWritePreserves ==
    ASSUME IInv, NEW t \in Threads, startWrite(t)
    PROVE  IInv'
<1> USE DEF IInv
<1>1. CASE writeShouldWait
  <2>1. /\ waitingWriters' = waitingWriters + 1
        /\ writeCond' = writeCond \cup {t}
        /\ Goto(t, "startWrite") /\ pc[t] = "idle"
        /\ UNCHANGED <<activeReaders, activeWriters, waitingReaders, readCond>>
    BY <1>1 DEF startWrite
  <2>2. Counts' /\ Blocked'
    BY <2>1, GotoMoves DEF Counts, Blocked
  <2>3. PcOK' /\ OneSide'
    BY <2>1 DEF PcOK, Goto, Locations, OneSide
  <2>4. NoLostWakeup'
    <3>1. At("reading") \cup At("writing") # {}
      BY <1>1, AtFinite DEF writeShouldWait, Counts
    <3>2. At("writing")' = At("writing") /\ At("reading")' = At("reading")
      BY <2>1, GotoMoves
    <3>3. t \in At("startWrite")'
      BY <2>1, GotoMoves
    <3> QED
      BY <2>1, <3>1, <3>2, <3>3 DEF NoLostWakeup
  <2> QED
    BY <2>2, <2>3, <2>4
<1>2. CASE ~writeShouldWait
  <2>1. /\ activeWriters' = activeWriters + 1
        /\ Goto(t, "writing") /\ pc[t] = "idle"
        /\ UNCHANGED <<activeReaders, waitingReaders, waitingWriters, readCond, writeCond>>
    BY <1>2 DEF startWrite
  <2>2. Counts' /\ Blocked'
    BY <2>1, GotoMoves DEF Counts, Blocked
  <2>3. activeWriters = 0 /\ activeReaders = 0
    BY <1>2, AtFinite DEF writeShouldWait, OneSide, Counts
  <2>4. PcOK' /\ OneSide'
    BY <2>1, <2>3 DEF PcOK, Goto, Locations, OneSide
  <2>5. NoLostWakeup'
    BY <2>1, GotoMoves DEF NoLostWakeup
  <2> QED
    BY <2>2, <2>4, <2>5
<1> QED
  BY <1>1, <1>2

(* A writer that goes back to sleep does so behind a holder of the lock.   *)
LEMMA ResumeWritePreserves ==
    ASSUME IInv, NEW t \in Threads, resumeWrite(t)
    PROVE  IInv'
<1> USE DEF IInv
<1>1. CASE writeShouldWait
  <2>1. /\ writeCond' = writeCond \cup {t} /\ pc[t] = "startWrite"
        /\ UNCHANGED <<waitingReaders, activeReaders, activeWriters,
                       waitingWriters, readCond, pc>>
    BY <1>1 DEF resumeWrite
  <2>2. \A l : At(l)' = At(l)
    BY <2>1 DEF At
  <2>3. Counts' /\ OneSide' /\ PcOK'
    BY <2>1, <2>2 DEF Counts, OneSide, PcOK
  <2>4. Blocked'
    BY <2>1, <2>2 DEF Blocked, At
  <2>5. At("reading") \cup At("writing") # {}
    BY <1>1, AtFinite DEF writeShouldWait, Counts
  <2>6. NoLostWakeup'
    BY <2>1, <2>2, <2>5 DEF NoLostWakeup
  <2> QED
    BY <2>3, <2>4, <2>6
<1>2. CASE ~writeShouldWait
  <2>1. /\ waitingWriters' = waitingWriters - 1
        /\ activeWriters' = activeWriters + 1
        /\ Goto(t, "writing") /\ pc[t] = "startWrite" /\ t \notin writeCond
        /\ UNCHANGED <<activeReaders, waitingReaders, readCond, writeCond>>
    BY <1>2 DEF resumeWrite
  <2>2. Counts' /\ Blocked'
    BY <2>1, GotoMoves DEF Counts, Blocked
  <2>3. activeWriters = 0 /\ activeReaders = 0
    BY <1>2, AtFinite DEF writeShouldWait, OneSide, Counts
  <2>4. PcOK' /\ OneSide'
    BY <2>1, <2>3 DEF PcOK, Goto, Locations, OneSide
  <2>5. NoLostWakeup'
    BY <2>1, GotoMoves DEF NoLostWakeup
  <2> QED
    BY <2>2, <2>4, <2>5
<1> QED
  BY <1>1, <1>2

(* doneWrite: with the only holder gone, a sleeping writer is woken, or,   *)
(* when no writer waits, all sleeping readers.                             *)
LEMMA DoneWritePreserves ==
    ASSUME IInv, NEW t \in Threads, doneWrite(t)
    PROVE  IInv'
<1> USE DEF IInv
<1>1. /\ activeWriters' = activeWriters - 1
      /\ Goto(t, "idle") /\ pc[t] = "writing"
      /\ UNCHANGED <<activeReaders, waitingReaders, waitingWriters>>
  BY DEF doneWrite
<1>2. \/ waitingWriters > 0 /\ writeCond' \in AfterSignal(writeCond) /\ readCond' = readCond
      \/ waitingWriters = 0 /\ writeCond' = writeCond
         /\ readCond' = IF waitingReaders > 0 THEN {} ELSE readCond
  BY DEF doneWrite, AfterBroadcast
<1>3. writeCond' \subseteq writeCond /\ readCond' \subseteq readCond
  BY <1>2, SignalWakes
<1>4. Counts' /\ Blocked'
  BY <1>1, <1>3, GotoMoves DEF Counts, Blocked
<1>5. activeWriters = 1
  <2>1. At("writing") # {}
    BY <1>1, GotoMoves
  <2> QED
    BY <2>1, AtFinite DEF Counts, OneSide
<1>6. PcOK' /\ OneSide'
  BY <1>1, <1>5 DEF PcOK, Goto, Locations, OneSide
<1>7. At("startWrite")' = At("startWrite") /\ At("startRead")' = At("startRead")
  BY <1>1, GotoMoves
<1>8. NoLostWakeup'
  <2>1. CASE waitingWriters > 0
    <3>1. At("startWrite") # {}
      BY <2>1, AtFinite DEF Counts
    <3>2. At("startWrite") \ writeCond' # {}
      <4>1. CASE writeCond = {}
        BY <1>3, <3>1, <4>1
      <4>2. CASE writeCond # {}
        <5>1. writeCond' \in AfterSignal(writeCond)
          BY <1>2, <2>1
        <5>2. writeCond' # writeCond /\ writeCond' \subseteq writeCond
          BY <4>2, <5>1, SignalWakes
        <5>3. PICK u \in writeCond : u \notin writeCond'
          BY <5>2
        <5>4. u \in At("startWrite")
          BY <5>3 DEF Blocked
        <5> QED
          BY <5>3, <5>4
      <4> QED
        BY <4>1, <4>2
    <3> QED
      BY <1>7, <3>1, <3>2 DEF NoLostWakeup
  <2>2. CASE ~(waitingWriters > 0)
    <3>1. writeCond' = {}
      <4>1. At("startWrite") = {}
        BY <2>2, AtFinite DEF Counts
      <4> QED
        BY <1>3, <4>1 DEF Blocked
    <3>2. readCond' = {}
      <4>1. CASE waitingReaders > 0
        BY <1>2, <2>2, <4>1
      <4>2. CASE ~(waitingReaders > 0)
        <5>1. At("startRead") = {}
          BY <4>2, AtFinite DEF Counts
        <5> QED
          BY <1>3, <5>1 DEF Blocked
      <4> QED
        BY <4>1, <4>2
    <3> QED
      BY <3>1, <3>2 DEF NoLostWakeup
  <2> QED
    BY <2>1, <2>2
<1> QED
  BY <1>4, <1>6, <1>8

LEMMA SpuriousWakeupPreserves ==
    ASSUME IInv, NEW t \in Threads, spuriousWakeup(t)
    PROVE  IInv'
<1> USE DEF IInv
<1>1. /\ readCond' = readCond \ {t} /\ writeCond' = writeCond \ {t}
      /\ UNCHANGED <<activeReaders, waitingReaders, activeWriters, waitingWriters, pc>>
  BY DEF spuriousWakeup
<1>2. \A l : At(l)' = At(l)
  BY <1>1 DEF At
<1>3. Counts' /\ OneSide' /\ PcOK' /\ Blocked'
  BY <1>1, <1>2 DEF Counts, OneSide, PcOK, Blocked
<1>4. NoLostWakeup'
  BY <1>1, <1>2 DEF NoLostWakeup
<1> QED
  BY <1>3, <1>4

-----------------------------------------------------------------------------
(* The inductive invariant holds in every behaviour of the monitor.        *)
THEOREM InductiveInvariant == Spec => []IInv
<1>1. Init => IInv
  <2> SUFFICES ASSUME Init PROVE IInv
    OBVIOUS
  <2>1. \A l : l # "idle" => At(l) = {}
    BY DEF Init, At
  <2>2. Counts
    BY <2>1, FS_EmptySet DEF Init, Counts
  <2> QED
    BY <2>2 DEF Init, IInv, PcOK, Blocked, OneSide, NoLostWakeup, Locations
<1>2. IInv /\ [Next]_vars => IInv'
  <2> SUFFICES ASSUME IInv, [Next]_vars PROVE IInv'
    OBVIOUS
  <2>1. CASE UNCHANGED vars
    <3>1. \A l : At(l)' = At(l)
      BY <2>1 DEF vars, At
    <3> QED
      BY <2>1, <3>1 DEF vars, IInv, PcOK, Counts, Blocked, OneSide, NoLostWakeup
  <2>2. ASSUME NEW t \in Threads, threadStep(t) \/ spuriousWakeup(t)
        PROVE  IInv'
    BY <2>2, StartReadPreserves, ResumeReadPreserves, DoneReadPreserves,
       StartWritePreserves, ResumeWritePreserves, DoneWritePreserves,
       SpuriousWakeupPreserves DEF threadStep
  <2> QED
    BY <2>1, <2>2 DEF Next
<1> QED
  BY <1>1, <1>2, PTL DEF Spec

(* The counters stay within the number of threads, the writers within one. *)
THEOREM TypeCorrect == Spec => []TypeOK
<1>1. IInv => TypeOK
  <2> SUFFICES ASSUME IInv PROVE TypeOK
    OBVIOUS
  <2>1. readCond \subseteq Threads /\ writeCond \subseteq Threads
    BY DEF IInv, Blocked, At
  <2> QED
    BY <2>1, AtFinite DEF IInv, TypeOK, PcOK, Counts, OneSide
<1> QED
  BY <1>1, InductiveInvariant, PTL

(* A writer holds the lock alone.                                          *)
THEOREM MutualExclusion == Spec => []Exclusion
<1>1. IInv => Exclusion
  <2> SUFFICES ASSUME IInv, NEW t \in At("writing"), NEW u \in Threads \ {t}
               PROVE  pc[u] \notin {"reading", "writing"}
    BY DEF Exclusion
  <2>1. activeWriters = 1 /\ activeReaders = 0
    BY AtFinite DEF IInv, Counts, OneSide
  <2>2. At("reading") = {}
    BY <2>1, AtFinite DEF IInv, Counts
  <2>3. At("writing") = {t}
    BY <2>1, AtFinite, FS_Singleton DEF IInv, Counts
  <2> QED
    BY <2>2, <2>3 DEF At
<1> QED
  BY <1>1, InductiveInvariant, PTL

(* No thread sleeps unless somebody is left who will wake it.              *)
THEOREM NoThreadForgotten == Spec => []NoLostWakeup
<1>1. IInv => NoLostWakeup
  BY DEF IInv
<1> QED
  BY <1>1, InductiveInvariant, PTL

-----------------------------------------------------------------------------
(* How a move of a thread looks through the refinement mapping.            *)
LEMMA ModeMoves ==
    ASSUME PcOK, NEW t \in Threads, NEW m, Goto(t, m), m \in Locations
    PROVE  modeOf' = [modeOf EXCEPT ![t] =
                        IF m = "startRead" THEN "wantRead"
                        ELSE IF m = "startWrite" THEN "wantWrite" ELSE m]
BY DEF PcOK, Goto, modeOf

(* The tests of the counters say what the promise says of the threads.     *)
LEMMA TestsMeanModes ==
    ASSUME IInv
    PROVE  /\ ~readShouldWait => RW!NoOne({"writing", "wantWrite"})
           /\ ~writeShouldWait => RW!NoOne({"reading", "writing"})
<1>1. PcOK /\ Counts
  BY DEF IInv
<1>2. ~readShouldWait => At("writing") = {} /\ At("startWrite") = {}
  BY <1>1, AtFinite DEF Counts, readShouldWait
<1>3. ~writeShouldWait => At("writing") = {} /\ At("reading") = {}
  BY <1>1, AtFinite DEF Counts, writeShouldWait
<1> QED
  BY <1>1, <1>2, <1>3 DEF At, RW!NoOne, modeOf, PcOK, Locations

(* Every step of the monitor is a step of the abstract lock or none.       *)
LEMMA StepsRefine ==
    ASSUME IInv, [Next]_vars
    PROVE  [RW!Next]_modeOf
<1> USE DEF RW!Next, RW!AskRead, RW!AskWrite, RW!GrantRead, RW!GrantWrite,
            RW!Release, RW!Become
<1>0. PcOK
  BY DEF IInv
<1>1. CASE UNCHANGED pc
  BY <1>1 DEF modeOf
<1>2. ASSUME NEW t \in Threads, threadStep(t), ~UNCHANGED pc
      PROVE  [RW!Next]_modeOf
  <2>1. CASE startRead(t)
    <3>1. CASE readShouldWait
      BY <1>0, <2>1, <3>1, ModeMoves DEF startRead, Locations, modeOf
    <3>2. CASE ~readShouldWait
      BY <1>0, <2>1, <3>2, ModeMoves, TestsMeanModes DEF startRead, Locations, modeOf
    <3> QED
      BY <3>1, <3>2
  <2>2. CASE resumeRead(t)
    BY <1>0, <1>2, <2>2, ModeMoves, TestsMeanModes DEF resumeRead, Locations, modeOf
  <2>3. CASE doneRead(t)
    BY <1>0, <2>3, ModeMoves DEF doneRead, Locations, modeOf
  <2>4. CASE startWrite(t)
    <3>1. CASE writeShouldWait
      BY <1>0, <2>4, <3>1, ModeMoves DEF startWrite, Locations, modeOf
    <3>2. CASE ~writeShouldWait
      BY <1>0, <2>4, <3>2, ModeMoves, TestsMeanModes DEF startWrite, Locations, modeOf
    <3> QED
      BY <3>1, <3>2
  <2>5. CASE resumeWrite(t)
    BY <1>0, <1>2, <2>5, ModeMoves, TestsMeanModes DEF resumeWrite, Locations, modeOf
  <2>6. CASE doneWrite(t)
    BY <1>0, <2>6, ModeMoves DEF doneWrite, Locations, modeOf
  <2> QED
    BY <1>2, <2>1, <2>2, <2>3, <2>4, <2>5, <2>6 DEF threadStep
<1> QED
  BY <1>1, <1>2 DEF Next, vars, spuriousWakeup

(* RWLock keeps the promise of ReadersWriters.                             *)
THEOREM Refinement == Spec => ImplementsReadersWriters
<1>1. Init => RW!Init
  BY DEF Init, RW!Init, modeOf
<1>2. IInv /\ [Next]_vars => [RW!Next]_modeOf
  BY StepsRefine
<1> QED
  BY <1>1, <1>2, InductiveInvariant, PTL DEF Spec, ImplementsReadersWriters, RW!Spec
=============================================================================
