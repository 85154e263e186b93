---------------------------- MODULE TLPI_proofs ----------------------------
(***************************************************************************)
(* Proofs about the programs of TLPI.  Of SvshmTransfer: for blocks of any *)
(* size and an input of any length, while the writer is not killed, the    *)
(* turns exclude each other, both ends count the same bytes, and the       *)
(* transfer is that of BlockTransfer.  Of JoinAny, SigchldReaper and       *)
(* MessageServer, for any number of threads, children and clients: deaths  *)
(* are known and files come whole.  With these and the theorem of          *)
(* SequenceNumbers, the invariants of MCTLPI.                              *)
(***************************************************************************)
EXTENDS MCTLPI, SequenceTheorems, TLAPS

-----------------------------------------------------------------------------
(* The transfer through shared memory.  The inductive invariant says where *)
(* the one turn is: it is not there yet (Setup), in one of the semaphores  *)
(* (WriterMay, ReaderMay), with one of the programs (Writing, Reading), or *)
(* it was the last one (Cleaning).                                         *)
Block == (1 .. BUF_SIZE) \X (1 .. BUF_SIZE)

(* Where a reader is that has no turn.                                     *)
Waiting == {"semget", "shmget", "reserve"}

Values(w, r) == WRITE_SEM = w /\ READ_SEM = r

(* The segment holds a block that was sent and has not come out, or the    *)
(* end of the input.                                                       *)
Full == /\ cnt \in 1 .. BUF_SIZE /\ buf \in 1 .. BUF_SIZE
        /\ sent = Append(received, <<buf, cnt>>)
Ended == cnt = 0 /\ sent = received
Given ==
    \/ Full /\ wpc \in {"test", "reserve"}
    \/ Ended /\ wpc \in {"test", "last"}

Setup ==
    /\ wpc \in {"semget", "initSemAvailable", "initSemInUse", "shmget"}
    /\ Values(IF wpc \in {"initSemInUse", "shmget"} THEN 1 ELSE 0, 0)
    /\ sems = (IF wpc = "semget" THEN FALSE ELSE TRUE) /\ shm = FALSE
    /\ rpc \in {"semget", "shmget"} /\ sent = received

WriterMay ==
    /\ Values(1, 0) /\ sems = TRUE /\ shm = TRUE /\ sent = received
    /\ \/ wpc = "reserve" /\ rpc \in Waiting
       \/ wpc = "test" /\ cnt \in 1 .. BUF_SIZE /\ rpc \in Waiting
       \/ wpc \in {"test", "last"} /\ cnt = 0 /\ rpc = "done"

Writing ==
    /\ Values(0, 0) /\ sems = TRUE /\ shm = TRUE /\ rpc \in Waiting
    /\ \/ wpc = "read" /\ sent = received
       \/ wpc = "count" /\ sent = received /\ (n > 0 => buf = n)
       \/ wpc = "release" /\ (Full \/ Ended)
       \/ wpc = "failed" /\ sent = received

ReaderMay == Values(0, 1) /\ sems = TRUE /\ shm = TRUE /\ rpc \in Waiting /\ Given

Reading ==
    /\ Values(0, 0) /\ sems = TRUE /\ shm = TRUE
    /\ \/ rpc = "test" /\ Given
       \/ rpc \in {"write", "failed"} /\ Given /\ cnt > 0
       \/ /\ rpc = "release" /\ cnt \in 1 .. BUF_SIZE /\ wpc \in {"test", "reserve"}
          /\ sent = received
       \/ rpc = "last" /\ Ended /\ wpc \in {"test", "last"}

Cleaning ==
    /\ Values(0, 0) /\ wpc \in {"removeSems", "removeShm", "done"} /\ rpc = "done"
    /\ sems = (IF wpc = "removeSems" THEN TRUE ELSE FALSE) /\ sent = received

Types ==
    /\ cnt \in -1 .. BUF_SIZE /\ buf \in 0 .. BUF_SIZE /\ n \in -1 .. BUF_SIZE
    /\ wbytes \in Int /\ rbytes \in Int
    /\ sent \in Seq(Block) /\ received \in Seq(Block)
    /\ kills = 0

IInv ==
    /\ Types
    /\ Setup \/ WriterMay \/ Writing \/ ReaderMay \/ Reading \/ Cleaning

-----------------------------------------------------------------------------
(* Creation and initialisation end with the turn in WRITE_SEM.             *)
LEMMA SetupKeeps ==
    ASSUME IInv, semget \/ initSemAvailable \/ initSemInUse \/ shmget
    PROVE  IInv'
BY DEF IInv, Types, Setup, WriterMay, Writing, ReaderMay, Reading, Cleaning, Given,
       Full, Ended, Values, Waiting, GoW, semget, initSemAvailable, initSemInUse,
       shmget, ipc, semaphores, segment, reader

(* With the turn the writer fills the segment, and sends what it has read. *)
LEMMA WriterTurn ==
    ASSUME IInv, reserveWrite \/ read \/ count \/ releaseRead \/ testEOF
    PROVE  IInv'
<1> USE TransferAssumption DEF IInv, Values, ipc, semaphores, segment, reader, GoW
<1>1. CASE reserveWrite
  BY <1>1 DEF reserveWrite, Types, Setup, WriterMay, Writing, ReaderMay, Reading,
              Cleaning, Given, Waiting
<1>2. CASE read
  <2>1. Writing /\ wpc = "read" /\ sent = received
    BY <1>2 DEF read, Setup, WriterMay, Writing, ReaderMay, Reading, Cleaning, Given
  <2> QED
    BY <1>2, <2>1 DEF read, Types, Writing, Waiting
<1>3. CASE count
  <2>1. Writing /\ wpc = "count" /\ sent = received /\ (n > 0 => buf = n)
    BY <1>3 DEF count, Setup, WriterMay, Writing, ReaderMay, Reading, Cleaning, Given
  <2>2. Types'
    BY <1>3, <2>1 DEF count, Types, Block
  <2>3. Writing'
    BY <1>3, <2>1 DEF count, Types, Writing, Full, Ended, Waiting
  <2> QED
    BY <2>2, <2>3
<1>4. CASE releaseRead
  <2>1. Writing /\ wpc = "release" /\ (Full \/ Ended)
    BY <1>4 DEF releaseRead, Setup, WriterMay, Writing, ReaderMay, Reading, Cleaning, Given
  <2> QED
    BY <1>4, <2>1 DEF releaseRead, Types, Writing, ReaderMay, Given, Full, Ended, Waiting
<1>5. CASE testEOF
  <2>1. WriterMay \/ ReaderMay \/ Reading
    BY <1>5 DEF testEOF, Setup, Writing, Cleaning
  <2>2. Types'
    BY <1>5 DEF testEOF, Types
  <2>3. CASE WriterMay
    BY <1>5, <2>2, <2>3 DEF testEOF, Types, WriterMay, Waiting
  <2>4. CASE ReaderMay
    BY <1>5, <2>2, <2>4 DEF testEOF, Types, ReaderMay, Waiting, Given, Full, Ended
  <2>5. CASE Reading
    BY <1>5, <2>2, <2>5 DEF testEOF, Types, Reading, Given, Full, Ended
  <2> QED
    BY <2>1, <2>3, <2>4, <2>5
<1> QED
  BY <1>1, <1>2, <1>3, <1>4, <1>5

(* The turn that comes back after the end of the input is the last one:    *)
(* the reader has finished.                                                *)
LEMMA CleaningKeeps ==
    ASSUME IInv, reserveLast \/ removeSems \/ removeShm
    PROVE  IInv'
<1> USE DEF IInv, Values, ipc, semaphores, segment, reader, GoW
<1>1. CASE reserveLast
  <2>1. WriterMay /\ wpc = "last" /\ rpc = "done"
    BY <1>1 DEF reserveLast, Setup, WriterMay, Writing, ReaderMay, Reading, Cleaning, Given
  <2> QED
    BY <1>1, <2>1 DEF reserveLast, Types, WriterMay, Cleaning
<1>2. CASE removeSems \/ removeShm
  <2>1. Cleaning
    BY <1>2 DEF removeSems, removeShm, Setup, WriterMay, Writing, ReaderMay, Reading, Given
  <2> QED
    BY <1>2, <2>1 DEF removeSems, removeShm, Types, Cleaning
<1> QED
  BY <1>1, <1>2

(* A reader that comes too early starts again, and one that has the turn   *)
(* writes the block and gives the turn back.                               *)
LEMMA ReaderKeeps ==
    ASSUME IInv, Reader
    PROVE  IInv'
<1> USE DEF IInv, Values, ipc, semaphores, segment, writer, GoR
<1>1. CASE readerSemget \/ readerShmget
  <2>1. Setup \/ WriterMay \/ Writing \/ ReaderMay
    BY <1>1 DEF readerSemget, readerShmget, Reading, Cleaning
  <2> QED
    BY <1>1, <2>1 DEF readerSemget, readerShmget, Types, Setup, WriterMay, Writing,
                      ReaderMay, Given, Full, Ended, Waiting
<1>2. CASE reserveRead
  <2>1. ReaderMay
    BY <1>2 DEF reserveRead, Setup, WriterMay, Writing, Reading, Cleaning
  <2> QED
    BY <1>2, <2>1 DEF reserveRead, Types, ReaderMay, Reading, Given, Full, Ended
<1>3. CASE readerTestEOF
  <2>1. Reading /\ Given
    BY <1>3 DEF readerTestEOF, Setup, WriterMay, Writing, ReaderMay, Reading, Cleaning, Waiting
  <2> QED
    BY <1>3, <2>1 DEF readerTestEOF, Types, Reading, Given, Full, Ended
<1>4. CASE write
  <2>1. Reading /\ Given /\ cnt > 0
    BY <1>4 DEF write, Setup, WriterMay, Writing, ReaderMay, Reading, Cleaning, Waiting
  <2>2. Full /\ wpc \in {"test", "reserve"}
    BY <2>1 DEF Given, Ended
  <2>3. CASE rpc' = "release" /\ received' = Append(received, <<buf, cnt>>)
    <3>1. received' = sent /\ sent' = sent
      BY <1>4, <2>2, <2>3 DEF write, Full
    <3> QED
      BY <1>4, <2>1, <2>2, <2>3, <3>1 DEF write, Types, Reading, Full
  <2>4. CASE rpc' = "failed" /\ UNCHANGED received
    BY <1>4, <2>1, <2>2, <2>4 DEF write, Types, Reading, Given, Full
  <2> QED
    BY <1>4, <2>3, <2>4 DEF write
<1>5. CASE releaseWrite
  <2>1. Reading /\ rpc = "release"
    BY <1>5 DEF releaseWrite, Setup, WriterMay, Writing, ReaderMay, Cleaning, Waiting
  <2> QED
    BY <1>5, <2>1 DEF releaseWrite, Types, Reading, WriterMay, Waiting
<1>6. CASE releaseLast
  <2>1. Reading /\ rpc = "last"
    BY <1>6 DEF releaseLast, Setup, WriterMay, Writing, ReaderMay, Cleaning, Waiting
  <2> QED
    BY <1>6, <2>1 DEF releaseLast, Types, Reading, WriterMay, Ended
<1>7. CASE readerFails
  BY <1>7 DEF readerFails, Setup, WriterMay, Writing, ReaderMay, Reading, Cleaning
<1> QED
  BY <1>1, <1>2, <1>3, <1>4, <1>5, <1>6, <1>7 DEF Reader

(* The turn is in one place, in every state.                               *)
THEOREM InductiveInvariant == Spec => []IInv
<1>1. Init => IInv
  <2> SUFFICES ASSUME Init PROVE IInv
    OBVIOUS
  <2>1. sent \in Seq(Block) /\ received \in Seq(Block)
    BY DEF Init
  <2>2. Types
    <3>1. BUF_SIZE \in Nat
      BY TransferAssumption
    <3>2. cnt \in -1 .. BUF_SIZE /\ buf \in 0 .. BUF_SIZE /\ n \in -1 .. BUF_SIZE
      BY <3>1 DEF Init
    <3>3. wbytes \in Int /\ rbytes \in Int /\ kills = 0
      BY DEF Init
    <3> QED
      BY <2>1, <3>2, <3>3 DEF Types
  <2>3. Setup
    BY DEF Init, Setup, Values
  <2> QED
    BY <2>2, <2>3 DEF IInv
<1>2. IInv /\ [Next]_vars => IInv'
  <2> SUFFICES ASSUME IInv, [Next]_vars PROVE IInv'
    OBVIOUS
  <2>1. CASE Writer
    BY <2>1, SetupKeeps, WriterTurn, CleaningKeeps DEF Writer
  <2>2. CASE Reader
    BY <2>2, ReaderKeeps
  <2>3. CASE UNCHANGED vars
    BY <2>3 DEF vars, ipc, semaphores, segment, writer, reader, IInv, Types, Setup,
       WriterMay, Writing, ReaderMay, Reading, Cleaning, Given, Full, Ended, Values
  <2> QED
    BY <2>1, <2>2, <2>3 DEF Next, ended
<1> QED
  BY <1>1, <1>2, PTL DEF Spec

(* The writer does not touch the segment while the reader looks at it      *)
(* (2_transfer:28, 3_transfer:21).                                         *)
THEOREM TurnsExclude == Spec => []SegmentExclusive
<1>1. IInv => SegmentExclusive
  BY DEF IInv, SegmentExclusive, Setup, WriterMay, Writing, ReaderMay, Reading,
         Cleaning, Given, Waiting
<1> QED
  BY <1>1, InductiveInvariant, PTL

(* The objects are deleted after the reader has finished, as the comment   *)
(* in lines 38 and 39 of the writer has it: true of a writer that is not   *)
(* killed.                                                                 *)
THEOREM DeletedLast == Spec => []ReaderFinished
<1>1. IInv => ReaderFinished
  BY DEF IInv, ReaderFinished, Setup, WriterMay, Writing, ReaderMay, Reading,
         Cleaning, Given
<1> QED
  BY <1>1, InductiveInvariant, PTL

-----------------------------------------------------------------------------
(* The two programs as the abstract transfer.                              *)
phase == IF rpc \in {"last", "done"} THEN "ended" ELSE IF EOF THEN "eof" ELSE "open"

(* What the writer does while it has the turn: a block put in is Send, the *)
(* end of the input Close, and all else a stutter.                         *)
LEMMA WriterRefines ==
    ASSUME IInv, Writer
    PROVE  Transfer!Next \/ UNCHANGED <<sent, received, phase>>
<1> USE DEF IInv, Values, reader, GoW, phase, EOF
<1>1. CASE count
  <2>1. Writing /\ wpc = "count" /\ sent = received /\ (n > 0 => buf = n)
    BY <1>1 DEF count, Setup, WriterMay, Writing, ReaderMay, Reading, Cleaning, Given
  <2>2. phase = "open" /\ rpc' = rpc /\ received' = received /\ cnt' = n
    BY <1>1, <2>1 DEF count, Writing, Waiting
  <2>3. CASE n > 0
    <3>1. <<buf, n>> \in Block /\ sent' = Append(sent, <<buf, n>>)
      BY <1>1, <2>1, <2>3 DEF count, Types, Block
    <3>2. phase' = "open" /\ UNCHANGED phase
      BY <1>1, <2>1, <2>2, <2>3 DEF count, Writing, Types, Waiting
    <3>3. Transfer!Send(<<buf, n>>)
      BY <2>1, <2>2, <3>1, <3>2 DEF Transfer!Send
    <3> QED
      BY <3>1, <3>3 DEF Transfer!Next, Block
  <2>4. CASE n = 0
    <3>1. phase' = "eof" /\ sent' = sent
      BY <1>1, <2>1, <2>2, <2>4 DEF count, Writing, Waiting
    <3> QED
      BY <2>2, <3>1 DEF Transfer!Next, Transfer!Close
  <2>5. CASE n = -1
    BY <1>1, <2>1, <2>2, <2>5 DEF count, Writing, Waiting
  <2> QED
    BY <2>3, <2>4, <2>5 DEF Types
<1>2. CASE ~count
  <2>1. UNCHANGED <<sent, received, rpc>>
    BY <1>2 DEF Writer, semget, initSemAvailable, initSemInUse, shmget, reserveWrite,
       read, releaseRead, testEOF, reserveLast, removeSems, removeShm
  <2>2. UNCHANGED phase
    BY <1>2, <2>1 DEF Writer, semget, initSemAvailable, initSemInUse, shmget, reserveWrite,
       read, releaseRead, testEOF, reserveLast, removeSems, removeShm, segment
  <2> QED
    BY <2>1, <2>2
<1> QED
  BY <1>1, <1>2

(* A block the reader has written out is Deliver, and the test that finds  *)
(* the end of the input End.                                               *)
LEMMA ReaderRefines ==
    ASSUME IInv, Reader
    PROVE  Transfer!Next \/ UNCHANGED <<sent, received, phase>>
<1> USE DEF IInv, Values, writer, segment, GoR, phase, EOF
<1>1. CASE readerTestEOF
  <2>1. Reading /\ Given
    BY <1>1 DEF readerTestEOF, Setup, WriterMay, Writing, ReaderMay, Reading, Cleaning, Waiting
  <2>2. CASE cnt = 0
    <3>1. phase = "eof" /\ phase' = "ended" /\ received = sent /\ UNCHANGED <<sent, received>>
      BY <1>1, <2>1, <2>2 DEF readerTestEOF, Given, Full, Ended
    <3> QED
      BY <3>1 DEF Transfer!Next, Transfer!End
  <2>3. CASE cnt # 0
    BY <1>1, <2>1, <2>3 DEF readerTestEOF
  <2> QED
    BY <2>2, <2>3
<1>2. CASE write /\ received' = Append(received, <<buf, cnt>>)
  <2>1. Reading /\ Given /\ cnt > 0
    BY <1>2 DEF write, Setup, WriterMay, Writing, ReaderMay, Reading, Cleaning, Waiting
  <2>2. Full
    BY <2>1 DEF Given, Ended
  <2>3. sent[Len(received) + 1] = <<buf, cnt>> /\ received # sent
    BY <2>2 DEF Full, Types
  <2>4. UNCHANGED <<sent, phase>>
    BY <1>2 DEF write
  <2> QED
    BY <1>2, <2>3, <2>4 DEF Transfer!Next, Transfer!Deliver
<1>3. CASE write /\ UNCHANGED received
  BY <1>3 DEF write
<1>4. CASE releaseLast
  BY <1>4 DEF releaseLast
<1>5. CASE readerFails
  BY <1>5 DEF readerFails, Setup, WriterMay, Writing, ReaderMay, Reading, Cleaning
<1>6. CASE readerSemget \/ readerShmget \/ reserveRead \/ releaseWrite
  BY <1>6 DEF readerSemget, readerShmget, reserveRead, releaseWrite
<1> QED
  BY <1>1, <1>2, <1>3, <1>4, <1>5, <1>6 DEF Reader, write

(* The blocks come out of the reader once each and in order, and the end   *)
(* of the input is seen after all of them.                                 *)
THEOREM Refinement == Spec => ImplementsTransfer
<1>1. Init => Transfer!Init
  BY DEF Init, Transfer!Init, EOF
<1>2. IInv /\ [Next]_vars => [Transfer!Next]_<<sent, received, phase>>
  <2> SUFFICES ASSUME IInv, [Next]_vars
               PROVE  Transfer!Next \/ UNCHANGED <<sent, received, phase>>
    OBVIOUS
  <2>1. CASE UNCHANGED vars
    BY <2>1 DEF vars, ipc, semaphores, segment, writer, reader, phase, EOF
  <2> QED
    BY <2>1, WriterRefines, ReaderRefines DEF Next, ended
<1>3. Spec => [][Transfer!Next]_<<sent, received, phase>>
  BY <1>2, InductiveInvariant, PTL DEF Spec
<1>4. <<sent, received, phase>> = Transfer!vars
  BY DEF Transfer!vars, phase
<1> QED
  BY <1>1, <1>3, <1>4, PTL DEF Spec, ImplementsTransfer, Transfer!Spec, Transfer!vars, phase

-----------------------------------------------------------------------------
(* The bytes each end has counted, with the block it has still to count.   *)
(* The writer counts a block after it has given the turn away, the reader  *)
(* when it tests for the end of the input.                                 *)
BytesCounted ==
    wbytes + (IF wpc = "test" THEN cnt ELSE 0)
        = rbytes + (IF READ_SEM = 1 \/ rpc = "test" THEN cnt ELSE 0)

LEMMA CountsKeep ==
    ASSUME IInv, BytesCounted, [Next]_vars
    PROVE  BytesCounted'
<1> USE DEF Values, GoW, GoR, ipc, semaphores, segment, writer, reader
<1>1. /\ wbytes \in Int /\ rbytes \in Int /\ cnt \in Int
  BY TransferAssumption DEF IInv, Types
<1>2. CASE testEOF
  BY <1>1, <1>2 DEF testEOF, BytesCounted
<1>3. CASE readerTestEOF
  <2>1. READ_SEM = 0
    BY <1>3 DEF readerTestEOF, IInv, Setup, WriterMay, Writing, ReaderMay, Reading, Cleaning,
                Waiting
  <2> QED
    BY <1>1, <1>3, <2>1 DEF readerTestEOF, BytesCounted
<1>4. CASE count \/ releaseRead
  <2>1. READ_SEM = 0 /\ rpc # "test"
    BY <1>4 DEF count, releaseRead, IInv, Setup, WriterMay, Writing, ReaderMay, Reading,
                Cleaning, Given, Waiting
  <2> QED
    BY <1>1, <1>4, <2>1 DEF count, releaseRead, BytesCounted
<1>5. CASE initSemInUse
  <2>1. READ_SEM = 0
    BY <1>5 DEF initSemInUse, IInv, Setup, WriterMay, Writing, ReaderMay, Reading, Cleaning,
                Given
  <2> QED
    BY <1>5, <2>1 DEF initSemInUse, BytesCounted
<1>6. CASE reserveRead
  <2>1. READ_SEM = 1
    BY <1>6 DEF reserveRead, IInv, Setup, WriterMay, Writing, ReaderMay, Reading, Cleaning
  <2> QED
    BY <1>6, <2>1 DEF reserveRead, BytesCounted
<1>7. CASE \/ semget \/ initSemAvailable \/ shmget \/ reserveWrite \/ read
           \/ reserveLast \/ removeSems \/ removeShm
  BY <1>7 DEF semget, initSemAvailable, shmget, reserveWrite, read, reserveLast,
              removeSems, removeShm, BytesCounted
<1>8. CASE \/ readerSemget \/ readerShmget \/ write \/ releaseWrite \/ releaseLast
           \/ readerFails
  BY <1>8 DEF readerSemget, readerShmget, write, releaseWrite, releaseLast,
              readerFails, BytesCounted
<1>9. CASE UNCHANGED vars
  BY <1>9 DEF vars, BytesCounted
<1> QED
  BY <1>2, <1>3, <1>4, <1>5, <1>6, <1>7, <1>8, <1>9 DEF Next, Writer, Reader, ended

(* Both ends name the same number of bytes (48/2:35, 48/3:31).             *)
THEOREM SameBytes == Spec => []BytesAgree
<1>1. Init => BytesCounted
  BY DEF Init, BytesCounted
<1>2. IInv /\ BytesCounted => BytesAgree
  BY DEF IInv, Types, BytesCounted, BytesAgree, Setup, WriterMay, Writing, ReaderMay,
         Reading, Cleaning, Given, Waiting, Values
<1> QED
  BY <1>1, <1>2, CountsKeep, InductiveInvariant, PTL DEF Spec

-----------------------------------------------------------------------------
(* Joining any thread, when every thread reads its index before main goes  *)
(* on: it is then its own index, and only main's next step waits for it.   *)
JoinInv ==
    /\ \A t \in Joining!Threads :
          /\ tpc[t] = "work" => my[t] = t
          /\ tpc[t] = "start" => mpc = "next" /\ idx = t
    /\ Joining!StateIsTrue
    /\ state \in [Joining!Threads -> {"TS_ALIVE", "TS_TERMINATED", "TS_JOINED"}]
    /\ tpc \in [Joining!Threads -> {"none", "start", "work", "signal", "ended", "joined"}]
    /\ my \in [Joining!Threads -> Int] /\ idx \in Int

LEMMA JoinKeeps ==
    ASSUME totThreads \in Nat, ReadsInTime, JoinInv, Joining!Next
    PROVE  JoinInv'
<1> USE DEF JoinInv, Joining!StateIsTrue, Joining!MainAt, Joining!ThreadAt
<1>0. \A t \in Joining!Threads : t \in Int
  BY DEF Joining!Threads
<1>1. CASE Joining!create
  BY <1>1 DEF Joining!create
<1>2. CASE Joining!nextIndex
  BY <1>2 DEF Joining!nextIndex
<1>3. CASE Joining!lock \/ Joining!wakeUp \/ Joining!unlock \/ Joining!spuriousWakeup
  BY <1>3 DEF Joining!lock, Joining!wakeUp, Joining!unlock, Joining!spuriousWakeup
<1>4. CASE Joining!testUnjoined
  BY <1>4 DEF Joining!testUnjoined
<1>5. CASE Joining!scan
  BY <1>0, <1>5 DEF Joining!scan
<1>6. ASSUME NEW t \in Joining!Threads, Joining!readIndex(t) PROVE JoinInv'
  BY <1>6 DEF Joining!readIndex
<1>7. ASSUME NEW t \in Joining!Threads, Joining!terminate(t) PROVE JoinInv'
  BY <1>7 DEF Joining!terminate
<1>8. ASSUME NEW t \in Joining!Threads, Joining!signal(t) PROVE JoinInv'
  BY <1>8 DEF Joining!signal
<1>9. CASE Joining!ended
  BY <1>9 DEF Joining!ended, Joining!vars
<1> QED
  BY <1>1, <1>2, <1>3, <1>4, <1>5, <1>6, <1>7, <1>8, <1>9
     DEF Joining!Next, Joining!Main, Joining!Thread

(* Reaping in a handler: NoLostDeath is inductive.                         *)
ReapInv == Reaping!NoLostDeath /\ child \in [Children -> {"none", "running", "zombie", "gone"}]

LEMMA ReapKeeps == ReapInv /\ Reaping!Next => ReapInv'
<1> USE DEF ReapInv, Reaping!NoLostDeath
<1> SUFFICES ASSUME ReapInv, Reaping!Next PROVE ReapInv'
  OBVIOUS
<1>1. CASE Reaping!fork
  BY <1>1 DEF Reaping!fork
<1>2. ASSUME NEW c \in Children, Reaping!childExits(c) PROVE ReapInv'
  BY <1>2 DEF Reaping!childExits
<1>3. CASE Reaping!testLive \/ Reaping!sigsuspend
  BY <1>3 DEF Reaping!testLive, Reaping!sigsuspend
<1>4. ASSUME NEW c \in Children, Reaping!reap(c) PROVE ReapInv'
  BY <1>4 DEF Reaping!reap
<1>5. CASE Reaping!returnFromHandler
  BY <1>5 DEF Reaping!returnFromHandler
<1>6. CASE Reaping!ended
  BY <1>6 DEF Reaping!ended, Reaping!vars
<1> QED
  BY <1>1, <1>2, <1>3, <1>4, <1>5, <1>6 DEF Reaping!Next, Reaping!Parent

-----------------------------------------------------------------------------
(* The file server.  What a client has taken and what is in its queue is   *)
(* together what its child has sent so far, as long as the client has not  *)
(* gone away; a child is started once, for a request that is in the queue  *)
(* of the server once.                                                     *)
Messages == {"failure", "data", "end"}
Data(k) == [j \in 1 .. k |-> "data"]
Whole(k) == IF k = -1 THEN <<"failure">> ELSE Append(Data(k), "end")

(* The sequence of messages that child c has sent.                         *)
SentSoFar(c, s) ==
    /\ fileChild[c] \in {"none", "open", "fail"} => s = <<>>
    /\ fileChild[c] = "read" => s = Data(file[c] - left[c])
    /\ fileChild[c] = "send" => s = Data(file[c] - left[c] - 1)
    /\ fileChild[c] = "end" => s = Data(file[c])
    /\ fileChild[c] \in {"zombie", "reaped"} => s = Whole(file[c])

LeftToRead(c) ==
    /\ fileChild[c] \in {"none", "open"} => left[c] = file[c]
    /\ fileChild[c] = "fail" => file[c] = -1
    /\ fileChild[c] = "read" => left[c] \in Nat /\ left[c] <= file[c]
    /\ fileChild[c] = "send" => left[c] \in Nat /\ left[c] < file[c]
    /\ fileChild[c] = "end" => file[c] \in Nat

OnTheWay(c) ==
    /\ asker[c] = "start" => fileChild[c] = "none"
    /\ asker[c] \in {"start", "asked"} =>
          exists[c] = TRUE /\ LeftToRead(c) /\ SentSoFar(c, got[c] \o askerQueue[c])
    /\ asker[c] = "done" =>
          got[c] = Whole(file[c]) /\ fileChild[c] \in {"zombie", "reaped"}

RequestsOnce ==
    /\ \A j, k \in DOMAIN requests : requests[j] = requests[k] => j = k
    /\ \A k \in DOMAIN requests :
          fileChild[requests[k]] = "none" /\ asker[requests[k]] # "start"

FilesType ==
    /\ requests \in Seq(Askers)
    /\ fileChild \in [Askers -> {"none", "open", "fail", "read", "send", "end", "zombie",
                                 "reaped"}]
    /\ asker \in [Askers -> {"start", "asked", "done", "gone"}]
    /\ left \in [Askers -> Int] /\ file \in [Askers -> Nat \cup {-1}]
    /\ exists \in [Askers -> BOOLEAN]
    /\ askerQueue \in [Askers -> Seq(Messages)] /\ got \in [Askers -> Seq(Messages)]

FilesInv ==
    /\ FilesType /\ RequestsOnce /\ Files!NoLostChild
    /\ \A c \in Askers : OnTheWay(c)

(* One more message, taken or sent.                                        *)
LEMMA DataMore ==
    ASSUME NEW k \in Nat
    PROVE  Data(k) \in Seq(Messages) /\ Append(Data(k), "data") = Data(k + 1)
<1>1. Data(k) \in Seq(Messages) /\ Len(Data(k)) = k
  BY DEF Data, Messages
<1>2. Data(k + 1) \in Seq(Messages) /\ Len(Data(k + 1)) = k + 1
  BY DEF Data, Messages
<1>3. "data" \in Messages
  BY DEF Messages
<1>4. \A j \in 1 .. k + 1 : Append(Data(k), "data")[j] = Data(k + 1)[j]
  BY <1>1 DEF Data
<1> QED
  BY <1>1, <1>2, <1>3, <1>4

LEMMA Moved ==
    ASSUME NEW s \in Seq(Messages), NEW t \in Seq(Messages), t # <<>>
    PROVE  Append(s, Head(t)) \o Tail(t) = s \o t
OBVIOUS

LEMMA Pushed ==
    ASSUME NEW s \in Seq(Messages), NEW t \in Seq(Messages), NEW m \in Messages
    PROVE  s \o Append(t, m) = Append(s \o t, m)
OBVIOUS

(* A last message ends what is sent: nothing follows it.                   *)
LEMMA LastIsLast ==
    ASSUME NEW s \in Seq(Messages), NEW t \in Seq(Messages), t # <<>>,
           NEW k \in Nat \cup {-1}, s \o t = Whole(k), Head(t) # "data"
    PROVE  Append(s, Head(t)) = Whole(k)
<1>1. /\ Len(s \o t) = Len(s) + Len(t)
      /\ Len(s) \in Nat /\ Len(t) \in Nat \ {0}
      /\ (s \o t)[Len(s) + 1] = Head(t)
  OBVIOUS
<1>2. Len(Whole(k)) = Len(s) + 1
  <2>1. CASE k = -1
    <3>1. Len(Whole(k)) = 1
      BY <2>1 DEF Whole
    <3> QED
      BY <1>1, <3>1
  <2>2. CASE k \in Nat
    <3>1. Data(k) \in Seq(Messages)
      BY <2>2, DataMore
    <3>2. Len(Data(k)) = k /\ \A j \in 1 .. k : Data(k)[j] = "data"
      BY <2>2 DEF Data
    <3>3. k # -1
      BY <2>2
    <3>4. Whole(k) = Append(Data(k), "end")
      BY <3>3 DEF Whole
    <3>5. Len(Whole(k)) = k + 1 /\ \A j \in 1 .. k : Whole(k)[j] = "data"
      BY <3>1, <3>2, <3>4
    <3>6. ~(Len(s) + 1 \in 1 .. k)
      BY <1>1, <3>5
    <3> QED
      BY <1>1, <2>2, <3>5, <3>6
  <2> QED
    BY <2>1, <2>2
<1>3. Len(s \o t) = Len(Whole(k))
  OBVIOUS
<1>4. Len(t) = 1
  <2>1. Len(s) + Len(t) = Len(s) + 1
    BY <1>1, <1>2, <1>3, Zenon
  <2>2. \A a, b \in Nat : a + b = a + 1 => b = 1
    OBVIOUS
  <2> QED
    BY <1>1, <2>1, <2>2
<1>5. /\ Append(s, Head(t)) \in Seq(Messages) /\ s \o t \in Seq(Messages)
      /\ Len(Append(s, Head(t))) = Len(s \o t)
  BY <1>1, <1>4
<1>6. \A j \in 1 .. Len(s) + 1 : Append(s, Head(t))[j] = (s \o t)[j]
  BY <1>1, <1>4
<1> QED
  BY <1>1, <1>4, <1>5, <1>6

LEMMA WholeAnswer == \A c : Files!Answer(c) = Whole(file[c])
BY DEF Files!Answer, Whole, Data, Files!NoFile, Files!RESP_MT_FAILURE, Files!RESP_MT_DATA,
       Files!RESP_MT_END

-----------------------------------------------------------------------------
(* A step for client c leaves the others as they are.                      *)
LEMMA OneClient ==
    ASSUME FilesInv, NEW c \in Askers,
           \A d \in Askers \ {c} :
              /\ fileChild'[d] = fileChild[d] /\ asker'[d] = asker[d] /\ left'[d] = left[d]
              /\ exists'[d] = exists[d] /\ got'[d] = got[d]
              /\ askerQueue'[d] = askerQueue[d],
           file' = file, OnTheWay(c)'
    PROVE  \A d \in Askers : OnTheWay(d)'
<1> SUFFICES ASSUME NEW d \in Askers, d # c PROVE OnTheWay(d)'
  OBVIOUS
<1>1. OnTheWay(d)
  BY DEF FilesInv
<1> QED
  BY <1>1 DEF OnTheWay, LeftToRead, SentSoFar

(* The queue of the server is the same, and no child is started.           *)
LEMMA RequestsStay ==
    ASSUME FilesInv, UNCHANGED requests,
           \A c \in Askers : /\ fileChild[c] = "none" => fileChild'[c] = "none"
                             /\ asker[c] # "start" => asker'[c] # "start"
    PROVE  RequestsOnce'
<1>1. \A k \in DOMAIN requests : requests[k] \in Askers
  BY DEF FilesInv, FilesType
<1> QED
  BY <1>1 DEF FilesInv, RequestsOnce

(* A child that sends m.                                                   *)
LEMMA SentOnTheWay ==
    ASSUME FilesInv, NEW c \in Askers, NEW m \in Messages, Files!sent(c, m)
    PROVE  /\ askerQueue' \in [Askers -> Seq(Messages)]
           /\ \A d \in Askers \ {c} : askerQueue'[d] = askerQueue[d]
           /\ exists[c] => got[c] \o askerQueue'[c] = Append(got[c] \o askerQueue[c], m)
<1>1. askerQueue[c] \in Seq(Messages) /\ got[c] \in Seq(Messages)
  BY DEF FilesInv, FilesType
<1>2. got[c] \o Append(askerQueue[c], m) = Append(got[c] \o askerQueue[c], m)
  BY <1>1, Pushed
<1>3. Append(askerQueue[c], m) \in Seq(Messages)
  BY <1>1
<1>4. askerQueue \in [Askers -> Seq(Messages)]
  BY DEF FilesInv, FilesType
<1>5. CASE exists[c]
  <2>1. askerQueue' = [askerQueue EXCEPT ![c] = Append(@, m)]
    BY <1>5 DEF Files!sent
  <2> QED
    BY <1>2, <1>3, <1>4, <2>1
<1>6. CASE ~exists[c]
  BY <1>4, <1>6 DEF Files!sent
<1> QED
  BY <1>5, <1>6

LEMMA ChildKeeps ==
    ASSUME FilesInv, NEW c \in Askers, Files!Child(c)
    PROVE  FilesInv'
<1>1. /\ FilesType /\ OnTheWay(c) /\ Files!NoLostChild
      /\ UNCHANGED <<asker, exists, file, got, requests, fileServer, inHandler>>
      /\ left[c] \in Int /\ file[c] \in Nat \cup {-1}
  BY DEF FilesInv, FilesType, Files!Child, Files!openFile, Files!sendFailure, Files!read,
         Files!sendData, Files!sendEnd, Files!serverVars
<1>2. fileChild[c] \in {"open", "fail", "read", "send", "end"}
  BY DEF Files!Child, Files!openFile, Files!sendFailure, Files!read,
         Files!sendData, Files!sendEnd, Files!moves
<1>3. /\ asker[c] \in {"asked", "gone"}
      /\ asker[c] = "asked" =>
            exists[c] = TRUE /\ LeftToRead(c) /\ SentSoFar(c, got[c] \o askerQueue[c])
  BY <1>1, <1>2 DEF FilesType, OnTheWay
<1>4. /\ fileChild' \in [Askers -> {"none", "open", "fail", "read", "send", "end", "zombie",
                                    "reaped"}]
      /\ left' \in [Askers -> Int]
      /\ \A d \in Askers \ {c} : fileChild'[d] = fileChild[d] /\ left'[d] = left[d]
      /\ fileChild'[c] \in {"fail", "read", "send", "end", "zombie"}
      /\ fileChild'[c] = "zombie" => sigchld'
      /\ fileChild'[c] # "zombie" => UNCHANGED sigchld
  <2> USE <1>1 DEF FilesType, Files!serverVars, Files!moves, Files!ends
  <2>1. CASE Files!openFile(c)
    BY <2>1 DEF Files!openFile
  <2>2. CASE Files!sendFailure(c) \/ Files!sendEnd(c)
    BY <2>2 DEF Files!sendFailure, Files!sendEnd
  <2>3. CASE Files!read(c)
    BY <2>3 DEF Files!read
  <2>4. CASE Files!sendData(c)
    BY <2>4 DEF Files!sendData
  <2> QED
    BY <2>1, <2>2, <2>3, <2>4 DEF Files!Child
<1>5. /\ askerQueue' \in [Askers -> Seq(Messages)]
      /\ \A d \in Askers \ {c} : askerQueue'[d] = askerQueue[d]
  <2>1. CASE Files!openFile(c) \/ Files!read(c)
    BY <1>1, <2>1 DEF FilesType, Files!openFile, Files!read
  <2>2. "failure" \in Messages /\ "data" \in Messages /\ "end" \in Messages
    BY DEF Messages
  <2>3. CASE \E m \in Messages : Files!sent(c, m)
    BY <2>3, SentOnTheWay
  <2> QED
    BY <2>1, <2>2, <2>3 DEF Files!Child, Files!sendFailure, Files!sendData, Files!sendEnd,
       Files!RESP_MT_FAILURE, Files!RESP_MT_DATA, Files!RESP_MT_END
<1>6. FilesType'
  BY <1>1, <1>4, <1>5 DEF FilesType
<1>7. Files!NoLostChild'
  BY <1>1, <1>4 DEF Files!NoLostChild
<1>8. RequestsOnce'
  <2>1. \A d \in Askers : fileChild[d] = "none" => fileChild'[d] = "none"
    BY <1>2, <1>4
  <2> QED
    BY <1>1, <2>1, RequestsStay
<1>9. OnTheWay(c)'
  <2>1. CASE asker[c] = "gone"
    BY <1>1, <2>1 DEF OnTheWay
  <2>2. CASE asker[c] = "asked"
    <3> DEFINE s == got[c] \o askerQueue[c]
    <3>1. exists[c] = TRUE /\ LeftToRead(c) /\ SentSoFar(c, s)
      BY <1>3, <2>2
    <3>2. SUFFICES LeftToRead(c)' /\ SentSoFar(c, s)'
      BY <1>1, <2>2, <3>1 DEF OnTheWay
    <3> HIDE DEF s
    <3>3. CASE Files!openFile(c)
      <4>1. /\ fileChild[c] = "open" /\ left' = left /\ askerQueue' = askerQueue
            /\ fileChild'[c] = IF file[c] = -1 THEN "fail" ELSE "read"
        BY <1>1, <3>3 DEF Files!openFile, Files!moves, Files!NoFile, FilesType
      <4>2. s' = <<>> /\ left[c] = file[c]
        BY <1>1, <3>1, <4>1 DEF s, SentSoFar, LeftToRead
      <4>3. Data(0) = <<>>
        BY DEF Data
      <4> QED
        BY <1>1, <4>1, <4>2, <4>3 DEF SentSoFar, LeftToRead
    <3>4. CASE Files!sendFailure(c)
      <4>1. fileChild[c] = "fail" /\ fileChild'[c] = "zombie" /\ Files!sent(c, "failure")
        BY <1>1, <3>4 DEF Files!sendFailure, Files!ends, FilesType, Files!RESP_MT_FAILURE
      <4>2. s' = Append(s, "failure")
        BY <1>1, <3>1, <4>1, SentOnTheWay DEF s, Messages
      <4>3. s = <<>> /\ file[c] = -1
        BY <3>1, <4>1 DEF SentSoFar, LeftToRead
      <4>4. s' = Whole(file[c])
        BY <4>2, <4>3 DEF Whole
      <4> QED
        BY <1>1, <4>1, <4>4 DEF SentSoFar, LeftToRead
    <3>5. CASE Files!read(c)
      <4>1. /\ fileChild[c] = "read" /\ s' = s
            /\ left'[c] = IF left[c] > 0 THEN left[c] - 1 ELSE left[c]
            /\ fileChild'[c] = IF left[c] > 0 THEN "send" ELSE "end"
        BY <1>1, <3>5 DEF Files!read, Files!moves, FilesType, s
      <4>2. s = Data(file[c] - left[c]) /\ left[c] \in Nat /\ left[c] <= file[c]
        BY <3>1, <4>1 DEF SentSoFar, LeftToRead
      <4>3. CASE left[c] > 0
        <5>1. file[c] - left'[c] - 1 = file[c] - left[c]
          BY <1>1, <4>1, <4>3
        <5> QED
          BY <1>1, <4>1, <4>2, <4>3, <5>1 DEF SentSoFar, LeftToRead
      <4>4. CASE left[c] = 0
        <5>1. file[c] - left[c] = file[c] /\ file[c] \in Nat
          BY <1>1, <4>2, <4>4
        <5> QED
          BY <1>1, <4>1, <4>2, <4>4, <5>1 DEF SentSoFar, LeftToRead
      <4> QED
        BY <4>2, <4>3, <4>4
    <3>6. CASE Files!sendData(c)
      <4>1. /\ fileChild[c] = "send" /\ fileChild'[c] = "read" /\ Files!sent(c, "data")
            /\ left' = left
        BY <1>1, <3>1, <3>6 DEF Files!sendData, Files!moves, FilesType, Files!RESP_MT_DATA
      <4>2. s' = Append(s, "data")
        BY <1>1, <3>1, <4>1, SentOnTheWay DEF s, Messages
      <4>3. s = Data(file[c] - left[c] - 1) /\ left[c] \in Nat /\ left[c] < file[c]
        BY <3>1, <4>1 DEF SentSoFar, LeftToRead
      <4>4. file[c] - left[c] - 1 \in Nat /\ file[c] - left[c] - 1 + 1 = file[c] - left[c]
        BY <1>1, <4>3
      <4>5. s' = Data(file[c] - left[c])
        BY <4>2, <4>3, <4>4, DataMore
      <4> QED
        BY <1>1, <4>1, <4>3, <4>5 DEF SentSoFar, LeftToRead
    <3>7. CASE Files!sendEnd(c)
      <4>1. fileChild[c] = "end" /\ fileChild'[c] = "zombie" /\ Files!sent(c, "end")
        BY <1>1, <3>7 DEF Files!sendEnd, Files!ends, FilesType, Files!RESP_MT_END
      <4>2. s' = Append(s, "end")
        BY <1>1, <3>1, <4>1, SentOnTheWay DEF s, Messages
      <4>3. s = Data(file[c]) /\ file[c] \in Nat
        BY <3>1, <4>1 DEF SentSoFar, LeftToRead
      <4>4. s' = Whole(file[c])
        BY <4>2, <4>3 DEF Whole
      <4> QED
        BY <1>1, <4>1, <4>4 DEF SentSoFar, LeftToRead
    <3> QED
      BY <3>3, <3>4, <3>5, <3>6, <3>7 DEF Files!Child
  <2> QED
    BY <1>3, <2>1, <2>2
<1>10. \A d \in Askers : OnTheWay(d)'
  BY <1>1, <1>4, <1>5, <1>9, OneClient
<1> QED
  BY <1>6, <1>7, <1>8, <1>10 DEF FilesInv

LEMMA AskKeeps ==
    ASSUME FilesInv, NEW c \in Askers, Files!ask(c)
    PROVE  FilesInv'
<1>1. /\ FilesType /\ OnTheWay(c) /\ RequestsOnce /\ Files!NoLostChild
      /\ asker[c] = "start" /\ asker' = [asker EXCEPT ![c] = "asked"]
      /\ requests' = Append(requests, c)
      /\ UNCHANGED <<fileServer, inHandler, sigchld, fileChild, left, askerQueue, exists,
                     file, got>>
  BY DEF FilesInv, Files!ask
<1>2. fileChild[c] = "none" /\ \A k \in DOMAIN requests : requests[k] # c
  BY <1>1 DEF OnTheWay, RequestsOnce
<1>3. FilesType'
  BY <1>1 DEF FilesType
<1>4. RequestsOnce'
  <2>1. /\ requests \in Seq(Askers) /\ DOMAIN requests = 1 .. Len(requests)
        /\ DOMAIN requests' = 1 .. Len(requests) + 1
        /\ requests'[Len(requests) + 1] = c
        /\ \A k \in 1 .. Len(requests) : requests'[k] = requests[k]
    BY <1>1 DEF FilesType
  <2>2. asker \in [Askers -> {"start", "asked", "done", "gone"}]
    BY <1>1 DEF FilesType
  <2>3. asker'[c] = "asked" /\ \A d \in Askers \ {c} : asker'[d] = asker[d]
    BY <1>1, <2>2
  <2>4. \A k \in 1 .. Len(requests) : requests[k] \in Askers
    BY <2>1
  <2>5. \A j, k \in DOMAIN requests' : requests'[j] = requests'[k] => j = k
    <3> SUFFICES ASSUME NEW j \in 1 .. Len(requests) + 1, NEW k \in 1 .. Len(requests) + 1,
                        requests'[j] = requests'[k]
                 PROVE  j = k
      BY <2>1
    <3> QED
      BY <1>1, <1>2, <2>1 DEF RequestsOnce
  <2>6. \A k \in DOMAIN requests' :
            fileChild'[requests'[k]] = "none" /\ asker'[requests'[k]] # "start"
    <3> SUFFICES ASSUME NEW k \in 1 .. Len(requests) + 1
                 PROVE  fileChild[requests'[k]] = "none" /\ asker'[requests'[k]] # "start"
      BY <1>1, <2>1
    <3>1. CASE k = Len(requests) + 1
      BY <1>2, <2>1, <2>3, <3>1
    <3>2. CASE k \in 1 .. Len(requests)
      BY <1>1, <1>2, <2>1, <2>3, <2>4, <3>2 DEF RequestsOnce
    <3> QED
      BY <3>1, <3>2
  <2> QED
    BY <2>5, <2>6 DEF RequestsOnce
<1>5. Files!NoLostChild'
  BY <1>1 DEF Files!NoLostChild
<1>6. OnTheWay(c)'
  BY <1>1 DEF OnTheWay, LeftToRead, SentSoFar, FilesType
<1>7. \A d \in Askers : OnTheWay(d)'
  <2>1. \A d \in Askers \ {c} : asker'[d] = asker[d]
    BY <1>1 DEF FilesType
  <2> QED
    BY <1>1, <1>6, <2>1, OneClient
<1> QED
  BY <1>3, <1>4, <1>5, <1>7 DEF FilesInv

LEMMA ReceiveKeeps ==
    ASSUME FilesInv, NEW c \in Askers, Files!receive(c)
    PROVE  FilesInv'
<1> DEFINE m == Head(askerQueue[c])
<1>1. /\ FilesType /\ OnTheWay(c) /\ RequestsOnce /\ Files!NoLostChild
      /\ asker[c] = "asked" /\ askerQueue[c] # <<>>
      /\ got' = [got EXCEPT ![c] = Append(@, m)]
      /\ askerQueue' = [askerQueue EXCEPT ![c] = Tail(@)]
      /\ asker' = [asker EXCEPT ![c] = IF Files!Last(m) THEN "done" ELSE @]
      /\ exists' = [exists EXCEPT ![c] = ~Files!Last(m)]
      /\ UNCHANGED <<requests, fileServer, inHandler, sigchld, fileChild, left, file>>
  BY DEF FilesInv, Files!receive, Files!serverVars
<1>2. /\ askerQueue[c] \in Seq(Messages) /\ got[c] \in Seq(Messages)
      /\ file[c] \in Nat \cup {-1}
  BY <1>1 DEF FilesType
<1>3. m \in Messages /\ Tail(askerQueue[c]) \in Seq(Messages)
  BY <1>1, <1>2
<1>4. Append(got[c], m) \in Seq(Messages)
  BY <1>2, <1>3
<1>5. Files!Last(m) \in BOOLEAN /\ (Files!Last(m) <=> m # "data")
  BY <1>3 DEF Files!Last, Messages, Files!RESP_MT_FAILURE, Files!RESP_MT_END
<1> HIDE DEF m
<1>6. /\ got' \in [Askers -> Seq(Messages)] /\ got'[c] = Append(got[c], m)
      /\ askerQueue' \in [Askers -> Seq(Messages)] /\ askerQueue'[c] = Tail(askerQueue[c])
      /\ asker' \in [Askers -> {"start", "asked", "done", "gone"}]
      /\ asker'[c] = IF m = "data" THEN "asked" ELSE "done"
      /\ exists' \in [Askers -> BOOLEAN] /\ exists'[c] = (m = "data")
      /\ \A d \in Askers \ {c} :
            /\ got'[d] = got[d] /\ askerQueue'[d] = askerQueue[d]
            /\ asker'[d] = asker[d] /\ exists'[d] = exists[d]
  <2>1. got' \in [Askers -> Seq(Messages)] /\ got'[c] = Append(got[c], m)
    BY <1>1, <1>4 DEF FilesType
  <2>2. askerQueue' \in [Askers -> Seq(Messages)] /\ askerQueue'[c] = Tail(askerQueue[c])
    BY <1>1, <1>3 DEF FilesType
  <2>3. /\ asker' \in [Askers -> {"start", "asked", "done", "gone"}]
        /\ asker'[c] = IF m = "data" THEN "asked" ELSE "done"
    BY <1>1, <1>5 DEF FilesType
  <2>4. exists' \in [Askers -> BOOLEAN]
    BY <1>1, <1>5 DEF FilesType
  <2>5. exists'[c] = ~Files!Last(m)
    BY <1>1 DEF FilesType
  <2>6. exists'[c] = (m = "data")
    BY <1>5, <2>5
  <2> QED
    BY <1>1, <2>1, <2>2, <2>3, <2>4, <2>6 DEF FilesType
<1>7. FilesType'
  BY <1>1, <1>6 DEF FilesType
<1>8. RequestsOnce'
  <2>1. \A d \in Askers : asker[d] # "start" => asker'[d] # "start"
    BY <1>6
  <2> QED
    BY <1>1, <2>1, RequestsStay
<1>9. Files!NoLostChild'
  BY <1>1 DEF Files!NoLostChild
<1>10. OnTheWay(c)'
  <2>1. LeftToRead(c) /\ SentSoFar(c, got[c] \o askerQueue[c])
    BY <1>1 DEF OnTheWay
  <2>2. got'[c] \o askerQueue'[c] = got[c] \o askerQueue[c]
    BY <1>1, <1>2, <1>6, Moved DEF m
  <2>3. CASE m = "data"
    BY <1>1, <1>6, <2>1, <2>2, <2>3 DEF OnTheWay, LeftToRead, SentSoFar
  <2>4. CASE m # "data"
    <3> DEFINE s == got[c] \o askerQueue[c]
    <3>1. /\ Len(s) > 0 /\ Len(s) \in Nat
          /\ Len(got[c]) + 1 \in 1 .. Len(s) /\ s[Len(got[c]) + 1] = m
      <4>1. \A u, v \in Seq(Messages) : v # <<>> =>
               /\ Len(u \o v) > 0 /\ Len(u \o v) \in Nat
               /\ Len(u) + 1 \in 1 .. Len(u \o v) /\ (u \o v)[Len(u) + 1] = Head(v)
        OBVIOUS
      <4> QED
        BY <1>1, <1>2, <4>1 DEF m
    <3> HIDE DEF s
    <3>2. \A k \in Nat : s # Data(k)
      <4> SUFFICES ASSUME NEW k \in Nat, s = Data(k) PROVE FALSE
        OBVIOUS
      <4>1. Len(Data(k)) = k /\ \A j \in 1 .. k : Data(k)[j] = "data"
        BY DEF Data
      <4> QED
        BY <2>4, <3>1, <4>1
    <3>3. s # <<>>
      <4>1. \A u : u = <<>> => Len(u) = 0
        OBVIOUS
      <4> QED
        BY <3>1, <4>1
    <3>4. fileChild[c] \in {"zombie", "reaped"}
      <4>1. fileChild[c] # "read" /\ fileChild[c] # "send" /\ fileChild[c] # "end"
        <5>1. SUFFICES ASSUME fileChild[c] \in {"read", "send", "end"} PROVE FALSE
          OBVIOUS
        <5>2. /\ fileChild[c] = "read" => file[c] - left[c] \in Nat
              /\ fileChild[c] = "send" => file[c] - left[c] - 1 \in Nat
              /\ fileChild[c] = "end" => file[c] \in Nat
          BY <1>2, <2>1 DEF LeftToRead
        <5> QED
          BY <2>1, <3>2, <5>1, <5>2 DEF SentSoFar, s
      <4> QED
        BY <1>1, <2>1, <3>3, <4>1 DEF SentSoFar, FilesType, s
    <3>5. s = Whole(file[c])
      BY <2>1, <3>4 DEF SentSoFar, s
    <3>6. Append(got[c], m) = Whole(file[c])
      BY <1>1, <1>2, <2>4, <3>5, LastIsLast DEF s, m
    <3> QED
      BY <1>1, <1>6, <2>4, <3>4, <3>6 DEF OnTheWay
  <2> QED
    BY <2>3, <2>4
<1>11. \A d \in Askers : OnTheWay(d)'
  BY <1>1, <1>6, <1>10, OneClient
<1> QED
  BY <1>7, <1>8, <1>9, <1>11 DEF FilesInv

LEMMA GoAwayKeeps ==
    ASSUME FilesInv, NEW c \in Askers, Files!goAway(c)
    PROVE  FilesInv'
<1>1. /\ FilesType /\ OnTheWay(c) /\ RequestsOnce /\ Files!NoLostChild
      /\ asker[c] = "asked" /\ asker' = [asker EXCEPT ![c] = "gone"]
      /\ exists' = exists \/ exists' = [exists EXCEPT ![c] = FALSE]
      /\ UNCHANGED <<requests, fileServer, inHandler, sigchld, fileChild, left, askerQueue,
                     file, got>>
  BY DEF FilesInv, Files!goAway, Files!serverVars
<1>2. FilesType'
  BY <1>1 DEF FilesType
<1>3. asker'[c] = "gone" /\ \A d \in Askers \ {c} : asker'[d] = asker[d] /\ exists'[d] = exists[d]
  BY <1>1 DEF FilesType
<1>4. RequestsOnce'
  <2>1. \A d \in Askers : asker[d] # "start" => asker'[d] # "start"
    BY <1>3
  <2> QED
    BY <1>1, <2>1, RequestsStay
<1>5. Files!NoLostChild'
  BY <1>1 DEF Files!NoLostChild
<1>6. OnTheWay(c)'
  BY <1>3 DEF OnTheWay
<1>7. \A d \in Askers : OnTheWay(d)'
  BY <1>1, <1>3, <1>6, OneClient
<1> QED
  BY <1>2, <1>4, <1>5, <1>7 DEF FilesInv

LEMMA ParentKeeps ==
    ASSUME FilesInv, Files!Parent
    PROVE  FilesInv'
<1>1. /\ FilesType /\ RequestsOnce /\ Files!NoLostChild
      /\ UNCHANGED <<left, asker, askerQueue, exists, file, got>>
  BY DEF FilesInv, Files!Parent
<1>2. CASE Files!msgrcv
  <2>0. PICK c \in Askers : c = Head(requests)
    BY <1>1, <1>2 DEF FilesType, Files!msgrcv
  <2>1. /\ fileServer = "msgrcv" /\ requests # <<>> /\ requests' = Tail(requests)
        /\ \/ fileChild' = [fileChild EXCEPT ![c] = "open"] /\ UNCHANGED fileServer
           \/ fileServer' = "exited" /\ UNCHANGED fileChild
        /\ UNCHANGED <<inHandler, sigchld>>
    BY <1>2, <2>0 DEF Files!msgrcv
  <2>2. /\ requests \in Seq(Askers) /\ DOMAIN requests = 1 .. Len(requests)
        /\ 1 \in DOMAIN requests /\ c = requests[1] /\ c \in Askers
        /\ requests' \in Seq(Askers) /\ DOMAIN requests' = 1 .. Len(requests) - 1
        /\ \A k \in DOMAIN requests' : requests'[k] = requests[k + 1] /\ k + 1 \in DOMAIN requests
    BY <1>1, <2>0, <2>1 DEF FilesType
  <2>3. fileChild[c] = "none" /\ asker[c] # "start"
    BY <1>1, <2>2 DEF RequestsOnce
  <2>4. FilesType'
    BY <1>1, <2>1, <2>2 DEF FilesType
  <2>5. \A d \in Askers \ {c} : fileChild'[d] = fileChild[d]
    BY <1>1, <2>1 DEF FilesType
  <2>6. RequestsOnce'
    <3>1. \A j, k \in DOMAIN requests' : requests'[j] = requests'[k] => j = k
      <4> SUFFICES ASSUME NEW j \in DOMAIN requests', NEW k \in DOMAIN requests',
                          requests'[j] = requests'[k]
                   PROVE  j = k
        OBVIOUS
      <4>1. j + 1 = k + 1
        BY <1>1, <2>2 DEF RequestsOnce
      <4> QED
        BY <2>2, <4>1
    <3>2. ASSUME NEW k \in DOMAIN requests'
          PROVE  fileChild'[requests'[k]] = "none" /\ asker'[requests'[k]] # "start"
      <4>1. requests'[k] = requests[k + 1] /\ k + 1 \in DOMAIN requests /\ k + 1 # 1
        BY <2>2
      <4>2. requests[k + 1] # c /\ requests[k + 1] \in Askers
        BY <1>1, <2>2, <4>1 DEF RequestsOnce
      <4> QED
        BY <1>1, <2>5, <4>1, <4>2 DEF RequestsOnce
    <3> QED
      BY <3>1, <3>2 DEF RequestsOnce
  <2>7. Files!NoLostChild'
    <3>1. \A d \in Askers : fileChild'[d] = "zombie" => fileChild[d] = "zombie"
      BY <1>1, <2>1, <2>5 DEF FilesType
    <3> QED
      BY <1>1, <2>1, <3>1 DEF Files!NoLostChild
  <2>8. OnTheWay(c)'
    <3>1. OnTheWay(c)
      BY <2>2 DEF FilesInv
    <3>2. fileChild'[c] \in {"none", "open"} /\ asker[c] \in {"asked", "done", "gone"}
      BY <1>1, <2>1, <2>2, <2>3 DEF FilesType
    <3> QED
      BY <1>1, <2>3, <3>1, <3>2 DEF OnTheWay, LeftToRead, SentSoFar
  <2>9. \A d \in Askers : OnTheWay(d)'
    BY <1>1, <2>2, <2>5, <2>8, OneClient
  <2> QED
    BY <2>4, <2>6, <2>7, <2>9 DEF FilesInv
<1>3. CASE Files!grimReaper
  <2>1. inHandler' = TRUE /\ UNCHANGED <<requests, fileServer, fileChild>>
    BY <1>3 DEF Files!grimReaper
  <2>2. FilesType' /\ RequestsOnce' /\ Files!NoLostChild'
    BY <1>1, <2>1 DEF FilesType, RequestsOnce, Files!NoLostChild
  <2>3. \A d \in Askers : OnTheWay(d)'
    BY <1>1, <2>1 DEF FilesInv, OnTheWay, LeftToRead, SentSoFar
  <2> QED
    BY <2>2, <2>3 DEF FilesInv
<1>4. ASSUME NEW c \in Askers, Files!moves(c, "zombie", "reaped"), UNCHANGED inHandler,
             Files!waitpid
      PROVE  FilesInv'
  <2>1. /\ fileChild[c] = "zombie" /\ fileChild' = [fileChild EXCEPT ![c] = "reaped"]
        /\ UNCHANGED <<requests, fileServer, sigchld, inHandler>>
    BY <1>4 DEF Files!moves, Files!waitpid
  <2>2. FilesType'
    BY <1>1, <2>1 DEF FilesType
  <2>3. fileChild'[c] = "reaped" /\ \A d \in Askers \ {c} : fileChild'[d] = fileChild[d]
    BY <1>1, <2>1 DEF FilesType
  <2>4. RequestsOnce'
    BY <1>1, <2>1, <2>3, RequestsStay
  <2>5. Files!NoLostChild'
    BY <1>1, <2>1, <2>3 DEF Files!NoLostChild
  <2>6. OnTheWay(c)'
    <3>1. OnTheWay(c)
      BY DEF FilesInv
    <3> QED
      BY <1>1, <2>1, <2>3, <3>1 DEF OnTheWay, LeftToRead, SentSoFar
  <2>7. \A d \in Askers : OnTheWay(d)'
    BY <1>1, <2>3, <2>6, OneClient
  <2> QED
    BY <2>2, <2>4, <2>5, <2>7 DEF FilesInv
<1>5. CASE Files!waitpid /\ UNCHANGED fileChild /\ \A c \in Askers : fileChild[c] # "zombie"
  <2>1. UNCHANGED <<requests, fileServer, sigchld>>
    BY <1>5 DEF Files!waitpid
  <2>2. FilesType' /\ RequestsOnce' /\ Files!NoLostChild'
    BY <1>1, <1>5, <2>1 DEF FilesType, RequestsOnce, Files!NoLostChild
  <2>3. \A d \in Askers : OnTheWay(d)'
    BY <1>1, <1>5, <2>1 DEF FilesInv, OnTheWay, LeftToRead, SentSoFar
  <2> QED
    BY <2>2, <2>3 DEF FilesInv
<1> QED
  BY <1>2, <1>3, <1>4, <1>5 DEF Files!Parent, Files!waitpid

-----------------------------------------------------------------------------
(* The programs of the run together: each behavior steps in one of them.   *)
LEMMA ProgramsStart == MCInit => Init /\ ReapInv /\ FilesInv
<1> SUFFICES ASSUME MCInit PROVE Init /\ ReapInv /\ FilesInv
  OBVIOUS
<1>1. Init /\ Reaping!Init /\ Files!Init
  BY DEF MCInit
<1>2. ReapInv
  BY <1>1 DEF Reaping!Init, ReapInv, Reaping!NoLostDeath
<1>3. \A c \in Askers : file[c] \in Nat \cup {-1}
  BY <1>1 DEF Files!Init, Files!NoFile
<1>4. FilesType /\ RequestsOnce /\ Files!NoLostChild
  BY <1>1, <1>3 DEF Files!Init, Files!main, Files!NoFile, FilesType, RequestsOnce,
                    Files!NoLostChild
<1>5. ASSUME NEW c \in Askers PROVE OnTheWay(c)
  <2>1. <<>> \o <<>> = <<>>
    OBVIOUS
  <2> QED
    BY <1>1, <2>1 DEF Files!Init, OnTheWay, LeftToRead, SentSoFar
<1> QED
  BY <1>1, <1>2, <1>4, <1>5 DEF FilesInv

LEMMA FilesKeep ==
    ASSUME FilesInv, Files!Next
    PROVE  FilesInv'
BY ChildKeeps, AskKeeps, ReceiveKeeps, GoAwayKeeps, ParentKeeps DEF Files!Next

LEMMA ReapStays == ReapInv /\ UNCHANGED reapVars => ReapInv'
BY DEF ReapInv, Reaping!NoLostDeath, reapVars

LEMMA FilesStay == FilesInv /\ UNCHANGED filesVars => FilesInv'
BY DEF filesVars, FilesInv, FilesType, RequestsOnce, Files!NoLostChild, OnTheWay,
       LeftToRead, SentSoFar

LEMMA JoinStays == JoinInv /\ UNCHANGED joinVars => JoinInv'
BY DEF joinVars, JoinInv, Joining!StateIsTrue

(* A child that died is reaped, or its death is announced to the process   *)
(* that reaps it: in the program that waits for its children with          *)
(* sigsuspend (26/5:17) and in the file server (46/8:7).                   *)
THEOREM ChildrenKnown == MCSpec => [](ReapInv /\ FilesInv)
<1>1. ReapInv /\ FilesInv /\ [MCNext]_allVars => ReapInv' /\ FilesInv'
  <2> SUFFICES ASSUME ReapInv, FilesInv, [MCNext]_allVars PROVE ReapInv' /\ FilesInv'
    OBVIOUS
  <2>1. CASE Reap(Reaping!Next)
    BY <2>1, ReapKeeps, FilesStay DEF Reap
  <2>2. CASE InFiles(Files!Next)
    BY <2>2, FilesKeep, ReapStays DEF InFiles
  <2>3. CASE Svshm(Next) \/ Join(Joining!Next) \/ Number(Numbers!Next) \/ UNCHANGED allVars
    BY <2>3, ReapStays, FilesStay DEF Svshm, Join, Number, allVars
  <2> QED
    BY <2>1, <2>2, <2>3 DEF MCNext
<1> QED
  BY <1>1, ProgramsStart, PTL DEF MCSpec

(* Only threads that have ended are marked so, when every thread has read  *)
(* its index before main counts on (30/4:29); and no death is lost.        *)
THEOREM DeathsAreKnown ==
    ASSUME totThreads \in Nat, ReadsInTime
    PROVE  MCSpec => []DeathsKnown
<1>1. MCInit => JoinInv
  <2> SUFFICES ASSUME MCInit PROVE JoinInv
    OBVIOUS
  <2>1. Joining!Init
    BY DEF MCInit
  <2>2. /\ idx \in Int /\ my \in [Joining!Threads -> Int]
        /\ state \in [Joining!Threads -> {"TS_ALIVE", "TS_TERMINATED", "TS_JOINED"}]
        /\ tpc \in [Joining!Threads -> {"none", "start", "work", "signal", "ended", "joined"}]
    BY <2>1 DEF Joining!Init
  <2>3. \A t \in Joining!Threads : tpc[t] = "none" /\ state[t] = "TS_ALIVE"
    BY <2>1 DEF Joining!Init
  <2> QED
    BY <2>2, <2>3 DEF JoinInv, Joining!StateIsTrue
<1>2. JoinInv /\ [MCNext]_allVars => JoinInv'
  <2> SUFFICES ASSUME JoinInv, [MCNext]_allVars PROVE JoinInv'
    OBVIOUS
  <2>1. CASE Join(Joining!Next)
    BY <2>1, JoinKeeps DEF Join
  <2>2. CASE \/ Svshm(Next) \/ Reap(Reaping!Next) \/ Number(Numbers!Next)
             \/ InFiles(Files!Next) \/ UNCHANGED allVars
    BY <2>2, JoinStays DEF Svshm, Reap, Number, InFiles, allVars
  <2> QED
    BY <2>1, <2>2 DEF MCNext
<1>3. MCSpec => []JoinInv
  BY <1>1, <1>2, PTL DEF MCSpec
<1>4. JoinInv /\ ReapInv /\ FilesInv => DeathsKnown
  BY DEF JoinInv, ReapInv, FilesInv, DeathsKnown
<1> QED
  BY <1>3, <1>4, ChildrenKnown, PTL

(* Both ends of the transfer name the same bytes, no number is given to    *)
(* two clients, and a client that is done has its whole file               *)
(* (48/2:35, 44/7:46, 46/8:29).                                            *)
THEOREM AnswersAreRight ==
    ASSUME Lengths \subseteq Nat
    PROVE  MCSpec => []AnswersRight
<1>1. MCSpec => []BytesAgree
  <2>1. MCInit => Init
    BY DEF MCInit
  <2>2. [MCNext]_allVars => [Next]_vars
    BY DEF MCNext, allVars, svshmVars, Svshm, Join, Reap, Number, InFiles
  <2> QED
    BY <2>1, <2>2, SameBytes, PTL DEF MCSpec, Spec
<1>2. MCSpec => [](running = "numbers" => Numbers!NumbersDisjoint)
  <2>1. MCInit /\ running = "numbers" => Numbers!Init
    BY DEF MCInit
  <2>2. [MCNext]_allVars => [Numbers!Next]_Numbers!vars
    BY DEF MCNext, allVars, numbersVars, Svshm, Join, Reap, Number, InFiles, Numbers!vars
  <2>3. ~(running = "numbers") /\ [MCNext]_allVars => ~(running = "numbers")'
    BY DEF MCNext, allVars, Svshm, Join, Reap, Number, InFiles
  <2>4. Numbers!Spec => []Numbers!NumbersDisjoint
    BY Numbers!NoNumberTwice
  <2> QED
    BY <2>1, <2>2, <2>3, <2>4, PTL DEF MCSpec, Numbers!Spec
<1>3. FilesInv => Files!FilesWhole
  BY WholeAnswer DEF FilesInv, OnTheWay, Files!FilesWhole
<1>4. BytesAgree /\ (running = "numbers" => Numbers!NumbersDisjoint) /\ Files!FilesWhole
          => AnswersRight
  BY DEF AnswersRight
<1> QED
  BY <1>1, <1>2, <1>3, <1>4, ChildrenKnown, PTL
=============================================================================
