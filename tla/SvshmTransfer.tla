---------------------------- MODULE SvshmTransfer ----------------------------
(***************************************************************************)
(* The transfer of blocks through a System V shared memory segment of      *)
(* TLPI/src/48_System_V_Shared_Memory: the writer (2_transfer...main.c),   *)
(* the reader (3_transfer...main.c) and the binary semaphores of           *)
(* TLPI/lib/binary_sems.c by which they take turns.                        *)
(*                                                                         *)
(* Every access to the segment is a step of its own.  A block is a number, *)
(* its size; what is sent is the pair of what buf holds and of cnt.  A     *)
(* reader that is started too early ends with an error and is started      *)
(* again.  killWriter, which is not part of Next, is the writer killed and *)
(* started again.                                                          *)
(***************************************************************************)
EXTENDS Integers, Sequences

CONSTANTS
    BUF_SIZE,   \* the largest block
    MaxBlocks,  \* bound: blocks of the input
    MaxKills,   \* bound: how often the writer is killed
    MayFail     \* whether read and write may fail

ASSUME TransferAssumption ==
    /\ BUF_SIZE \in Nat \ {0}
    /\ MaxBlocks \in Nat /\ MaxKills \in Nat
    /\ MayFail \in BOOLEAN

VARIABLES
    sems, shm,      \* whether the objects exist
    WRITE_SEM, READ_SEM,
    cnt, buf,       \* the segment
    wpc, rpc,
    n,              \* what the writer's read returned
    wbytes, rbytes, \* the counts of bytes they report
    sent, received, \* history: blocks put in, blocks written out
    kills

ipc == <<sems, shm>>
semaphores == <<WRITE_SEM, READ_SEM>>
segment == <<cnt, buf>>
writer == <<wpc, n, wbytes, sent>>
reader == <<rpc, rbytes, received>>
vars == <<ipc, semaphores, segment, writer, reader, kills>>

\* Nothing exists: semget makes semaphores of value 0, shmget zeroed memory.
Init ==
    /\ sems = FALSE /\ shm = FALSE
    /\ WRITE_SEM = 0 /\ READ_SEM = 0
    /\ cnt = 0 /\ buf = 0
    /\ wpc = "semget" /\ rpc = "semget"
    /\ n = 0 /\ wbytes = 0 /\ rbytes = 0
    /\ sent = <<>> /\ received = <<>>
    /\ kills = 0

-----------------------------------------------------------------------------
(* The writer.                                                             *)

GoW(from, to) == wpc = from /\ wpc' = to

semget ==
    /\ GoW("semget", "initSemAvailable")
    /\ sems' = TRUE
    /\ UNCHANGED <<shm, semaphores, segment, n, wbytes, sent, reader, kills>>

initSemAvailable ==
    /\ GoW("initSemAvailable", "initSemInUse")
    /\ WRITE_SEM' = 1
    /\ UNCHANGED <<ipc, READ_SEM, segment, n, wbytes, sent, reader, kills>>

\* Mutation: both semaphores start as available.
initSemInUse_available ==
    /\ GoW("initSemInUse", "shmget")
    /\ READ_SEM' = 1
    /\ UNCHANGED <<ipc, WRITE_SEM, segment, n, wbytes, sent, reader, kills>>

initSemInUse ==
    /\ GoW("initSemInUse", "shmget")
    /\ READ_SEM' = 0
    /\ UNCHANGED <<ipc, WRITE_SEM, segment, n, wbytes, sent, reader, kills>>

\* shmget and shmat; the segment of an earlier writer is kept.
shmget ==
    /\ GoW("shmget", "reserve")
    /\ shm' = TRUE
    /\ UNCHANGED <<sems, semaphores, segment, n, wbytes, sent, reader, kills>>

reserveWrite ==
    /\ GoW("reserve", "read")
    /\ WRITE_SEM > 0 /\ WRITE_SEM' = WRITE_SEM - 1
    /\ UNCHANGED <<ipc, READ_SEM, segment, n, wbytes, sent, reader, kills>>

\* read fills buf; cnt still holds the size of the block before.
read ==
    /\ GoW("read", "count")
    /\ \/ /\ Len(sent) < MaxBlocks
          /\ n' \in 1 .. BUF_SIZE
          /\ buf' = n'
       \/ /\ n' = 0
          /\ UNCHANGED buf
       \/ /\ MayFail
          /\ n' = -1
          /\ UNCHANGED buf
    /\ UNCHANGED <<ipc, semaphores, cnt, wbytes, sent, reader, kills>>

\* The result is stored in cnt; a failed read ends the writer.
count ==
    /\ wpc = "count"
    /\ wpc' = IF n = -1 THEN "failed" ELSE "release"
    /\ cnt' = n
    /\ sent' = IF n > 0 THEN Append(sent, <<buf, n>>) ELSE sent
    /\ UNCHANGED <<ipc, semaphores, buf, n, wbytes, reader, kills>>

releaseRead ==
    /\ GoW("release", "test")
    /\ READ_SEM' = READ_SEM + 1
    /\ UNCHANGED <<ipc, WRITE_SEM, segment, n, wbytes, sent, reader, kills>>

\* The end of input is tested and the bytes are counted in shared memory, after
\* the reader has been given its turn.
testEOF ==
    /\ wpc = "test"
    /\ wpc' = IF cnt = 0 THEN "last" ELSE "reserve"
    /\ wbytes' = wbytes + cnt
    /\ UNCHANGED <<ipc, semaphores, segment, n, sent, reader, kills>>

\* Mutation: the writer does not wait for the reader before it deletes.
reserveLast_noWait ==
    /\ GoW("last", "removeSems")
    /\ UNCHANGED <<ipc, semaphores, segment, n, wbytes, sent, reader, kills>>

reserveLast ==
    /\ GoW("last", "removeSems")
    /\ WRITE_SEM > 0 /\ WRITE_SEM' = WRITE_SEM - 1
    /\ UNCHANGED <<ipc, READ_SEM, segment, n, wbytes, sent, reader, kills>>

removeSems ==
    /\ GoW("removeSems", "removeShm")
    /\ sems' = FALSE
    /\ UNCHANGED <<shm, semaphores, segment, n, wbytes, sent, reader, kills>>

removeShm ==
    /\ GoW("removeShm", "done")
    /\ shm' = FALSE
    /\ UNCHANGED <<sems, semaphores, segment, n, wbytes, sent, reader, kills>>

-----------------------------------------------------------------------------
(* The reader.                                                             *)

GoR(from, to) == rpc = from /\ rpc' = to

readerSemget ==
    /\ GoR("semget", "shmget")
    /\ sems
    /\ UNCHANGED <<ipc, semaphores, segment, writer, rbytes, received, kills>>

readerShmget ==
    /\ rpc = "shmget"
    /\ rpc' = IF shm THEN "reserve" ELSE "semget"
    /\ UNCHANGED <<ipc, semaphores, segment, writer, rbytes, received, kills>>

reserveRead ==
    /\ GoR("reserve", "test")
    /\ sems /\ READ_SEM > 0 /\ READ_SEM' = READ_SEM - 1
    /\ UNCHANGED <<ipc, WRITE_SEM, segment, writer, rbytes, received, kills>>

readerTestEOF ==
    /\ rpc = "test"
    /\ rpc' = IF cnt = 0 THEN "last" ELSE "write"
    /\ rbytes' = rbytes + cnt
    /\ UNCHANGED <<ipc, semaphores, segment, writer, received, kills>>

write ==
    /\ rpc = "write"
    /\ \/ /\ rpc' = "release"
          /\ received' = Append(received, <<buf, cnt>>)
       \/ /\ MayFail
          /\ rpc' = "failed"
          /\ UNCHANGED received
    /\ UNCHANGED <<ipc, semaphores, segment, writer, rbytes, kills>>

releaseWrite ==
    /\ GoR("release", "reserve")
    /\ sems /\ WRITE_SEM' = WRITE_SEM + 1
    /\ UNCHANGED <<ipc, READ_SEM, segment, writer, rbytes, received, kills>>

\* Mutation: the reader keeps the turn after the end of the input.
releaseLast_forget ==
    /\ GoR("last", "done")
    /\ UNCHANGED <<ipc, semaphores, segment, writer, rbytes, received, kills>>

\* shmdt, and the turn by which the writer cleans up.
releaseLast ==
    /\ GoR("last", "done")
    /\ sems /\ WRITE_SEM' = WRITE_SEM + 1
    /\ UNCHANGED <<ipc, READ_SEM, segment, writer, rbytes, received, kills>>

\* semop on a set that was removed.
readerFails ==
    /\ rpc \in {"reserve", "release", "last"} /\ ~sems
    /\ rpc' = "failed"
    /\ UNCHANGED <<ipc, semaphores, segment, writer, rbytes, received, kills>>

-----------------------------------------------------------------------------
Writer ==
    \/ semget \/ initSemAvailable \/ initSemInUse \/ shmget \/ reserveWrite
    \/ read \/ count \/ releaseRead \/ testEOF \/ reserveLast \/ removeSems
    \/ removeShm

Reader ==
    \/ readerSemget \/ readerShmget \/ reserveRead \/ readerTestEOF \/ write
    \/ releaseWrite \/ releaseLast \/ readerFails

ended == wpc = "done" /\ rpc = "done" /\ UNCHANGED vars

Next == Writer \/ Reader \/ ended

Spec == Init /\ [][Next]_vars

\* Both programs are run, and the input ends.
FairSpec == Spec /\ WF_vars(Writer) /\ WF_vars(Reader)

\* The writer is killed between two steps and started again.
killWriter ==
    /\ kills < MaxKills /\ wpc \notin {"semget", "done", "failed"}
    /\ kills' = kills + 1
    /\ wpc' = "semget"
    /\ UNCHANGED <<ipc, semaphores, segment, n, wbytes, sent, reader>>

KillSpec == Init /\ [][Next \/ killWriter]_vars

-----------------------------------------------------------------------------
WriterPc == {"semget", "initSemAvailable", "initSemInUse", "shmget", "reserve",
             "read", "count", "release", "test", "last", "removeSems",
             "removeShm", "done", "failed"}
ReaderPc == {"semget", "shmget", "reserve", "test", "write", "release", "last",
             "done", "failed"}

(* The semaphores are binary, the size in the segment is one of a block.   *)
TypeOK ==
    /\ sems \in BOOLEAN /\ shm \in BOOLEAN
    /\ WRITE_SEM \in 0 .. 1 /\ READ_SEM \in 0 .. 1
    /\ cnt \in -1 .. BUF_SIZE /\ buf \in 0 .. BUF_SIZE /\ n \in -1 .. BUF_SIZE
    /\ wpc \in WriterPc /\ rpc \in ReaderPc
    /\ wbytes \in Nat /\ rbytes \in Nat
    /\ sent \in Seq(Nat \X Nat) /\ received \in Seq(Nat \X Nat)
    /\ kills \in 0 .. MaxKills

(* While the reader looks at the segment (lines 21 to 24) the writer does  *)
(* not change it (line 28).                                                *)
SegmentExclusive == ~(wpc \in {"read", "count"} /\ rpc \in {"test", "write"})

(* The two programs together are the transfer that loses, repeats and      *)
(* reorders nothing.                                                       *)
EOF ==
    \/ wpc \in {"last", "removeSems", "removeShm", "done"}
    \/ wpc \in {"release", "test"} /\ cnt = 0
Transfer == INSTANCE BlockTransfer WITH
    phase <- IF rpc \in {"last", "done"} THEN "ended"
             ELSE IF EOF THEN "eof" ELSE "open",
    Blocks <- (1 .. BUF_SIZE) \X (1 .. BUF_SIZE)
ImplementsTransfer == Transfer!Spec

(* "Sent %d bytes" and "Received %d bytes" name the same number, although  *)
(* the writer adds cnt up after it has given its turn away (line 24).      *)
BytesAgree == wpc = "done" /\ rpc = "done" => wbytes = rbytes

(* Both programs end, unless a read or a write of one of them fails: that  *)
(* one ends alone, without giving its turn back.                           *)
BothEnd == <>((wpc = "done" /\ rpc = "done") \/ "failed" \in {wpc, rpc})

(* "Wait until reader has let us have one more turn.  We then know reader  *)
(* has finished, and so we can delete the IPC objects" (writer, 38-39).    *)
ReaderFinished == wpc \in {"removeSems", "removeShm"} => rpc = "done"
=============================================================================
