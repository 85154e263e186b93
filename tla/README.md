# TLA+ models of book-reading-and-pratice

The repository collects programs written while reading books: monitors with
condition variables (OSPP), network servers (Linux高性能服务器编程, "HPS" below;
UNP), system programming (TLPI), a small async executor, a DNS server, a
WebSocket codec and parsers (rust_pg, JSON-TUTORIAL).  They share no code but a
few error helpers, so the project is a set of independent specifications: one
module per program, class or group of small programs, taken from the source
line by line (`PROJECT.json`, "map") and checked by TLC.  The safety properties
of all but two recursive programs (the DNS packets and the Pratt parser) are
proved with TLAPS as well, for every number of threads, every capacity and any
data.

## 1. Inventory

### Monitors and threads: OSPP, HPS, TLPI

| part | state | operations | what is hard | what makes it correct |
|---|---|---|---|---|
| readers/writers lock, `OSPP/lib/RWLock.cpp` | four counters, a mutex, two condition variables | `startRead`, `doneRead`, `startWrite`, `doneWrite` | a woken thread meets a state others have changed; only the last reader signals, only one writer is signalled | exclusion, writer preference, nobody asleep whom nobody will wake |
| blocking bounded queue, `ThreadSafeBoundedQueue_CV.cpp` | ring, `front`, `nextEmpty`, two conditions | `tryInsert`, `tryRemove` (both block) | full and empty, wake-ups on the wrong side | linearizable bounded FIFO queue, all calls return |
| barrier, `Barrier.cpp` | `numEntered`, `numLeaving`, two conditions | `checkin` | a fast thread re-enters while slow ones leave | nobody returns before all have come, every round ends |
| queue in call order, `ThreadSafeBoundedQueue_FIFO.cpp` | the ring, positions given out, two lists of condition variables made per call | `tryInsert`, `tryRemove` | conditions deleted by their owner, popped once, `front()` of an empty list | calls served in order, no deleted condition is broadcast; the calls return (they need not: section 7) |
| thread pool, `HPS 15/3_threadpool.h`, `15/locker.h` | list of requests, mutex, semaphore | `append`, `run` | a worker keeps the mutex it has taken | requests and tokens of the semaphore are the same number, requests are taken in order |
| small programs of two or three threads, or a parent and a child: `TLPI 30/1`, `30/2`, `30/4_practice`, `31/2`, `31/3`, `32/1`, `32/2`, `24/6`, `HPS 14/3` | a mutex, a condition, a counter, a block of memory, a signal | add, wait, signal, cancel, fork | cancelation in a wait, a fork while a mutex is held, a signal before the wait for it | what is counted, locked and allocated is right at the end, and the end comes |

### Servers and clients: HPS, UNP

| part | state | operations | what is hard | what makes it correct |
|---|---|---|---|---|
| process pool, `HPS 15/1_processpool.h` | the worker table, socket pairs, signal pipes, epoll sets, `m_stop` | constructor, `run_parent`, `run_child`, signal handler | edge-triggered events, signals that coalesce, workers that die or are killed, two meanings of `m_stop` | a notice is always backed by a connection, deaths are noticed, TERM ends everybody |
| timed server, `11/3.cpp` with `11/2_lst_timer.h` | sorted timer list, signal pipe, open connections | accept, signals, `tick` | descriptors reused by the kernel, an alarm that must be renewed | one timer per connection, in order; connections are closed in time |
| chat server with poll, `9/7.cpp` | table of pollfds, users by descriptor | poll, accept, recv, send, leave | the table is compacted while it is gone through; POLLIN and POLLOUT exclude each other | the table holds each connection once; nobody is left unheard; places become free |
| chat server with epoll, `9/7_epoll.cpp` | `user_fds`, `user_counter`, what each descriptor is registered for | accept, recv, send, leave | the list of descriptors is never compacted and read one entry too far | the counter is that of the connections; users are heard again |
| servers around epoll, `9/3.cpp` (level and edge triggered), `9/4.cpp` (EPOLLONESHOT, a thread per event), `10/1.cpp` (signals through a pipe) | epoll set, threads, pipe | `et`, `lt`, `worker`, `sig_handler` | data that come between the last recv and the re-arming; arguments read through a pointer | one reader for each descriptor, what is sent is read, TERM ends the server |
| programs with one connection, `10/3.cpp`, `10/3_copy.cpp`, `9/1.cpp`, `9/6.cpp`, and the clients of UNP 5 and 6 | stream, urgent mark, SIGURG | recv, handler, select, poll | SIGURG comes before, in or after the recv it concerns, and before or after its byte; half-closed connections | an urgent byte that is there when the handler asks is taken before it is passed over; the program ends with the connection |
| echo servers, `UNP 5_tcpcliserv`, `6_select` | table of descriptors, `maxi`, `allset`; children, SIGCHLD | accept, echo, `sig_chld` | places reused, deaths that coalesce, accept interrupted, a wrapper that returns what nobody has set | table and sets are those of the open connections; lines are echoed, children reaped |
| line readers, `UNP lib/readlilne.c`, `readn.c`, `writen.c`, `TLPI/lib/read_line.c` | buffer shared by calls | `readline`, `readline_slow`, `readn`, `writen`, `readLine` | short and failing reads; lines longer than the room | no byte is lost or repeated, each call returns what it has taken |
| HTTP request parser, `HPS 8/1.cpp` | buffer, two indices, two automata | recv, `parse_line`, `parse_content` | lines cut anywhere by recv | the answer depends on the bytes, not on the pieces |
| HTTP connection, `15/4_http_conn.h` | the parser of an object that serves one connection after another, `m_user_count`, one-shot events | `init`, `read`, `parse_line`, the parsers, `close_conn` | requests in pieces, several requests on one connection, state left by the last one | the answer depends on the bytes; the users are counted |

### System programming: TLPI

| part | state | operations | what is hard | what makes it correct |
|---|---|---|---|---|
| shared memory transfer, `48_System_V_Shared_Memory`, `lib/binary_sems.c` | segment (`cnt`, `buf`), two semaphores, their existence | writer, reader | creation, initialisation and removal by one side; reads and writes that fail; a writer killed and restarted | turns exclude each other, each block comes out once and in order, objects go when the reader has finished |
| joining any thread, `30/4_A_main_thread_...c` | thread table, two counters, mutex, condition | `threadFunc`, `main` | the index of a thread is passed by the address of the loop variable; main joins with the mutex held | a thread marked terminated has terminated; main joins them all |
| reaping children, `26_.../5_reaping_...c` | children, one pending SIGCHLD, `numLiveChildren` | fork, handler, sigsuspend | several deaths make one signal | no death is lost, main returns |
| sequence numbers, `44/7`, `44/8` (FIFOs), `59/6`, `59/7` (connections) | `seqNum`, a FIFO or a connection per client | request, open, answer | clients killed between any two of their steps | no number is given twice; clients are answered |
| file server with message queues, `46/8` | the server's queue, one per client, a child per request | msgrcv, fork, send, `grimReaper` | queues that are full or removed, children that die together | no client misses part of its file; children are reaped |

### Rust and JSON

| part | state | operations | what is hard | what makes it correct |
|---|---|---|---|---|
| `mini_tokio.rs` | channel, tasks, `Delay`s, timer threads | spawn, run, poll, wake | a timer fires while the poll that made it is still deciding; stale wake-ups | no wake-up is lost, completed futures are not polled (only true of an executor that is never late: section 7) |
| DNS packets, `my_dns` | buffer, position, names recorded for compression | read and write of names, questions, records, packets | pointers, jumps, where reading goes on | what is written is read back; the two readers of names agree |
| DNS server, `my_dns/server.rs` | the calls of the recursive lookup, one socket | `handle_query`, `lookup`, `recursive_loopup` | referrals without addresses, datagrams lost, late or twice | clients get the address their name has; every query is answered |
| frame codec, `tokio_util_pg/decode_encode.rs`; WebSocket messages, `my_ws/message.rs` | a buffer that grows | `encode`, `decode` | frames in pieces, lengths computed in 16 bits | what is written is read back |
| Pratt parser, `pratt_parsing.rs` | token list | `expr_bp` | binding powers, off-by-one at equal ones | the tree is the one the binding powers determine |
| tinyjson, `JSON-TUTORIAL/tinyjson` | a value, the block of its string | parse, set, free | prefixes of words and numbers, code points at the bounds of encodings | texts of the grammar and no others are accepted; a string is not freed under its value |
| vector, `my_vec` | memory with its capacity, length; start and end of the iterator | `push`, `pop`, `insert`, `remove`, `into_iter`, `next`, `next_back`, destructors | a cell keeps its bits when its element has gone: who drops what, across reallocation and the iterator | each element has one owner (not after a `next_back`: section 7) |

### Not modelled

- The plain bounded queue and the lock classes of OSPP: one mutex around a few
  assignments, nobody waits.
- `11/5_tw_timer.h`, the timing wheel: lacks a brace, does not compile, and no
  program uses it.  The other examples of HPS 5, 6 and 11 are one call after
  another.
- `pg`: `reactor/main.cpp` is an unfinished experiment, which answers and closes
  the connection accepted last, whichever event it handles (101 to 110), and
  whose loop bound is overwritten by what recv and send return.
- `TLPI 47/6`, initialising a semaphore: the loop that waits for the other
  process stands inside the branch that has ended the program, so the race it is
  about is not in the code.  The other programs of 44, 46, 47 and 59 show one
  call, or two processes with one step each.
- TLPI on files, users, time, terminals, processes and signals: sequential input
  and output, apart from the programs above.
- The companions of mini_tokio (`graceful_shutdown`, `async_stream_demo`,
  `test_future`): examples of tokio, whose scheduler, channels and tokens are
  not in the repository.
- The shunting yard parser (`main` prints one line), tower, oxc, macros and
  language exercises; the node request handlers over library streams; coroutines;
  the linker and assembly demonstrations; compiled JavaScript.

`PROJECT.json` lists every component with its sources, and the hazards at their
lines with the properties that cover them.  Of a component that is "partly"
modelled the note says what is missing: mostly declarations without a body, as
`process` of the HTTP connection, which the model has to stand in for.

## 2. How the code is modelled

*Threads and mutexes.*  What a thread does while it holds a mutex is one step:
nobody else sees the states in between.  A wait ends a step; the code behind it
is a step of its own (`resume...`), beginning with the test of the loop.  Where
shared data is used without a mutex (SvshmTransfer, the variable `idx` of
JoinAny, the channel of MiniTokio, `glob` of `30/1`), each access is a step; and
where a mutex may be left locked (ThreadPool, ThreadPrograms), taking it and
giving it back are steps.

*Condition variables* (`PthreadCond`) are the set of the threads blocked on
them.  `pthread_cond_signal` takes one out (any one), `pthread_cond_broadcast`
all; a spurious wake-up (`spuriousWakeup`) takes one out at any time.  A thread
that is no longer in the set has yet to get the mutex.

*Processes and signals.*  A signal is pending at most once.  A handler that
only writes to a pipe is a step that puts a byte there; one that interrupts a
call is a step after which the call has returned.  `epoll_wait` on an
edge-triggered descriptor reports an arrival once, however many there were.
Workers, CGI programs and children are processes with a state of their own;
a death leaves a zombie and raises SIGCHLD.

*Streams.*  A connection is what can be read from it: nothing, something, the
end, a reset.  Clients connect, talk, hang up and reset at any time, and the
descriptor of a closed connection is given to the next.  Where the bytes matter
(HttpParser, HttpConn, StreamReaders) they come in pieces of any length.

*Undefined behaviour* is a choice (`front()` of an empty `std::list`: null with
libstdc++, or garbage; entries of `user_fds` nobody has written; the number the
wrapper of `select` returns), or ends the behaviour (`undefined` in JoinAny, a
broadcast on a deleted condition in FIFOBBQ, `killed` in EpollChat).

*Data.*  Items, blocks and tasks are model values or small numbers; bytes are a
few symbols in the HTTP parsers, characters by name in TinyJson, numbers 0..255
in DnsPacket and the WebSocket frames, where arithmetic on them is what is
checked, and numbers to a small `Base` in MyFrame, where the overflow of lengths
is.  The operator `^` on bytes is a constant, `XOR`, of which `XorAssumption` says
that a second time undoes the first; a run has the real one.

*Pure algorithms* (DnsPacket, PrattParsing, the texts of TinyJson, the messages of
StreamReaders) are operators, applied to an input that is chosen at the beginning:
in a run every input of a set, in a theorem any input there is.

*Several programs in one run.*  `MCThreads`, `MCServers`, `MCSockets`, `MCTLPI`,
`MCRust` and `MCTexts` choose at the beginning which of several programs the
behaviour belongs to (`running`); the variables of the others keep their initial
values.  Fairness is that of each module's specification, restricted to its own
steps.  Their properties are conjunctions of properties of the modules, which are
stated, with the code they are about, in the modules; a variant with an error
stands beside the definition each part is about.

## 3. Modules

| module | code | state and actions |
|---|---|---|
| `PthreadCond` | pthread condition variables | `AfterSignal`, `AfterBroadcast` |
| `ReadersWriters` | abstract | the mode of each thread; `AskRead`, `AskWrite`, `GrantRead`, `GrantWrite`, `Release` |
| `RWLock` | `OSPP/lib/RWLock.*` | counters by their names in the class, `readCond`, `writeCond`, a `pc` per thread; one action per method and one per resumption |
| `RWLockDriver` | `OSPP/src/5/6_1_RWLock.cpp` | RWLock with main: creation and join of the threads in their order |
| `BoundedQueue` | abstract | `queue`, the arguments and results; `Insert` and `Remove` at one instant |
| `BBQ` | `ThreadSafeBoundedQueue_CV.*` | `items`, `front`, `nextEmpty` (counters that only grow, slots by `% MAX`), the two conditions, `left` the calls each thread has still to make |
| `Barrier` | `Barrier.*` | `checkin` up to its first wait, `resumeEntering`, `resumeLeaving`; `leave` is the second half of the method |
| `FIFOBBQ` | `ThreadSafeBoundedQueue_FIFO.*` | lists of conditions as sequences of positions, `owner` the thread whose condition it is, `myPosition` |
| `ThreadPool` | `15/3_threadpool.h`, `15/locker.h` | `m_workqueue`, `m_queuelocker`, `m_queuestat`; `caller` and `worker` say at which call on the locker or the semaphore each thread is |
| `ThreadPrograms` | the ten small programs of section 1 | `prog` says which; a mutex, `glob`, a condition, the block that is freed, the buffers of `strerror`, the copy of the mutex in the child |
| `ProcessPool` | `15/1_processpool.h`, outcomes of `15/2_cgi_conn.cpp` | parent, workers, socket pairs, signal pipes; `ppc` and `wpc` say where in their loops they are, `events` and `wevents` hold the rest of what epoll_wait returned |
| `TimedServer` | `11/3.cpp`, `11/2_lst_timer.h` | times as what is left of them; `second` is the clock |
| `ChatServer` | `9/7.cpp` | `fds[1..user_counter]` with events and revents, the index `i` of the loop |
| `EpollChat` | `9/7_epoll.cpp` | `user_fds`, `user_counter`, `interest` and `edge` of each descriptor, `events` the rest of the batch |
| `EpollServers` | `9/3.cpp`, `9/4.cpp`, `10/1.cpp` | `server` says which; `armed` (EPOLLONESHOT), the threads by what they are about to do, `pipe` and `pending` signals |
| `EchoServers` | UNP `5_tcpcliserv`, `6_select`, four wrappers | `prog` says which; `client`, `maxi`, `allset`, `maxfd`, `ready`, `nready`; or children and SIGCHLD |
| `OneConnection` | `10/3.cpp`, `10/3_copy.cpp`, `9/1.cpp`, `9/6.cpp`, clients of UNP | the stream `before` and `after` the urgent byte; `oob`, whether the byte is announced ("told"), has come ("valid"), is announced and was asked for in vain ("untold"), or has come after that ("early"), or is "read"; `urg` pending; `stdin` of a client |
| `HttpParser` | `8/1.cpp` | the filled part of the buffer, `checked_index`, `start_line`, the two automata; `stream` remembers the bytes as they came |
| `HttpConn` | `15/4_http_conn.h` | the fields of the class, `armed` the one-shot event, one connection after another |
| `TextPrograms` | - | HttpParser, HttpConn, StreamReaders and TinyJson side by side, with the variables of all; `running` says which, `input` is what a function is applied to |
| `StreamReaders` | UNP and TLPI line readers, `decode_encode.rs`, `my_ws/message.rs` | `reader` says which function is called; `unread`, `read_buf`, and `text`, what the call has put; each read is a step (`fill`, `readByte`, `move`), which may fail; frames are operators on buffers |
| `BlockTransfer` | abstract | blocks sent and received, the end seen after all of them |
| `SvshmTransfer` | TLPI 48 | segment, semaphores, a pc per program, every access to the segment a step |
| `JoinAny`, `SigchldReaper` | TLPI 30/4, 26/5 | as in the inventory |
| `SequenceNumbers` | TLPI 44/7, 44/8, 59/6, 59/7 | `transport` says which; `seqNum`, the server's place, the place of each client, `queue` of requests; ends with its theorem |
| `MessageServer` | TLPI 46/8, `svmsg_file.h` | requests, one child per request, queues of the clients, `grimReaper` |
| `MiniTokio` | `mini_tokio.rs` | `scheduled` is the channel, `at` the statement each task has come to, `timers` the timer threads, `epc` the executor between recv, poll and the comparison with the clock |
| `DnsResolver` | `my_dns/server.rs`, choices of `packet.rs` | `stack` of the calls, `net` a bag of datagrams, `zones` the name servers |
| `OwnedSequence` | abstract | `seq`, what the caller holds, what has been dropped; `Put`, `Take`, `DropAll`, `DropHeld` |
| `MyVec` | `my_vec/*.rs` | `cells[0..cap-1]`, `len`, then `start` and `end` as numbers of cells; the destructors are actions |
| `DnsPacket` | `my_dns` | operators on `[ok, buf, name_record]` (writing) and `[ok, pos, val]` (reading); `ok = FALSE` is the `Err` that `?` hands on |
| `PrattParsing` | `pratt_parsing.rs` | operators on token sequences; `Panic` is a panic |
| `TinyJson` | `tinyjson.c` | operators on texts; `value` and the `live` blocks |
| `MCThreads`, `MCServers`, `MCSockets`, `MCTLPI`, `MCRust`, `MCTexts` | - | the combinations of section 2, with the inputs of TLC; MCRust also has `main` of `mini_tokio.rs`, whose futures are statements as data |
| `RWLock_proofs`, `Threads_proofs`, `Servers_proofs`, `Sockets_proofs`, `TLPI_proofs`, `Rust_proofs`, `Text_proofs` | - | theorems, section 6; all but the first are about the programs of one run each |

Definitions keep the names of the source.  Where a name stands for a part of a
function only, "map" names the lines.  Definitions under a comment "Mutation"
are variants of the definition next to them with a plausible error; no
specification uses them.  They show that a property notices the error: with the
variant in place of the original TLC finds the property violated.

`TypeOK` is the type invariant of a module.  It is proved for RWLock, and
contained in the inductive invariants of the other proofs; in the other
modules that state one it documents the variables.

## 4. Runs

| run | instance | shows |
|---|---|---|
| `rwlock` | 3 readers, 2 writers, main of the test program, spurious wake-ups | `Exclusion`; `NoLostWakeup` (whoever sleeps has somebody left to wake him); the lock implements `ReadersWriters`; main joins everybody |
| `threads` | FIFO queue: 2 and 2 threads with two calls each, with and without spurious wake-ups and garbage from `front()`, and the test program with 5 inserts and removes; the queue with two conditions: 2 and 2 threads with three calls each, 2 slots; barrier: 4 threads, 3 rounds; thread pool: 2 callers with two calls, 2 workers, 2 places; the ten small programs | `CallOrder`, `NoDanglingCond`; `NobodyStranded` (no thread sleeps on a condition that holds); both queues implement `BoundedQueue` (`ImplementsBoundedQueue`, `CVIsQueue`); `NobodyAhead`; `CountsRight` (the pool's requests and tokens, the results of the programs); `ThreadsReturn` |
| `fifobbq_stranded` | the queue without spurious wake-ups | a counterexample to `AllCallsReturn` |
| `servers` | pool: 2 workers, up to 2 connections, 2 deaths, 1 TERM, in three worlds; timed server: 2 descriptors, TIMESLOT 1; chat: 2 places | pool: `DeathNoticed`, `PoolExact` (the parent goes on exactly as long as it has a worker; notices are backed), `PoolStops`, `AllServed`; `TablesTrue` (one timer for each connection, the table of the users); `UsersServed` (closed in time, heard again, places freed, except where a connection was reset) |
| `sockets` | chat with epoll: 2 places, 2 descriptors; the three epoll servers, HUP and TERM; the four echo servers, 3 children; six programs with one connection | `TablesExact`; `EventsTrue` (accept returns, one reader per descriptor); `UrgentTaken`; `ConnectionsServed`; `SignalsHandled` (TERM ends the server, children are reaped) |
| `tlpi` | transfer of up to 4 blocks of 1 or 2 bytes with reads and writes that may fail; 3 threads; 4 children; sequence numbers for 3 clients of which one may be killed; files of up to 2 messages for 2 clients of which one may go away, queues of one message | `SegmentExclusive`, `ReaderFinished`, refinement of `BlockTransfer`; `DeathsKnown` (termination marks are true, no death is lost); `AnswersRight` (bytes agree, numbers are disjoint, files are whole); `ProgramsEnd` |
| `svshm_killed` | one block, one kill | a counterexample to `ReaderFinished` |
| `joinany_late` | 3 threads, late reads of the index | a counterexample to `StateIsTrue` |
| `rust` | the program of `main` of mini_tokio, an executor late twice; a vector of up to 4 elements, which grows three times; 2 DNS clients over six arrangements of zones, one datagram lost and one duplicated | `NoLostWakeup`; `PromptNeverPanics`; `AnswersRight` (the right address or the right refusal); `CallsEnd`; the vector implements `OwnedSequence` |
| `mini_tokio_stale` | late once | a counterexample to `NeverPolledAfterCompletion` |
| `texts` | HTTP streams of 7 bytes in pieces of up to 3; requests over 2 connections in pieces of up to 4; 7000 packets, in 80 and in 512 bytes; 97000 buffers of names; 45000 expressions; 76000 JSON texts; 14 code points; streams of up to six bytes for each of five readers; 1300 framed messages with lengths up to one more than two bytes can hold, and 578 pairs of WebSocket frames of up to 65536 bytes, cut in front of, behind and inside each | `ChunksDoNotMatter`, `ConnectionsAnswered` (the answer is that of the whole stream); `LinesTaken` (each byte once and in order); `ValuesRight` (texts of the grammar, code points, the string of a value); `FramesReadBack` (frames are read as they were written, and what becomes of those at the limit of two bytes); `WrittenIsRead` (packets, names, trees) |

*Why the bounds are enough.*  Two threads on each side and a ring shorter than
the number of items make every wait, every wrap and every lost race of the
queues happen; a third reader lets one read while another waits behind a
writer.  Three rounds of a barrier are the least in which a thread of the next
round meets one of the last and is itself met by the one after.  Two callers and
two places make the pool refuse, and of two workers one waits for the mutex the
other has kept.  A pool of two processes has one that is known first and one that
must be taken when it dies; two connections are the least that can be merged into one event,
two deaths the least that can be merged into one SIGCHLD, and three children the
least of which one may die while the first two are reaped.  Two chat users are
enough for the last entry to be moved over the one that leaves; with three users
`UsersTable` holds as well (5.8 million states, too many for the liveness
properties).  Two descriptors make the kernel give one again while the list
still names its last user.  Three clients of the sequence number server are one
that is killed, one that is served before it and one after.
Seven bytes hold a request line, its CRLF, the CRLF that ends the headers and
one byte more, and pieces of one to three bytes cut them everywhere; the buffer
of the HTTP connection has ten bytes, so that a request fills it exactly or does
not fit.  Lines of three bytes are shorter than, as long as and longer than the
room.  Four elements make the vector grow from no memory to one, two and four
cells, and shift cells both ways past one that stays.
A `BOUND` of 80 bytes lets packets run out of room, and the 512 of the code lets
labels be longer than a byte can tell; a `Base` of 4 in place of 256 makes a length
of two digits, or the length of a buffer, overflow after 16 bytes.
The six arrangements of zones have a referral with addresses, without, with some,
to a host that does not exist, to one that can only be found through itself, and
a server whose replies cannot be parsed.

*Deadlock* is checked except where a program may stop for good in the model:
the servers end or wait for clients that need not come, calls of FIFOBBQ and of
the thread pool are stranded, and the programs of `tlpi` stop when they have
failed.  Elsewhere the end of the program is an action that changes nothing
(`exited`, `gone`, `quiet`).

*Bounds in the modules*: `Calls`, `Rounds`, `Appends`, `loops` and `Programs`
(calls of each thread), `Worlds` (what clients, operators and crashes do to the
pool), `MaxBacklog` (clients waiting), `MaxConnections`, `MaxBlocks`, `MaxKills`,
`MaxKilledClients`, `MaxGone`, `MaxFile`, `QueueSize`, `MaxLate`, `MaxLost`,
`MaxCopies`, `MaxDepth` (calls of the resolver within each other), `BUFFER_SIZE`,
`READ_BUFFER_SIZE`, `MaxChunk` and `MaxPiece`.  Counters that the code lets grow
(`nextEmpty`, positions, `seqNum`) are bounded by the number of calls; that an
`int` overflows after 2^31 of them is not modelled.

## 5. Fairness

- OSPP: weak fairness of each thread's steps.  Each thread makes finitely many
  calls, so the mutex is not contended for for ever and whoever wants it gets
  it.  Spurious wake-ups are never owed: nothing relies on them.  The same holds
  for callers and workers of ThreadPool, and for main, the child and each thread
  of ThreadPrograms.
- ProcessPool: parent and workers run, CGI programs end (the worker waits for
  them in `waitpid`, so the code relies on it).  Clients, operators and crashes
  are owed nothing.  `AllServed` and `ParentStops` are claimed where clients
  and signals come one at a time (`Calm`).
- TimedServer: time passes, a signal that is pending is delivered, the server
  runs.  ChatServer: the server runs, clients do as they like.
- EpollChat: the server runs.  `HeardAgain` assumes that recv comes to EAGAIN
  at last: a client that talks without a pause keeps the server in its loop.
  `PlacesFreed` is claimed once the clients are quiet.
- EpollServers: main and each thread run, and a signal that was sent is
  handled; finitely many are sent.  EchoServers: the loop, or the parent with
  its handler.  OneConnection: the program.  No client is owed anything.
- SvshmTransfer: both programs run and are not killed.  JoinAny: strong
  fairness of main and each thread, since both contend for `threadMutex` and
  finitely often.  SigchldReaper: the parent runs and each child ends.
- SequenceNumbers: the server and each client that is not killed run.
  MessageServer: the parent and the children run, and a client takes what is in
  its queue until it goes away.
- MiniTokio: the executor and timer threads run and the clock goes on.
  DnsResolver: the resolver runs and the name servers answer; that a datagram
  arrives is not owed, and `QueriesAnswered` is claimed when none was lost or
  came twice and the names that are asked for can be found.

## 6. What is proved

Seven modules `..._proofs`, and SequenceNumbers itself, hold the theorems.  The
assumptions are those of the modules (`ThreadsAssumption`, `FIFOBBQAssumption`,
`CallsAssumption`, `HttpAssumption`, `LinesAssumption`,
`ValuesAssumption`, `FramesAssumption`, `XorAssumption`, `TransferAssumption`,
`PoolAssumption`, and the ones named below), which say what kind of value a constant is or what the
code at the lines they give sees to, or stand in the theorem.  Every invariant of
the runs `rwlock`, `threads`, `servers`, `sockets`, `tlpi` and `rust` is a theorem,
and five of the six of `texts` are, and so is every refinement; of most runs the
theorem says it of all programs of the run, that is of `MCSpec`, or of `TextSpec`,
the part of it that can be reasoned about.

| property | theorem | for every |
|---|---|---|
| `Exclusion`, `NoLostWakeup`, `ImplementsReadersWriters` | RWLock_proofs `MutualExclusion`, `NoThreadForgotten`, `Refinement` | finite set of threads |
| `NobodyStranded`, `CVIsQueue` | Threads_proofs `NobodyIsStranded`, `CVQueueRefines` | threads, calls, capacity |
| `CallOrder`, `NoDanglingCond`, `ImplementsBoundedQueue` | Threads_proofs `ServedInOrder`, `NothingDangles`, `FIFORefinement` | threads, calls, capacity |
| `NobodyAhead`, `CountsRight` | Threads_proofs `NobodyIsAhead`, `CountsAreRight` | threads and rounds; workers, requests, increments |
| `DeathNoticed`, `PoolExact`, `TablesTrue` | Servers_proofs `DeathsAreNoticed`, `PoolIsExact`, `TablesAreTrue` | workers, worlds, descriptors, `TIMESLOT`, `USER_LIMIT` |
| `TablesExact`, `EventsTrue`, `UrgentTaken` | Sockets_proofs `TablesExactHolds`, `EventsTrueHolds`, `UrgentTakenHolds` | finite set of descriptors, limits |
| `SegmentExclusive`, `ReaderFinished`, `ImplementsTransfer` | TLPI_proofs `TurnsExclude`, `DeletedLast`, `Refinement` | blocks and inputs of any length |
| `DeathsKnown`, `AnswersRight` (of `tlpi`) | TLPI_proofs `DeathsAreKnown`, `AnswersAreRight` | threads, children, clients, files |
| `ImplementsSequence` | Rust_proofs `Refinement` | elements |
| `NoLostWakeup`, `PromptNeverPanics` (of `rust`) | Rust_proofs `NoTaskHangs`, `PromptIsSafe` | program of tasks |
| `AnswersRight` (of `rust`) | Rust_proofs `AnswersAreTrue` | zones, names, clients, depth of the calls |
| `ChunksDoNotMatter`, `ConnectionsAnswered` | Text_proofs `PiecesMakeNoDifference`, `PiecesDoNotMatter` | size of the buffer, requests, pieces |
| `LinesTaken` | Text_proofs `EveryByteOnce` | stream, room of the caller, buffer, pieces and failures |
| `ValuesRight` | Text_proofs `TextsRead` | text, set of numbers that are too big, code point, calls on a value |
| `FramesReadBack` | Text_proofs `FramesRead` | `Base`, payloads up to one byte more than two bytes can tell and what stands around them, cuts, masks; lengths below 2^32 for WebSocket |

*RWLock_proofs*, for every finite set of threads.  Exclusion is not inductive: a
counter that was wrong would let a second writer in.  The inductive invariant
`IInv` says that each thread is at a place of the code (`PcOK`), that each
counter is the number of threads at the place it counts (`Counts`), that only
threads inside the wait loops are blocked (`Blocked`), that there is at most one
active writer and then no active reader (`OneSide`), and `NoLostWakeup`.  One
lemma per action shows that it preserves `IInv`; cardinalities change by one
because a thread leaves one set and joins another (`GotoMoves`).  With the modes
of the threads as the refinement mapping, the lock implements `ReadersWriters`:
the tests on counters mean what the abstract guards say about threads
(`TestsMeanModes`).

*Threads_proofs, the queue with two conditions*.  Two positions less than MAX
apart have different slots (`SlotsDistinct`), so an insert does not touch what is
still to be removed.  The invariant `CVInv` bounds `nextEmpty - front`, says that
nobody is blocked on a condition that holds, and that an item is carried exactly
during an insert; the queue is the slots from `front` to `nextEmpty`.

*Threads_proofs, the queue in call order*, with and without spurious wake-ups.
Positions of waiting calls are distinct and between the number of calls served
and the number made (`InOrder`), so whoever goes on does so at its turn.
`NoDanglingCond` needs besides that the lists are increasing and that the owner
of every listed condition is blocked on it (`Listed`), so that a condition that
is taken out has an owner, and is not in the list twice.  The refinement needs
only the ring (`RingInv`: the counters are at most its size apart, and a thread
carries an item exactly during an insert); one lemma for each operation says what
it does to the sequence of the slots in use.

*Threads_proofs, the barrier*.  `NobodyAhead` says nothing of the two counters,
which decide who goes on.  The invariant says that the barrier is in some round
`r`, and either gathers (`numEntered` is the number of threads in the first wait,
and each thread has yet to come, is there, or is a straggler of the round before,
who finds `numLeaving` full) or is being left (`numLeaving` is the number of
threads in the second wait, and all have come).  The step that matters is the one
that changes sides: the last thread to leave makes stragglers of the others, and
the next one to come may find them still inside.

*Threads_proofs, the pool and the small programs*.  `TokensMatch` becomes
inductive with the places of callers and workers and with who has the mutex; an
actor that moves changes a number by what it leaves and comes to (`MoveCounts`).
`SmallInv` has a part for each program.  The one that needs thought is the
program without a mutex (`Racy`): `glob` ends at two or more, however stores
overwrite each other, because what a thread is about to store is at least two
once it has stored before.  That is false for a single increment, hence
`loops >= 2` (the program's default is 10000000); two threads are what these
programs make (`TwoThreads`).

*Servers_proofs, the pool*.  Three invariants beside the values of the variables.
`DeathInv` follows a SIGCHLD from the worker that died to the loop of waitpid;
it needs only that bytes are read where they are handled.  `StopInv` lists, for
a world in which signals come one at a time, everything that can be on its way to
the parent (`OneByOne`): nothing, TERM alone, or CHLD with exactly one dead
worker.  From this it follows what `m_stop`, which TERM and the loop of waitpid
both set, says when the parent waits.  Without `spaced` it is false (section 7).
`NoticeInv` counts notices as a finite set, so that each action adds or takes one
(`OneMore`, `OneLess`).

*Servers_proofs, the tables*.  `OneTimerEach` and `UsersTable` are inductive as
they stand; the work is in what the operations do to the list.  `TimerAdded` says
where `add_timer` puts a timer and that the list stays in order there;
`TimersTaken` that `tick` takes a prefix; `LeaveKeeps` that the entry moved over
the one that leaves is not lost and not there twice.  Least elements and free
descriptors are lemmas about finite sets (`LeastNatural`, `PlaceForOne`).  The
chat room needs as many descriptors as users (`ChatAssumption`, 9/7.cpp:21, 25).

*Sockets_proofs*.  `ChatInv`: `user_counter` is the number of connections.
`ServersInv`: the events of a batch are distinct (`EventsOnce`), an event of the
listening socket has a connection behind it (`BacklogTold`), and what may start,
or is, a thread for a descriptor (armed, reported, created, receiving, re-arming)
is one thing in sum (`OneTurn`); `OneReader` alone says nothing of an armed
descriptor whose event is still in the batch.  `EchoInv`: `TableTrue` with the
free places, of which there is one as long as there is a descriptor
(`FreePlace`), so that the search for a place finds it.  `OneInv`: an urgent byte
that is announced, or has come and may still be taken, has its signal pending, or
the handler runs; one the handler has asked for in vain is no such byte any more,
and `UrgentTaken` says nothing of it.

*TLPI_proofs, the transfer*, while the writer is not killed.  The invariant
follows the one turn there is: not yet made (`Setup`), in a semaphore
(`WriterMay`, `ReaderMay`), with a program (`Writing`, `Reading`), or used up
(`Cleaning`); each action takes it from one of these to the next.  `BytesCounted`
adds to what each end has counted the block it has still to count.

*TLPI_proofs, the other programs*.  `JoinInv`: a thread that has read its index
has its own, one that has not is the last one made, which needs `ReadsInTime`;
without it the property is false (section 7).  `ReapInv` is `NoLostDeath`.
`FilesInv`: what a client has, with what is in its queue and what its child has
still to read, is always its whole file (`SentSoFar`, `LeftToRead`), each request
is in the server's queue once, and its child is not started before.
`NumbersDisjoint` is `NoNumberTwice` of *SequenceNumbers*: everything given out is
below `seqNum` (`Below`), and clients that are killed disturb nothing.

*Rust_proofs, the vector*.  The bounds in use stay inside the memory and every
cell between them has been written (`IInv`, `MemorySafe`), which makes each shift
of cells (`InsertPuts`, `RemoveTakes`) and each reallocation (`Grown`) the step of
the sequence it is meant to be.  The step of `next_back` that misreads (section 7)
is the one exception the refinement names.

*Rust_proofs, the executor*.  `WakeInv`: a delay that has a waker and is not over
has a timer thread, and only the task that is polled has a delay without a waker.
`PromptInv` (`OnTime`): as long as the executor was never late a task is in one
place at most, the channel, a timer thread or the poll (`Places`), its timer
cannot fire while it is polled, and a task in the channel finds its delay over
(`Times`).  The program may be any in which a task is spawned by one statement at
most (`SpawnAssumption`) and no delay is zero (`DelayAssumption`), as in `main`.

*Rust_proofs, the resolver*, as long as no datagram came twice.  What is on the
net belongs to the call at the top (`NetTrue`), and what a packet says of a name
is what the zones say (`CallsTrue`): no answer is wrong.  That a name which can be
found is answered needs that its servers are never ones that refuse it.
`Leads(names)` says of a set of names that all servers above them are glued or in
the set; `CallsLead`, that from a call for such a name the resolver only makes
calls for such names, to servers that have a zone above them.  `Found` of the
model, a union of rounds, is such a set (`FoundLeads`): the rounds are applications
of one function, and more of them than there are zones add nothing
(`Iterates`, `FoundUnfolds`, by induction on the measure of the name).
`ZonesAssumption` says that zones are well formed: names have lengths, glue has
addresses, and no host's address is the value that stands for none.

*Text_proofs, the HTTP parsers*.  Both properties compare the answer with the one a
reader of the whole stream would give: the lines are what stands between the CRLFs in front of
the first CR or LF that is part of none.  Neither is inductive.  The invariants
`ParserInv` and `ConnInv` say how far the parser has come: the CRLFs behind it are
its complete lines (`Done`, `ConnDone`), with nothing stray among them; between
the start of the line and the index there is neither CR nor LF (`LinesEnd`); and
what has been decided is what those lines say (`Parsing`, `HeadersRead`).  What
another piece adds cannot change them (`recvKeeps`, `LinesStay`), and `LineFound`
says that the next line found is the next line of the stream.  A program that
waits has taken every line there is (`Stuck`).  `8/1.cpp` overwrites the ends of
lines, and `Overwritten` says exactly where, since it looks back at the byte in
front of an LF.  Of the connection everything is said of its first one
(`connections = 1`), as in the property: the next begins with what it has left.

*Text_proofs, the line readers*.  `TakenInOrder` says where every byte is, but of
the call in progress nothing; `LinesInv` adds it: no newline has been taken yet by
a reader of lines, there is still room (for `readLine` until the room is full: then
`text` stays a prefix of what is taken), and only `readline` has anything in
`read_buf` (`InCall`, `Kept`).  A step moves bytes from one place to the next
(`ByteMoved`, `Divided`), and `putKeeps` follows the three ways a byte may end the
call.

*Text_proofs, tinyjson*.  `parse_string` is a recursive function on the positions
of the text, whose value depends on positions behind it.  That such a function
exists is itself proved (`Downward`, `ReadExists`: from the end, one position more
at a time), and then what it computes (`StringRead`).  `StringOutcome` says where
it stops, `StringEnds` that this is the first quotation mark no backslash takes,
which is what the grammar (`IsString`) says of the backslashes by a set of
positions.  A number is cut into its parts in the same way the grammar cuts it
(`ScannedParts`, `PartsScanned`), so that both name the same end (`NumberValue`).
`ValueAgrees` is about a value, `TextRead` about the white space around it.
`Encoded` is division by 64, up to three times.

*Text_proofs, the codecs*.  In MyFrame the frames of no length that are passed over
are as many as were put in front, and no more while the message is cut (`PassedIs`);
then the first bytes are its length (`FrameDecoded`), in base `Base` (`TwoBytes`).
What decode sees of the length of the buffer is a remainder (`Remainder`,
`Quotient`), which a frame can be cut at as well (`FrameCut`), and the sum
`2 + length` wraps for the two longest frames (`Wrapped`).  `FrameRead` says that
`decode_message` reads a frame as it was sent if all of it is there and is an error
otherwise, for each of the three forms of the length (`LengthIs`: eight bytes, of
which a length below 2^32 leaves four zero); `XorBack` that the mask comes off.
`handle_connection` is a recursive function again (`Handled`), which
`FramesArePrinted` unfolds for two frames.

*Model-checked only.*  Liveness, everywhere: `MainReturns`, `AllCallsReturn`,
`ThreadsReturn`, `PoolStops`, `AllServed`, `UsersServed`, `ConnectionsServed`,
`SignalsHandled`, `ProgramsEnd`, `CallsEnd`; the proof system does not reason
about ENABLED, on which weak fairness rests.  And of the run `texts`
`WrittenIsRead`: DnsPacket and PrattParsing call themselves on
data that grow with each call (names that share endings with earlier names, trees),
are RECURSIVE operators, and their properties are inductions over those data.

## 7. What the runs found

- `fifobbq_stranded`: with two inserters the FIFO queue may leave one asleep
  for ever beside a queue with room.  A removal pops the oldest waiting
  condition and broadcasts it once; an inserter that was woken before its turn
  (`ThreadSafeBoundedQueue_FIFO.cpp:48`) waits again on a condition that is in
  no list any more.  The test program, with one thread on each side, is safe.
- `svshm_killed`: a writer killed and started again initialises semaphores its
  reader still uses, takes the reader's old turn for the last one, and deletes
  the objects while the reader is in its loop; the comment at line 38 says the
  reader has then finished.
- `joinany_late`: a thread that reads its index through the address of main's
  loop variable after main has gone on marks a thread that is alive as
  terminated; main joins it holding the mutex it needs.
- `mini_tokio_stale`: a poll that takes as long as the delay starts the timer
  thread and then returns Ready; the task completes, the timer still schedules
  it, and the executor polls a completed future, which panics.

Other things a reader of the properties should know.

Threads:

- The RWLock starves readers while writers keep coming: writer preference.
- `Barrier` never initialises `allLeavingCond`; the only Barrier of the
  repository is a static object, whose zero bytes are a valid condition
  variable, and the model takes it as one.  `6_2_Barrier.cpp` also joins two
  threads it has not created; the model is of the class.
- A worker of the thread pool never unlocks the queue it has taken a request
  from (`3_threadpool.h:94`): `AppendsReturn` and `ThreadsReturn` say that this
  is the only way to be stuck.  `request.process()` on a pointer does not compile,
  so nobody has seen it.  That sem_wait is interrupted by a handler is not modelled:
  the pool installs none.
- `30/1` loses increments and `31/2` shows the other thread's text, as they are
  meant to; `32/2` signals without the mutex; `14/3` may destroy a mutex that is
  held (line 63) and leaves it locked in the child.  `EndsRight` says what is
  right in spite of that.

Servers:

- `StopExact` and `ParentStops` hold only when signals come one at a time: a SIGCHLD
  byte whose workers were reaped with an earlier byte sets `m_stop` and finds nobody
  to clear it, and the parent stops while workers live; two workers reaped for one
  byte leave a parent that goes on with none, and one that finds no worker leaves
  the batch (240) with the bytes of the signal pipe, which epoll does not report
  again.  All of it happens in the model where signals overlap.
- Of several connections that reach the pool before `epoll_wait`, one is
  announced; the others wait for the next client, which is why `AllServed` is claimed
  for clients that come one at a time.
- A worker that dies between fork and `addsig(SIGCHLD)` is never reported
  (`unseen`).  A CGI program that cannot be executed leaves a second copy of the
  worker with the same epoll descriptor (`2_cgi_conn.cpp:77`), and a request in
  two segments loses the first (line 24): these are outcomes of `process` that
  the model of the pool does not have.
- The functions of `2_lst_timer.h` that no program calls in that way:
  `ajust_timer` cuts the list, `del_timer` passes over timers in its middle.
- In both chat rooms a connection that was reset may keep its place: in `9/7.cpp`
  for ever, because POLLERR is tested before POLLRDHUP and only printed; a send
  after a reset may end the server by SIGPIPE (`killed`); and a message that is
  overwritten in its sender's buffer before the others have sent it is lost.
- `9/7_epoll.cpp` reads `user_fds` one entry too far and never takes anybody out:
  the descriptor it finds there may be anything, the listening socket too, which
  is then no longer watched (`deaf`).
- SIGURG announces the urgent byte and may come before it.  The handler of
  `10/3.cpp` then asks in vain (58), does not look at what recv returned, and there
  is no second SIGURG: the byte is lost when recv passes over it.  `UrgentTaken` is
  about the bytes that are there when the handler asks.
- What a client sent before it reset the connection may be read, or may be gone
  (EpollChat, EchoServers).  The set `strcliselect01` hands to select is never
  cleared at first: bits left in it make select return with nothing to do.
- `10/3_copy.cpp:139` takes the urgent byte with a size of `sizeof` of a pointer
  and without MSG_OOB: it reads other bytes, and `UrgentTaken` is about `10/3.cpp`.
- `tcpserv01` waits once for each SIGCHLD and keeps zombies; `ChildrenReaped`
  claims only of `tcpserv04` that there are none.
- A request line with a stray CR or LF is never answered by `8/1.cpp`: the bad
  line ends the parser with the result of an incomplete one.
- `4_http_conn.h` takes "keep-alive" for its opposite (384), sets no descriptor
  non-blocking (184 lacks it), does not call the second `init` for a new
  connection (226), and refuses a request that fills its buffer exactly.  The
  constructor (161) sets no field and `init()` is not called for the first connection
  either: the model, and `ConnectionsAnswered`, are of an object with static storage,
  whose fields are zero, and of an object with other bytes in them nothing can be
  said.  Negative and large Content-Length values, and the NUL written behind the
  content (412), are left out.

TLPI and Rust:

- The FIFO server of `44/7` waits in open for a client that was killed, and then
  answers nobody (line 34); `ClientsAnswered` excludes this server.
- `MyIntoIter::next_back` moves `end` back and reads the element at `start`
  (`intoiter.rs:41-42`): with two or more elements left the first one gets a
  second owner and the last one none.  No document of the repository says what
  it should do, so no run is about it; in `MyVec` the behaviour ends there.
- The comment in `mini_tokio.rs:36-38` wants "world" printed after "hello"; with
  the delays of the program "world 1" comes after 1111 ms and "hello" after 2222.
- In `my_dns` a record of an unknown type is counted in the header and not
  written, the root name gets one zero byte too many, the dot after a jump is
  forgotten, and each jump counts twice.  The length of a label is cut to a byte
  before it is compared with 63, so that one of 256 to 319 bytes is written with
  the length of a shorter one; the opcode is put over the flags as it is, and an
  opcode that is not in its four bits sets flags or is lost; `PacketRoundTrip` says
  that the packets that are read back as they were are exactly those without such
  labels and opcodes.  `checking_disabled` and `authed_data` are neither written
  nor read.  The old reader of names makes capital letters small, the new one does
  not.  `get_ns` takes a zone for one above a name if its text ends like the name
  ("a.com" for "noa.com"), which matters only for a reply to another question.
- Every lookup of the DNS server has the same id and port and waits for ever: a
  datagram that comes twice or late is taken for the answer to the next question,
  and zones that need each other's servers make it call itself without end.
- `decode_encode.rs` returns a frame without taking it from the buffer (65), so
  the properties are about the first frame; it does not decode a frame with a
  payload of less than two bytes before five bytes are there (43); the comment in
  line 8 has four bytes of length where the code has two.  The length of the buffer
  is taken in two bytes (31): at each 64 KiB decode sees nothing of what is there.
  `2 + length` wraps for payloads of 65533 and 65534 bytes (51): with overflow
  checks `encode` has panicked, and `decode` does if they come from elsewhere;
  without them the frame passes for complete after five bytes, and the slice of
  line 61 panics until it is.  One byte more, and the frame has a length of 0, or
  `payload_len + 1` panics; the test in line 77 is never true.  `FirstDecoded` says
  all of this; of still longer payloads it says nothing.
- tinyjson lets an escape fall through after writing it, keeps the string of a
  text that has more behind its value (ROOT_NOT_SINGULAR), and calls
  `lept_context_push`, which nothing defines, so that it does not link; the model
  takes it for `tjson_context_push`.

## 8. What could follow

- DnsPacket and PrattParsing with recursive functions in place of RECURSIVE
  operators, as StreamReaders and TinyJson have them, and proofs that lean on
  `Downward`: that a packet is read as it was written, and that a tree is read
  from its text.
- More than two WebSocket frames in `FramesPrinted`.
- Abstract specifications of the chat room (a set of users and what each has
  yet to be sent) and of the resolver (which knows the zones), and the refinement
  of each: the invariants of section 6 are what such a proof starts from.
- A second run of `servers` with three users and of `sockets` with three
  descriptors, without the liveness properties.

New programs join the run of their kind by the choice at the beginning described
in section 2.
