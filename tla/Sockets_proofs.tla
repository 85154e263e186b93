--------------------------- MODULE Sockets_proofs ---------------------------
(***************************************************************************)
(* The servers and clients around sockets keep their tables, their counts  *)
(* and their turns, whatever the number of connections: the invariants of  *)
(* EpollChat, EpollServers, EchoServers and OneConnection, and from them   *)
(* those of MCSockets, of which each behavior is one of these programs.    *)
(***************************************************************************)
EXTENDS MCSockets, SequenceTheorems, FiniteSetTheorems, TLAPS


(* A finite set of integers that is not empty has a least element, by which  *)
(* accept chooses the descriptor.  A smallest set without one would lose     *)
(* that property with any of its elements.                                   *)
LEMMA LeastExists ==
  ASSUME NEW S \in SUBSET Int, IsFiniteSet(S), S # {}
  PROVE  \E x \in S : \A y \in S : x <= y
<1> DEFINE HasLeast(T) == \E x \in T : \A y \in T : x <= y
           Bad == {T \in SUBSET S : T # {} /\ ~HasLeast(T)}
<1>1. SUFFICES ASSUME Bad # {} PROVE FALSE
  <2>1. Bad = {}
    BY <1>1
  <2> QED
    BY <2>1
<1>2. IsWellFoundedOn(StrictSubsetOrdering(S), SUBSET S)
  BY FS_StrictSubsetOrderingWellFounded, FS_FiniteSubsetsOfFinite
<1>3. PICK T \in Bad : \A U \in Bad : ~(<<U, T>> \in StrictSubsetOrdering(S))
  <2>1. Bad \subseteq SUBSET S
    OBVIOUS
  <2> HIDE DEF Bad
  <2> QED
    BY <1>1, <1>2, <2>1, WFMin
<1>4. PICK x \in T : TRUE
  OBVIOUS
<1>5. CASE T = {x}
  <2>1. HasLeast(T)
    BY <1>5
  <2> QED
    BY <1>3, <2>1
<1>6. CASE T # {x}
  <2> DEFINE U == T \ {x}
  <2>1. U \in SUBSET S /\ U # {} /\ U # T /\ U \subseteq T
    BY <1>4, <1>6
  <2>2. <<U, T>> \in StrictSubsetOrdering(S)
    BY <2>1 DEF StrictSubsetOrdering
  <2>3. HasLeast(U)
    BY <1>3, <2>1, <2>2
  <2>4. PICK m \in U : \A y \in U : m <= y
    BY <2>3
  <2>5. m \in Int /\ x \in Int /\ \A y \in T : y \in U \/ y = x
    BY <1>4
  <2>6. HasLeast(T)
    <3>1. CASE m <= x
      BY <2>4, <2>5, <3>1
    <3>2. CASE ~(m <= x)
      <4>1. \A y \in T : y \in Int
        OBVIOUS
      <4>2. \A y \in T : x <= y
        BY <2>4, <2>5, <3>2, <4>1
      <4> QED
        BY <1>4, <4>2
    <3> QED
      BY <3>1, <3>2
  <2> QED
    BY <1>3, <2>6
<1> QED
  BY <1>5, <1>6

-----------------------------------------------------------------------------

(* The instances count with operators of their own, which are the same.      *)
LEMMA SameCardinality ==
  ASSUME NEW S
  PROVE  /\ Chat!Cardinality(S) = Cardinality(S)
         /\ Servers!Cardinality(S) = Cardinality(S)
         /\ Echo!Cardinality(S) = Cardinality(S)
BY Zenon DEF Chat!Cardinality, Servers!Cardinality, Echo!Cardinality, Cardinality

SockStates == {"free", "open", "fin", "reset"}
SockType == sock \in [Fds -> SockStates]
OpenFds == {fd \in Fds : sock[fd] # "free"}

(* The descriptor accept returns is a free one: not all of them are open.    *)
LEMMA FreeDescriptor ==
  ASSUME SockType, Cardinality(OpenFds) < Cardinality(Fds)
  PROVE  LET connfd == Chat!Min({fd \in Fds : sock[fd] = "free"})
         IN connfd \in Fds /\ sock[connfd] = "free"
<1> DEFINE F == {fd \in Fds : sock[fd] = "free"}
<1>1. F # {}
  <2> SUFFICES ASSUME F = {} PROVE FALSE
    OBVIOUS
  <2>1. OpenFds = Fds
    BY DEF OpenFds
  <2> QED
    BY <2>1, FdsAssumption, FS_CardinalityType
<1>2. F \subseteq Fds /\ Fds \subseteq Int /\ IsFiniteSet(Fds)
  BY FdsAssumption
<1>3. \E x \in F : \A y \in F : x <= y
  <2>1. IsFiniteSet(F)
    BY <1>2, FS_Subset
  <2> QED
    BY <1>1, <1>2, <2>1, LeastExists
<1>4. Chat!Min(F) \in F
  <2> HIDE DEF F
  <2> QED
    BY <1>3 DEF Chat!Min
<1> QED
  BY <1>4

(* How many connections are open after one more is accepted, after one of    *)
(* them is closed, and after a client has done something to one.             *)
LEMMA OpenCounts ==
  ASSUME SockType, NEW fd \in Fds, NEW s \in SockStates,
         sock' = [sock EXCEPT ![fd] = s]
  PROVE  /\ SockType'
         /\ Cardinality(OpenFds) \in Nat /\ Cardinality(OpenFds)' \in Nat
         /\ sock[fd] = "free" /\ s # "free" =>
               /\ OpenFds' = OpenFds \cup {fd}
               /\ Cardinality(OpenFds)' = Cardinality(OpenFds) + 1
         /\ sock[fd] # "free" /\ s = "free" =>
               /\ OpenFds' = OpenFds \ {fd}
               /\ Cardinality(OpenFds)' = Cardinality(OpenFds) - 1
         /\ sock[fd] # "free" /\ s # "free" => OpenFds' = OpenFds
<1>1. SockType'
  BY DEF SockType
<1>2. IsFiniteSet(OpenFds) /\ IsFiniteSet(OpenFds)'
  <2>1. OpenFds \subseteq Fds /\ OpenFds' \subseteq Fds
    BY DEF OpenFds
  <2> QED
    BY <2>1, FdsAssumption, FS_Subset
<1>3. Cardinality(OpenFds) \in Nat /\ Cardinality(OpenFds)' \in Nat
  BY <1>2, FS_CardinalityType
<1>4. ASSUME sock[fd] = "free", s # "free"
      PROVE  /\ OpenFds' = OpenFds \cup {fd}
             /\ Cardinality(OpenFds)' = Cardinality(OpenFds) + 1
  <2>1. OpenFds' = OpenFds \cup {fd} /\ fd \notin OpenFds
    BY <1>4 DEF OpenFds, SockType
  <2> QED
    BY <1>2, <2>1, FS_AddElement
<1>5. ASSUME sock[fd] # "free", s = "free"
      PROVE  /\ OpenFds' = OpenFds \ {fd}
             /\ Cardinality(OpenFds)' = Cardinality(OpenFds) - 1
  <2>1. OpenFds' = OpenFds \ {fd} /\ fd \in OpenFds
    BY <1>5 DEF OpenFds, SockType
  <2> QED
    BY <1>2, <2>1, FS_RemoveElement
<1>6. ASSUME sock[fd] # "free", s # "free" PROVE OpenFds' = OpenFds
  BY <1>6 DEF OpenFds, SockType
<1> QED
  BY <1>1, <1>3, <1>4, <1>5, <1>6

LEMMA OpenUnchanged == sock' = sock => OpenFds' = OpenFds /\ (SockType <=> SockType')
BY DEF OpenFds, SockType

-----------------------------------------------------------------------------
(* The chat room with epoll: the counter is exact.                           *)
ChatInv ==
    /\ SockType
    /\ user_counter = Cardinality(OpenFds)
    /\ user_counter <= USER_LIMIT

LEMMA ChatStep == ChatInv /\ Chat!Next => ChatInv'
<1> SUFFICES ASSUME ChatInv, Chat!Next PROVE ChatInv'
  OBVIOUS
<1>0. /\ SockType /\ user_counter = Cardinality(OpenFds)
      /\ user_counter <= USER_LIMIT /\ USER_LIMIT \in Nat
  BY LimitAssumption DEF ChatInv
<1>1. CASE UNCHANGED <<sock, user_counter>>
  BY <1>1, OpenUnchanged DEF ChatInv
<1>2. ASSUME NEW fd \in Fds, NEW s \in SockStates, sock[fd] # "free", s # "free",
             sock' = [sock EXCEPT ![fd] = s], user_counter' = user_counter
      PROVE  ChatInv'
  BY <1>0, <1>2, OpenCounts DEF ChatInv
<1>3. CASE Chat!connect
  BY <1>1, <1>3 DEF Chat!connect
<1>4. ASSUME NEW fd \in Fds, Chat!say(fd) PROVE ChatInv'
  BY <1>1, <1>4 DEF Chat!say
<1>5. ASSUME NEW fd \in Fds, Chat!hangUp(fd) PROVE ChatInv'
  BY <1>2, <1>5 DEF Chat!hangUp, SockStates
<1>6. CASE Chat!epoll_wait
  BY <1>1, <1>6 DEF Chat!epoll_wait, Chat!network
<1>7. CASE Chat!accept
  <2>1. CASE backlog = 0 \/ user_counter >= USER_LIMIT
    BY <1>1, <1>7, <2>1 DEF Chat!accept
  <2>2. CASE ~(backlog = 0 \/ user_counter >= USER_LIMIT)
    <3> DEFINE connfd == Chat!Min({fd \in Fds : sock[fd] = "free"})
    <3>1. /\ sock' = [sock EXCEPT ![connfd] = "open"]
          /\ user_counter' = user_counter + 1
      BY <1>7, <2>2 DEF Chat!accept
    <3>2. user_counter \in Nat
      <4>1. OpenFds \subseteq Fds
        BY DEF OpenFds
      <4> QED
        BY <1>0, <4>1, FdsAssumption, FS_Subset, FS_CardinalityType
    <3>3. Cardinality(OpenFds) < Cardinality(Fds) /\ user_counter + 1 <= USER_LIMIT
      BY <1>0, <2>2, <3>2, LimitAssumption, FdsAssumption, FS_CardinalityType
    <3>4. connfd \in Fds /\ sock[connfd] = "free"
      BY <1>0, <3>3, FreeDescriptor
    <3>5. SockType' /\ Cardinality(OpenFds)' = Cardinality(OpenFds) + 1
      <4> HIDE DEF connfd
      <4>1. "open" \in SockStates /\ "open" # "free"
        BY DEF SockStates
      <4> QED
        BY <1>0, <3>1, <3>4, <4>1, OpenCounts
    <3> QED
      BY <1>0, <3>1, <3>3, <3>5 DEF ChatInv
  <2> QED
    BY <2>1, <2>2
<1>8. ASSUME NEW fd \in Fds, Chat!pollin(fd) PROVE ChatInv'
  <2>1. CASE Chat!recvText(fd)
    BY <1>1, <2>1 DEF Chat!recvText
  <2>2. CASE Chat!recvEnd(fd) /\ sock[fd] \in {"reset", "fin"}
    <3>1. "free" \in SockStates /\ sock[fd] # "free"
      BY <2>2 DEF SockStates
    <3>2. /\ SockType' /\ Cardinality(OpenFds)' = Cardinality(OpenFds) - 1
          /\ Cardinality(OpenFds) \in Nat
      BY <1>0, <2>2, <3>1, OpenCounts DEF Chat!recvEnd
    <3> QED
      BY <1>0, <2>2, <3>2 DEF ChatInv, Chat!recvEnd
  <2>3. CASE UNCHANGED <<sock, user_counter>>
    BY <1>1, <2>3
  <2> QED
    BY <1>8, <2>1, <2>2, <2>3 DEF Chat!pollin, Chat!network
<1>9. ASSUME NEW fd \in Fds, Chat!pollout(fd) PROVE ChatInv'
  BY <1>1, <1>2, <1>9 DEF Chat!pollout, SockStates
<1> QED
  BY <1>3, <1>4, <1>5, <1>6, <1>7, <1>8, <1>9 DEF Chat!Next, Chat!Server

-----------------------------------------------------------------------------
(* The servers with epoll.  Each event of listenfd, in the batch or still to *)
(* be reported, has a connection of its own that waits.                      *)
Queued(fd) == \E k \in DOMAIN events : events[k] = fd

ServersType ==
    /\ SockType
    /\ backlog \in Nat
    /\ events \in Seq(Int)
    /\ sockfd \in Int /\ started \in Nat
    /\ recving \in [Fds -> Nat] /\ rearming \in [Fds -> Nat]

EventsOnce == \A j, k \in DOMAIN events : events[j] = events[k] => j = k

BacklogTold ==
    /\ backlog + Cardinality(OpenFds) <= Cardinality(Fds)
    /\ 3 \in edge \/ Queued(3) => backlog > 0
    /\ 3 \in edge /\ Queued(3) => backlog > 1

(* What may start, or is, a thread that works on fd.  With EPOLLONESHOT there *)
(* is one of them at most, and none when fd is not open.                     *)
Held(fd) ==
    (IF fd \in armed THEN 1 ELSE 0) + (IF Queued(fd) THEN 1 ELSE 0)
    + (IF sockfd = fd THEN started ELSE 0) + recving[fd] + rearming[fd]

OneTurn ==
    /\ server # "oneshot" => \A fd \in Fds : recving[fd] + rearming[fd] = 0
    /\ server # "oneshot" => started = 0
    /\ server = "oneshot" /\ ~late =>
        /\ started <= 1
        /\ \A fd \in Fds : Held(fd) <= IF sock[fd] = "free" THEN 0 ELSE 1

ServersInv == ServersType /\ EventsOnce /\ BacklogTold /\ OneTurn

(* What the batch loses with its first event.                                *)
LEMMA BatchTail ==
  ASSUME events \in Seq(Int), EventsOnce, events # <<>>, events' = Tail(events)
  PROVE  /\ events' \in Seq(Int) /\ EventsOnce'
         /\ \A fd : Queued(fd)' <=> Queued(fd) /\ fd # Head(events)
<1>1. /\ Len(events) \in Nat \ {0} /\ DOMAIN events = 1 .. Len(events)
      /\ Head(events) = events[1]
      /\ DOMAIN events' = 1 .. Len(events) - 1
      /\ \A k \in 1 .. Len(events) - 1 : events'[k] = events[k + 1]
      /\ events' \in Seq(Int)
  OBVIOUS
<1>2. EventsOnce'
  BY <1>1 DEF EventsOnce
<1>3. ASSUME NEW fd PROVE Queued(fd)' <=> Queued(fd) /\ fd # Head(events)
  <2>1. ASSUME Queued(fd)' PROVE Queued(fd) /\ fd # Head(events)
    <3>1. PICK k \in 1 .. Len(events) - 1 : events'[k] = fd
      BY <1>1, <2>1 DEF Queued
    <3>2. k + 1 \in DOMAIN events /\ 1 \in DOMAIN events /\ k + 1 # 1
      BY <1>1
    <3> QED
      BY <1>1, <3>1, <3>2 DEF Queued, EventsOnce
  <2>2. ASSUME Queued(fd), fd # Head(events) PROVE Queued(fd)'
    <3>1. PICK k \in 1 .. Len(events) : events[k] = fd
      BY <1>1, <2>2 DEF Queued
    <3>2. k - 1 \in 1 .. Len(events) - 1
      BY <1>1, <2>2, <3>1
    <3>3. events'[k - 1] = fd
      BY <1>1, <3>1, <3>2
    <3> QED
      BY <1>1, <3>2, <3>3 DEF Queued
  <2> QED
    BY <2>1, <2>2
<1> QED
  BY <1>1, <1>2, <1>3

(* epoll_wait puts each descriptor that is ready into the batch once.        *)
LEMMA BatchFilled ==
  ASSUME NEW found \in SUBSET (Fds \cup {3, 4}), events' \in Servers!SetToSeqs(found)
  PROVE  /\ events' \in Seq(Int) /\ EventsOnce'
         /\ \A fd : Queued(fd)' => fd \in found
<1> DEFINE n == Cardinality(found)
<1>1. /\ events' \in [1 .. n -> found]
      /\ \A j, k \in 1 .. n : j # k => events'[j] # events'[k]
  BY SameCardinality, Zenon DEF Servers!SetToSeqs
<1>2. n \in Nat
  <2>1. IsFiniteSet(Fds \cup {3, 4})
    <3>1. IsFiniteSet((Fds \cup {3}) \cup {4})
      <4>1. IsFiniteSet(Fds \cup {3})
        BY FdsAssumption, FS_AddElement
      <4> QED
        BY <4>1, FS_AddElement
    <3>2. Fds \cup {3, 4} = (Fds \cup {3}) \cup {4}
      OBVIOUS
    <3> QED
      BY <3>1, <3>2
  <2> QED
    BY <2>1, FS_Subset, FS_CardinalityType
<1>3. found \subseteq Int
  <2> SUFFICES ASSUME NEW fd \in found PROVE fd \in Int
    OBVIOUS
  <2>1. fd \in Fds \/ fd = 3 \/ fd = 4
    OBVIOUS
  <2> QED
    BY <2>1, FdsAssumption
<1> HIDE DEF n
<1>4. DOMAIN events' = 1 .. n
  BY <1>1
<1>5. EventsOnce'
  BY <1>1, <1>4 DEF EventsOnce
<1>6. ASSUME NEW fd, Queued(fd)' PROVE fd \in found
  BY <1>1, <1>4, <1>6 DEF Queued
<1>7. events' \in Seq(Int)
  <2>1. events' \in [1 .. n -> Int]
    BY <1>1, <1>3
  <2> QED
    BY <1>2, <2>1, SeqDef
<1> QED
  BY <1>5, <1>6, <1>7

LEMMA QueueUnchanged == events' = events => \A fd : Queued(fd)' <=> Queued(fd)
BY DEF Queued

(* The clients and the signals only add news.                                *)
LEMMA ServersNews ==
  ASSUME ServersInv, UNCHANGED <<server, late, armed, events, sockfd, started, recving,
                                 rearming>>,
         SockType', OpenFds' = OpenFds, backlog' \in Nat,
         \/ backlog' = backlog /\ (3 \in edge' => 3 \in edge)
         \/ backlog' = backlog + 1 /\ backlog' + Cardinality(OpenFds) <= Cardinality(Fds)
  PROVE  ServersInv'
<1>1. ServersType' /\ EventsOnce'
  BY DEF ServersInv, ServersType, EventsOnce
<1>2. Cardinality(OpenFds) \in Nat /\ Cardinality(Fds) \in Nat
  <2>1. OpenFds \subseteq Fds
    BY DEF OpenFds
  <2> QED
    BY <2>1, FdsAssumption, FS_Subset, FS_CardinalityType
<1>3. BacklogTold'
  BY <1>2, QueueUnchanged DEF ServersInv, ServersType, BacklogTold
<1>4. \A fd \in Fds : sock[fd] = "free" <=> sock'[fd] = "free"
  BY DEF OpenFds
<1>5. OneTurn'
  BY <1>4, QueueUnchanged DEF ServersInv, OneTurn, Held
<1> QED
  BY <1>1, <1>3, <1>5 DEF ServersInv

LEMMA ServersClients ==
  ASSUME ServersInv,
         \/ Servers!connect
         \/ \E fd \in Fds : Servers!say(fd) \/ Servers!hangUp(fd)
         \/ \E sig \in Signals : Servers!kill(sig) \/ Servers!sig_handler(sig)
  PROVE  ServersInv'
<1>1. SockType /\ backlog \in Nat /\ \A fd \in Fds : fd # 3 /\ fd # 4
  BY FdsAssumption DEF ServersInv, ServersType
<1>2. CASE Servers!connect
  <2>1. Cardinality(OpenFds) = Servers!Cardinality(Servers!Open)
        /\ Cardinality(Fds) = Servers!Cardinality(Fds)
    BY SameCardinality DEF OpenFds, Servers!Open
  <2>2. Cardinality(OpenFds) \in Nat /\ Cardinality(Fds) \in Nat
    <3>1. OpenFds \subseteq Fds
      BY DEF OpenFds
    <3> QED
      BY <3>1, FdsAssumption, FS_Subset, FS_CardinalityType
  <2>3. /\ backlog' = backlog + 1 /\ backlog' \in Nat
        /\ backlog' + Cardinality(OpenFds) <= Cardinality(Fds)
    BY <1>1, <1>2, <2>1, <2>2 DEF Servers!connect
  <2> QED
    BY <1>1, <1>2, <2>3, OpenUnchanged, ServersNews
       DEF Servers!connect, Servers!threads
<1>3. ASSUME NEW fd \in Fds, Servers!say(fd) PROVE ServersInv'
  BY <1>1, <1>3, OpenUnchanged, ServersNews DEF Servers!say, Servers!threads
<1>4. ASSUME NEW fd \in Fds, Servers!hangUp(fd) PROVE ServersInv'
  <2>1. PICK s \in {"fin", "reset"} : sock' = [sock EXCEPT ![fd] = s]
    BY <1>4 DEF Servers!hangUp
  <2>2. s \in SockStates /\ s # "free" /\ sock[fd] # "free"
    BY <1>4 DEF Servers!hangUp, SockStates
  <2>3. SockType' /\ OpenFds' = OpenFds
    BY <1>1, <2>1, <2>2, OpenCounts
  <2> QED
    BY <1>1, <1>4, <2>3, ServersNews DEF Servers!hangUp, Servers!threads
<1>5. ASSUME NEW sig, Servers!kill(sig) PROVE ServersInv'
  BY <1>1, <1>5, OpenUnchanged, ServersNews DEF Servers!kill, Servers!threads
<1>6. ASSUME NEW sig, Servers!sig_handler(sig) PROVE ServersInv'
  BY <1>1, <1>6, OpenUnchanged, ServersNews
     DEF Servers!sig_handler, Servers!threads, Servers!pipefd
<1> QED
  BY <1>2, <1>3, <1>4, <1>5, <1>6

-----------------------------------------------------------------------------
LEMMA ServersWait ==
  ASSUME ServersInv, Servers!epoll_wait
  PROVE  ServersInv'
<1> DEFINE found == {fd \in Servers!Open : Servers!Reported(fd)}
                    \cup (edge \cap {Servers!listenfd, Servers!pipefd})
<1>1. /\ events = <<>> /\ events' \in Servers!SetToSeqs(found)
      /\ edge' = edge \ found /\ armed' = armed \ found
      /\ UNCHANGED <<server, late, backlog, sock, sockfd, started, recving, rearming>>
  BY DEF Servers!epoll_wait, Servers!threads
<1>2. /\ \A fd \in found : fd \in OpenFds \/ (fd \in edge /\ fd \in {3, 4})
      /\ server = "oneshot" => \A fd \in found \cap Fds : fd \in armed
      /\ found \in SUBSET (Fds \cup {3, 4})
  BY FdsAssumption DEF Servers!Open, OpenFds, Servers!Reported, Servers!listenfd, Servers!pipefd
<1> HIDE DEF found
<1>3. /\ events' \in Seq(Int) /\ EventsOnce' /\ \A fd : Queued(fd)' => fd \in found
      /\ \A fd : ~Queued(fd)
  BY <1>1, <1>2, BatchFilled DEF Queued
<1>4. ServersType' /\ OpenFds' = OpenFds
  BY <1>1, <1>3, OpenUnchanged DEF ServersInv, ServersType
<1>5. BacklogTold'
  <2>1. 3 \notin OpenFds
    BY FdsAssumption DEF OpenFds
  <2>2. 3 \in edge' => 3 \notin found
    BY <1>1
  <2>3. Queued(3)' => 3 \in edge
    BY <1>2, <1>3, <2>1
  <2> QED
    BY <1>1, <1>3, <1>4, <2>2, <2>3 DEF ServersInv, ServersType, BacklogTold
<1>6. OneTurn'
  <2>1. ASSUME NEW fd \in Fds, server = "oneshot", ~late
        PROVE  Held(fd)' <= IF sock'[fd] = "free" THEN 0 ELSE 1
    <3>1. Held(fd) <= (IF sock[fd] = "free" THEN 0 ELSE 1) /\ ~Queued(fd)
      BY <1>3, <2>1 DEF ServersInv, OneTurn
    <3>2. Queued(fd)' => fd \in armed /\ fd \notin armed'
      BY <1>1, <1>2, <1>3, <2>1
    <3>3. fd \in armed' => fd \in armed
      BY <1>1
    <3> QED
      BY <1>1, <3>1, <3>2, <3>3 DEF Held, ServersInv, ServersType
  <2> QED
    BY <1>1, <2>1 DEF ServersInv, OneTurn
<1> QED
  BY <1>3, <1>4, <1>5, <1>6 DEF ServersInv

(* One connection for one event.                                             *)
LEMMA ServersAccept ==
  ASSUME ServersInv, Servers!accept
  PROVE  ServersInv'
<1> DEFINE connfd == Servers!Min({fd \in Fds : sock[fd] = "free"})
<1>1. /\ sock' = [sock EXCEPT ![connfd] = "open"]
      /\ edge' = edge \ {connfd} /\ armed' = armed \cup {connfd}
      /\ backlog' = backlog - 1
      /\ events # <<>> /\ Head(events) = 3 /\ events' = Tail(events)
      /\ UNCHANGED <<server, late, sockfd, started, recving, rearming>>
  BY DEF Servers!accept, Servers!addfd, Servers!waiting, Servers!Handles,
         Servers!listenfd, Servers!threads
<1>2. /\ SockType /\ backlog \in Nat /\ events \in Seq(Int) /\ EventsOnce
      /\ BacklogTold
  BY DEF ServersInv, ServersType
<1>3. /\ events' \in Seq(Int) /\ EventsOnce'
      /\ \A fd : Queued(fd)' <=> Queued(fd) /\ fd # 3
  BY <1>1, <1>2, BatchTail
<1>4. Queued(3)
  <2>1. 1 \in DOMAIN events /\ events[1] = 3
    BY <1>1, <1>2
  <2> QED
    BY <2>1 DEF Queued
<1>5. /\ Cardinality(OpenFds) \in Nat /\ Cardinality(Fds) \in Nat
      /\ backlog > 0 /\ (3 \in edge => backlog > 1)
      /\ backlog + Cardinality(OpenFds) <= Cardinality(Fds)
  <2>1. OpenFds \subseteq Fds
    BY DEF OpenFds
  <2> QED
    BY <1>2, <1>4, <2>1, FdsAssumption, FS_Subset, FS_CardinalityType DEF BacklogTold
<1>6. connfd \in Fds /\ sock[connfd] = "free"
  <2>1. Cardinality(OpenFds) < Cardinality(Fds)
    BY <1>2, <1>5
  <2>2. connfd = Chat!Min({fd \in Fds : sock[fd] = "free"})
    BY DEF Chat!Min, Servers!Min
  <2> QED
    BY <1>2, <2>1, <2>2, FreeDescriptor
<1> HIDE DEF connfd
<1>7. SockType' /\ Cardinality(OpenFds)' = Cardinality(OpenFds) + 1
  <2>1. "open" \in SockStates /\ "open" # "free"
    BY DEF SockStates
  <2> QED
    BY <1>1, <1>2, <1>6, <2>1, OpenCounts
<1>8. ServersType'
  BY <1>1, <1>2, <1>3, <1>5, <1>7 DEF ServersInv, ServersType
<1>9. BacklogTold'
  <2>1. ~Queued(3)' /\ (3 \in edge' => 3 \in edge)
    BY <1>1, <1>3
  <2>2. backlog' + Cardinality(OpenFds)' <= Cardinality(Fds)
    BY <1>1, <1>2, <1>5, <1>7
  <2> QED
    BY <1>1, <1>2, <1>5, <2>1, <2>2 DEF BacklogTold
<1>10. OneTurn'
  <2>1. ASSUME NEW fd \in Fds, server = "oneshot", ~late
        PROVE  Held(fd)' <= IF sock'[fd] = "free" THEN 0 ELSE 1
    <3>1. Held(fd) <= IF sock[fd] = "free" THEN 0 ELSE 1
      BY <2>1 DEF ServersInv, OneTurn
    <3>2. Queued(fd)' => Queued(fd)
      BY <1>3
    <3>3. recving[fd] \in Nat /\ rearming[fd] \in Nat /\ started \in Nat
      BY DEF ServersInv, ServersType
    <3>4. CASE fd = connfd
      <4>1. sock'[fd] = "open" /\ Held(fd) <= 0
        BY <1>1, <1>2, <1>6, <3>1, <3>4 DEF SockType
      <4> QED
        BY <1>1, <3>2, <3>3, <4>1 DEF Held
    <3>5. CASE fd # connfd
      <4>1. sock'[fd] = sock[fd] /\ (fd \in armed' <=> fd \in armed)
        BY <1>1, <1>2, <3>5 DEF SockType
      <4> QED
        BY <1>1, <3>1, <3>2, <3>3, <4>1 DEF Held
    <3> QED
      BY <3>4, <3>5
  <2> QED
    BY <1>1, <2>1 DEF ServersInv, OneTurn
<1> QED
  BY <1>3, <1>8, <1>9, <1>10 DEF ServersInv

(* recv takes nothing from the other connections and nothing from listenfd.   *)
LEMMA ServersRecv ==
  ASSUME SockType, NEW fd \in Fds,
         Servers!recvText(fd) \/ Servers!recvEnd(fd) \/ Servers!recvNothing(fd)
  PROVE  /\ SockType' /\ Cardinality(OpenFds)' <= Cardinality(OpenFds)
         /\ Cardinality(OpenFds) \in Nat /\ Cardinality(OpenFds)' \in Nat
         /\ edge' \subseteq edge /\ armed' \subseteq armed
         /\ \A f \in Fds \ {fd} : sock'[f] = sock[f]
         /\ sock'[fd] = sock[fd] \/ (sock'[fd] = "free" /\ Servers!recvEnd(fd))
         /\ Servers!recvEnd(fd) => sock[fd] # "free" /\ fd \notin armed'
<1>1. CASE Servers!recvText(fd) \/ Servers!recvNothing(fd)
  <2>1. /\ sock' = sock /\ edge' = edge /\ armed' = armed
    BY <1>1 DEF Servers!recvText, Servers!recvNothing
  <2>2. Cardinality(OpenFds) \in Nat
    <3>1. OpenFds \subseteq Fds
      BY DEF OpenFds
    <3> QED
      BY <3>1, FdsAssumption, FS_Subset, FS_CardinalityType
  <2>3. ~Servers!recvEnd(fd)
    BY <1>1 DEF Servers!recvText, Servers!recvNothing, Servers!recvEnd
  <2> QED
    BY <2>1, <2>2, <2>3, OpenUnchanged
<1>2. CASE Servers!recvEnd(fd)
  <2>1. /\ sock' = [sock EXCEPT ![fd] = "free"] /\ sock[fd] # "free"
        /\ edge' = edge \ {fd} /\ armed' = armed \ {fd} /\ "free" \in SockStates
    BY <1>2 DEF Servers!recvEnd, SockStates
  <2>2. /\ SockType' /\ Cardinality(OpenFds)' = Cardinality(OpenFds) - 1
        /\ Cardinality(OpenFds) \in Nat /\ Cardinality(OpenFds)' \in Nat
    BY <2>1, OpenCounts
  <2> QED
    BY <1>2, <2>1, <2>2 DEF SockType
<1> QED
  BY <1>1, <1>2

(* What main does with an event of a connection or of the pipe.              *)
LEMMA ServersHandle ==
  ASSUME ServersInv,
         \/ Servers!readSignals
         \/ \E fd \in Fds : \/ server = "lt" /\ Servers!lt(fd)
                            \/ server = "et" /\ Servers!et(fd)
                            \/ server = "signals" /\ Servers!readClient(fd)
                            \/ server = "oneshot" /\ Servers!startWorker(fd)
  PROVE  ServersInv'
<1>1. /\ SockType /\ backlog \in Nat /\ events \in Seq(Int) /\ EventsOnce
      /\ BacklogTold /\ OneTurn /\ ServersType
      /\ Cardinality(Fds) \in Nat
  BY FdsAssumption, FS_CardinalityType DEF ServersInv, ServersType
<1>2. ASSUME NEW fd \in Fds, server \in {"lt", "et", "signals"},
             Servers!recvText(fd) \/ Servers!recvEnd(fd) \/ Servers!recvNothing(fd),
             UNCHANGED <<server, late, backlog, Servers!threads>>,
             \/ events' = events
             \/ events # <<>> /\ events' = Tail(events)
      PROVE  ServersInv'
  <2>1. /\ events' \in Seq(Int) /\ EventsOnce'
        /\ \A f : Queued(f)' => Queued(f)
    BY <1>1, <1>2, BatchTail, QueueUnchanged DEF EventsOnce
  <2>2. /\ SockType' /\ Cardinality(OpenFds)' <= Cardinality(OpenFds)
        /\ Cardinality(OpenFds) \in Nat /\ Cardinality(OpenFds)' \in Nat
        /\ edge' \subseteq edge
    BY <1>1, <1>2, ServersRecv
  <2>3. UNCHANGED <<server, late, backlog, sockfd, started, recving, rearming>>
    BY <1>2 DEF Servers!threads
  <2>4. ServersType'
    BY <1>1, <2>1, <2>2, <2>3 DEF ServersType
  <2>5. BacklogTold'
    BY <1>1, <2>1, <2>2, <2>3 DEF BacklogTold
  <2>6. OneTurn'
    BY <1>1, <1>2, <2>3 DEF OneTurn
  <2> QED
    BY <2>1, <2>4, <2>5, <2>6 DEF ServersInv
<1>3. ASSUME NEW fd \in Fds,
             \/ server = "lt" /\ Servers!lt(fd)
             \/ server = "et" /\ Servers!et(fd)
             \/ server = "signals" /\ Servers!readClient(fd)
      PROVE  ServersInv'
  BY <1>2, <1>3 DEF Servers!lt, Servers!et, Servers!readClient, Servers!Handles
<1>4. CASE Servers!readSignals
  <2>1. /\ events # <<>> /\ events' = Tail(events)
        /\ UNCHANGED <<server, late, backlog, sock, edge, armed, sockfd, started, recving,
                       rearming>>
    BY <1>4 DEF Servers!readSignals, Servers!Handles, Servers!threads
  <2>2. /\ events' \in Seq(Int) /\ EventsOnce' /\ OpenFds' = OpenFds /\ SockType'
        /\ \A f : Queued(f)' => Queued(f)
    BY <1>1, <2>1, BatchTail, OpenUnchanged
  <2>3. ServersType' /\ BacklogTold'
    BY <1>1, <2>1, <2>2 DEF ServersType, BacklogTold
  <2>4. ASSUME NEW f \in Fds PROVE Held(f)' <= Held(f)
    <3>1. recving[f] \in Nat /\ rearming[f] \in Nat /\ started \in Nat
      BY <1>1 DEF ServersType
    <3>2. UNCHANGED <<armed, sockfd, started, recving, rearming>>
      BY <2>1
    <3> QED
      BY <2>2, <3>1, <3>2 DEF Held
  <2>5. ASSUME NEW f \in Fds PROVE Held(f) \in Int /\ Held(f)' \in Int
    BY <1>1, <2>1 DEF ServersType, Held
  <2>6. OneTurn'
    BY <1>1, <2>1, <2>4, <2>5 DEF OneTurn
  <2> QED
    BY <2>2, <2>3, <2>6 DEF ServersInv
<1>5. ASSUME NEW fd \in Fds, server = "oneshot", Servers!startWorker(fd)
      PROVE  ServersInv'
  <2>1. /\ events # <<>> /\ Head(events) = fd /\ events' = Tail(events)
        /\ started = 0 \/ (late /\ started = 1)
        /\ sockfd' = fd /\ started' = started + 1
        /\ UNCHANGED <<server, late, backlog, sock, edge, armed, recving, rearming>>
    BY <1>5 DEF Servers!startWorker, Servers!Handles
  <2>2. /\ events' \in Seq(Int) /\ EventsOnce' /\ OpenFds' = OpenFds /\ SockType'
        /\ \A f : Queued(f)' <=> Queued(f) /\ f # fd
    BY <1>1, <2>1, BatchTail, OpenUnchanged
  <2>3. Queued(fd)
    <3>1. 1 \in DOMAIN events /\ events[1] = fd
      BY <1>1, <2>1
    <3> QED
      BY <3>1 DEF Queued
  <2>4. ServersType' /\ BacklogTold'
    BY <1>1, <2>1, <2>2, FdsAssumption DEF ServersType, BacklogTold
  <2>5. ASSUME NEW f \in Fds, ~late PROVE Held(f)' <= IF sock'[f] = "free" THEN 0 ELSE 1
    <3>1. Held(f) <= (IF sock[f] = "free" THEN 0 ELSE 1) /\ started = 0
      BY <1>1, <1>5, <2>1, <2>5 DEF OneTurn
    <3>2. recving[f] \in Nat /\ rearming[f] \in Nat
      BY <1>1 DEF ServersType
    <3> QED
      BY <2>1, <2>2, <2>3, <3>1, <3>2 DEF Held
  <2>6. OneTurn'
    <3>1. ~late => started' <= 1
      BY <2>1
    <3> QED
      BY <1>5, <2>1, <2>5, <3>1 DEF OneTurn
  <2> QED
    BY <2>2, <2>4, <2>6 DEF ServersInv
<1> QED
  BY <1>3, <1>4, <1>5

(* A thread reads its argument, receives, and arms the connection again.     *)
LEMMA ServersThreads ==
  ASSUME ServersInv,
         \/ Servers!readArgument
         \/ \E fd \in Fds : Servers!Worker(fd)
  PROVE  ServersInv'
<1>1. /\ SockType /\ backlog \in Nat /\ EventsOnce
      /\ BacklogTold /\ OneTurn /\ ServersType
      /\ Cardinality(Fds) \in Nat
  BY FdsAssumption, FS_CardinalityType DEF ServersInv, ServersType
<1>2. CASE Servers!readArgument
  <2>1. /\ started > 0 /\ started' = started - 1
        /\ recving' = [recving EXCEPT ![sockfd] = @ + 1]
        /\ UNCHANGED <<server, late, backlog, sock, edge, armed, events, sockfd, rearming>>
    BY <1>2 DEF Servers!readArgument
  <2>2. OpenFds' = OpenFds /\ SockType' /\ \A f : Queued(f)' <=> Queued(f)
    BY <1>1, <2>1, OpenUnchanged, QueueUnchanged
  <2>3. ServersType' /\ BacklogTold' /\ EventsOnce'
    <3>1. recving' \in [Fds -> Nat]
      <4>1. recving \in [Fds -> Nat] /\ \A n \in Nat : n + 1 \in Nat
        BY <1>1 DEF ServersType
      <4> QED
        BY <2>1, <4>1
    <3>2. ServersType' /\ EventsOnce'
      <4>1. started' \in Nat
        BY <1>1, <2>1 DEF ServersType
      <4> QED
        BY <1>1, <2>1, <2>2, <3>1, <4>1 DEF ServersType, EventsOnce
    <3>3. BacklogTold'
      BY <1>1, <2>1, <2>2 DEF BacklogTold
    <3> QED
      BY <3>2, <3>3
  <2>4. server = "oneshot"
    BY <1>1, <2>1 DEF OneTurn, ServersType
  <2>5. ASSUME NEW fd \in Fds, ~late PROVE Held(fd)' <= IF sock'[fd] = "free" THEN 0 ELSE 1
    <3>1. Held(fd) <= (IF sock[fd] = "free" THEN 0 ELSE 1) /\ started = 1
      BY <1>1, <2>1, <2>4, <2>5 DEF OneTurn, ServersType
    <3>2. recving'[fd] = IF fd = sockfd THEN recving[fd] + 1 ELSE recving[fd]
      BY <1>1, <2>1 DEF ServersType
    <3> QED
      BY <1>1, <2>1, <2>2, <3>1, <3>2 DEF ServersType, Held
  <2>6. OneTurn'
    BY <1>1, <2>1, <2>4, <2>5 DEF OneTurn, ServersType
  <2> QED
    BY <2>3, <2>6 DEF ServersInv
<1>3. ASSUME NEW fd \in Fds, Servers!worker(fd) PROVE ServersInv'
  <2>1. /\ recving[fd] > 0
        /\ UNCHANGED <<server, late, backlog, events, sockfd, started>>
        /\ \/ Servers!recvText(fd) /\ UNCHANGED <<recving, rearming>>
           \/ /\ Servers!recvEnd(fd)
              /\ recving' = [recving EXCEPT ![fd] = @ - 1] /\ UNCHANGED rearming
           \/ /\ Servers!recvNothing(fd)
              /\ recving' = [recving EXCEPT ![fd] = @ - 1]
              /\ rearming' = [rearming EXCEPT ![fd] = @ + 1]
    BY <1>3 DEF Servers!worker
  <2>2. /\ SockType' /\ Cardinality(OpenFds)' <= Cardinality(OpenFds)
        /\ Cardinality(OpenFds) \in Nat /\ Cardinality(OpenFds)' \in Nat
        /\ edge' \subseteq edge /\ armed' \subseteq armed
        /\ \A f \in Fds \ {fd} : sock'[f] = sock[f]
        /\ sock'[fd] = sock[fd] \/ (sock'[fd] = "free" /\ Servers!recvEnd(fd))
        /\ Servers!recvEnd(fd) => sock[fd] # "free" /\ fd \notin armed'
    BY <1>1, <2>1, ServersRecv
  <2>3. \A f : Queued(f)' <=> Queued(f)
    BY <2>1, QueueUnchanged
  <2>4. ServersType' /\ BacklogTold' /\ EventsOnce'
    <3>1. recving[fd] - 1 \in Nat /\ rearming[fd] + 1 \in Nat
      BY <1>1, <2>1 DEF ServersType
    <3>2. recving' \in [Fds -> Nat] /\ rearming' \in [Fds -> Nat]
      BY <1>1, <2>1, <3>1 DEF ServersType
    <3>3. ServersType' /\ EventsOnce'
      BY <1>1, <2>1, <2>2, <3>2 DEF ServersType, EventsOnce
    <3>4. BacklogTold'
      BY <1>1, <2>1, <2>2, <2>3 DEF BacklogTold
    <3> QED
      BY <3>3, <3>4
  <2>5. server = "oneshot"
    BY <1>1, <2>1 DEF OneTurn, ServersType
  <2>6. ASSUME NEW f \in Fds, ~late PROVE Held(f)' <= IF sock'[f] = "free" THEN 0 ELSE 1
    <3>1. Held(f) <= (IF sock[f] = "free" THEN 0 ELSE 1)
      BY <1>1, <2>5, <2>6 DEF OneTurn
    <3>2. CASE f # fd
      <4>1. recving'[f] = recving[f] /\ rearming'[f] = rearming[f]
        BY <1>1, <2>1, <3>2 DEF ServersType
      <4>2. recving[f] \in Nat /\ rearming[f] \in Nat /\ started \in Nat
        BY <1>1 DEF ServersType
      <4>3. /\ f \in armed' => f \in armed
            /\ Queued(f)' <=> Queued(f)
            /\ sockfd' = sockfd /\ started' = started /\ sock'[f] = sock[f]
        BY <2>1, <2>2, <2>3, <3>2
      <4>4. Held(f)' <= Held(f) /\ Held(f) \in Int /\ Held(f)' \in Int
        BY <4>1, <4>2, <4>3 DEF Held
      <4> QED
        BY <3>1, <4>3, <4>4
    <3>3. CASE f = fd
      <4>1. recving[fd] \in Nat /\ rearming[fd] \in Nat /\ started \in Nat
        BY <1>1 DEF ServersType
      <4>2. CASE Servers!recvEnd(fd)
        <5>1. recving'[fd] = recving[fd] - 1 /\ rearming'[fd] = rearming[fd]
          BY <1>1, <2>1, <4>2
             DEF ServersType, Servers!recvEnd, Servers!recvText, Servers!recvNothing
        <5> QED
          BY <2>1, <2>2, <2>3, <3>1, <3>3, <4>1, <4>2, <5>1 DEF Held
      <4>3. CASE ~Servers!recvEnd(fd)
        <5>1. recving'[fd] + rearming'[fd] = recving[fd] + rearming[fd]
              /\ recving'[fd] \in Nat /\ rearming'[fd] \in Nat
          <6>1. CASE UNCHANGED <<recving, rearming>>
            BY <4>1, <6>1
          <6>2. CASE /\ recving' = [recving EXCEPT ![fd] = @ - 1]
                     /\ rearming' = [rearming EXCEPT ![fd] = @ + 1]
            <7>1. recving'[fd] = recving[fd] - 1 /\ rearming'[fd] = rearming[fd] + 1
              BY <1>1, <6>2 DEF ServersType
            <7> QED
              BY <2>1, <4>1, <7>1
          <6> QED
            BY <2>1, <4>3, <6>1, <6>2
        <5> QED
          BY <2>1, <2>2, <2>3, <3>1, <3>3, <4>1, <4>3, <5>1 DEF Held
      <4> QED
        BY <4>2, <4>3
    <3> QED
      BY <3>2, <3>3
  <2>7. OneTurn'
    BY <1>1, <2>1, <2>5, <2>6 DEF OneTurn, ServersType
  <2> QED
    BY <2>4, <2>7 DEF ServersInv
<1>4. ASSUME NEW fd \in Fds, Servers!reset_oneshot(fd),
             UNCHANGED <<server, late, backlog, sock, events, sockfd, started, recving>>
      PROVE  ServersInv'
  <2>1. /\ rearming[fd] > 0 /\ rearming' = [rearming EXCEPT ![fd] = @ - 1]
        /\ armed' = armed \cup (OpenFds \cap {fd})
        /\ 3 \in edge' => 3 \in edge
    BY <1>4, FdsAssumption DEF Servers!reset_oneshot, Servers!Open, OpenFds
  <2>2. OpenFds' = OpenFds /\ SockType' /\ \A f : Queued(f)' <=> Queued(f)
    BY <1>1, <1>4, OpenUnchanged, QueueUnchanged
  <2>3. ServersType' /\ BacklogTold' /\ EventsOnce'
    BY <1>1, <1>4, <2>1, <2>2 DEF ServersType, BacklogTold, EventsOnce
  <2>4. server = "oneshot"
    BY <1>1, <2>1 DEF OneTurn, ServersType
  <2>5. ASSUME NEW f \in Fds, ~late PROVE Held(f)' <= IF sock'[f] = "free" THEN 0 ELSE 1
    <3>1. Held(f) <= (IF sock[f] = "free" THEN 0 ELSE 1)
      BY <1>1, <2>4, <2>5 DEF OneTurn
    <3>2. rearming'[f] = IF f = fd THEN rearming[f] - 1 ELSE rearming[f]
      BY <1>1, <2>1 DEF ServersType
    <3>3. f # fd => (f \in armed' <=> f \in armed)
      BY <2>1
    <3> QED
      BY <1>1, <1>4, <2>1, <2>2, <3>1, <3>2, <3>3 DEF ServersType, Held
  <2>6. OneTurn'
    BY <1>1, <1>4, <2>4, <2>5 DEF OneTurn, ServersType
  <2> QED
    BY <2>3, <2>6 DEF ServersInv
<1> QED
  BY <1>2, <1>3, <1>4 DEF Servers!Worker

LEMMA ServersStep == ServersInv /\ Servers!Next => ServersInv'
BY ServersClients, ServersWait, ServersAccept, ServersHandle, ServersThreads
   DEF Servers!Next, Servers!Main

-----------------------------------------------------------------------------
(* The echo servers: the table holds exactly the open connections.           *)
Places == 1 .. Cardinality(Fds)
Used == {p \in Places : client[p] # -1}

TableTrue ==
    /\ \A p \in Used : client[p] \in OpenFds
    /\ \A fd \in OpenFds : \E p \in Used : client[p] = fd
    /\ \A p, q \in Used : client[p] = client[q] => p = q
    /\ \A p \in Used : p <= maxi /\ client[p] <= maxfd
    /\ allset = {3} \cup OpenFds

EchoType ==
    /\ SockType
    /\ backlog \in Nat
    /\ client \in [Places -> Fds \cup {-1}]
    /\ maxi \in Nat /\ maxfd \in Nat
    /\ i \in Int

\* As long as poll's answer is looked at, a connection it told of still waits.
EchoBacklog ==
    /\ backlog + Cardinality(OpenFds) <= Cardinality(Fds)
    /\ i = 0 /\ 0 \in ready => backlog > 0

EchoInv == EchoType /\ EchoBacklog /\ TableTrue

LEMMA EchoNames ==
  /\ Echo!Cardinality(Fds) = Cardinality(Fds) /\ Echo!Places = Places
  /\ Echo!Used = Used /\ Echo!Open = OpenFds
  /\ Cardinality(Fds) \in Nat /\ Cardinality(OpenFds) \in Nat
<1>1. Echo!Cardinality(Fds) = Cardinality(Fds)
  BY SameCardinality
<1>2. Echo!Places = Places
  BY <1>1 DEF Echo!Places, Places
<1>3. Echo!Used = Used /\ Echo!Open = OpenFds
  BY <1>2 DEF Echo!Used, Used, Echo!Open, OpenFds
<1>4. OpenFds \subseteq Fds
  BY DEF OpenFds
<1> QED
  BY <1>1, <1>2, <1>3, <1>4, FdsAssumption, FS_Subset, FS_CardinalityType

(* TableTrue is TableExact.                                                  *)
LEMMA EchoTableExact == EchoInv => Echo!TableExact
<1> SUFFICES ASSUME EchoInv PROVE Echo!TableExact
  OBVIOUS
<1>1. {client[p] : p \in Used} = OpenFds
  BY DEF EchoInv, TableTrue
<1> QED
  BY <1>1, EchoNames DEF EchoInv, TableTrue, Echo!TableExact, Echo!listenfd

(* A place is free as long as a descriptor is.                               *)
LEMMA FreePlace ==
  ASSUME EchoInv, Cardinality(OpenFds) < Cardinality(Fds)
  PROVE  LET place == Echo!Min(Places \ Used)
         IN place \in Places /\ client[place] = -1
<1>1. IsFiniteSet(Places) /\ Cardinality(Places) = Cardinality(Fds)
  <2>1. Cardinality(Fds) \in Nat
    BY EchoNames
  <2> QED
    BY <2>1, FS_Interval DEF Places
<1>2. IsFiniteSet(OpenFds)
  <2>1. OpenFds \subseteq Fds
    BY DEF OpenFds
  <2> QED
    BY <2>1, FdsAssumption, FS_Subset
<1>3. Places \ Used # {}
  <2> SUFFICES ASSUME Used = Places PROVE FALSE
    BY DEF Used
  <2> DEFINE f == [p \in Used |-> client[p]]
  <2>1. f \in Injection(Used, OpenFds)
    BY DEF EchoInv, TableTrue, Injection, IsInjective
  <2>2. Cardinality(Used) <= Cardinality(OpenFds)
    <3> HIDE DEF f
    <3> QED
      BY <1>2, <2>1, FS_Injection
  <2> QED
    BY <1>1, <2>2, EchoNames
<1>4. IsFiniteSet(Places \ Used) /\ Places \ Used \subseteq Int
  <2>1. Places \subseteq Int
    BY DEF Places
  <2>2. IsFiniteSet(Places \ Used)
    BY <1>1, FS_Difference
  <2> QED
    BY <2>1, <2>2
<1>5. Echo!Min(Places \ Used) \in Places \ Used
  <2>1. \E x \in Places \ Used : \A y \in Places \ Used : x <= y
    BY <1>3, <1>4, LeastExists
  <2> QED
    BY <2>1 DEF Echo!Min
<1> QED
  BY <1>5 DEF Used

(* The actions that leave the table alone.                                   *)
LEMMA EchoFrame ==
  ASSUME EchoInv, UNCHANGED <<client, maxi, maxfd, allset>>,
         SockType', OpenFds' = OpenFds, i' \in Int,
         \/ backlog' = backlog
         \/ backlog' = backlog + 1 /\ backlog' + Cardinality(OpenFds) <= Cardinality(Fds),
         \/ UNCHANGED <<i, ready>>
         \/ i' # 0
         \/ 0 \in ready' => backlog' > 0
  PROVE  EchoInv'
<1>1. backlog \in Nat /\ Cardinality(OpenFds) \in Nat /\ Cardinality(Fds) \in Nat
  BY EchoNames DEF EchoInv, EchoType
<1>2. EchoType' /\ EchoBacklog'
  BY <1>1 DEF EchoInv, EchoType, EchoBacklog
<1>3. Used' = Used
  BY DEF Used
<1>4. TableTrue'
  BY <1>3 DEF EchoInv, TableTrue
<1> QED
  BY <1>2, <1>4 DEF EchoInv

LEMMA EchoAccept ==
  ASSUME EchoInv, Echo!accept
  PROVE  EchoInv'
<1>1. EchoType /\ EchoBacklog /\ TableTrue /\ SockType
  BY DEF EchoInv, EchoType
<1>2. CASE 0 \notin ready
  <2>1. /\ i' = 1
        /\ UNCHANGED <<backlog, sock, client, allset, maxi, maxfd, ready>>
    BY <1>2 DEF Echo!accept
  <2> QED
    BY <1>1, <2>1, EchoFrame, OpenUnchanged
<1>3. CASE 0 \in ready
  <2> DEFINE connfd == Echo!Min({fd \in Fds : sock[fd] = "free"})
             place == Echo!Min(Places \ Used)
  <2>1. /\ i = 0
        /\ sock' = [sock EXCEPT ![connfd] = "open"]
        /\ client' = [client EXCEPT ![place] = connfd]
        /\ allset' = allset \cup {connfd}
        /\ maxi' = IF place > maxi THEN place ELSE maxi
        /\ maxfd' = IF connfd > maxfd THEN connfd ELSE maxfd
        /\ backlog' = backlog - 1
        /\ i' \in {-1, 1}
    BY <1>3, EchoNames DEF Echo!accept, Echo!newMaxi
  <2>2. /\ backlog \in Nat /\ backlog > 0
        /\ Cardinality(OpenFds) \in Nat /\ Cardinality(Fds) \in Nat
        /\ backlog + Cardinality(OpenFds) <= Cardinality(Fds)
    BY <1>1, <1>3, <2>1, EchoNames DEF EchoType, EchoBacklog
  <2>3. Cardinality(OpenFds) < Cardinality(Fds)
    BY <2>2
  <2>4. connfd \in Fds /\ sock[connfd] = "free"
    <3>1. connfd = Chat!Min({fd \in Fds : sock[fd] = "free"})
      BY DEF Chat!Min, Echo!Min
    <3> QED
      BY <1>1, <2>3, <3>1, FreeDescriptor
  <2>5. place \in Places /\ client[place] = -1
    BY <2>3, FreePlace
  <2> HIDE DEF connfd, place
  <2>6. /\ SockType' /\ Cardinality(OpenFds)' = Cardinality(OpenFds) + 1
        /\ OpenFds' = OpenFds \cup {connfd}
    <3>1. "open" \in SockStates /\ "open" # "free"
      BY DEF SockStates
    <3> QED
      BY <1>1, <2>1, <2>4, <3>1, OpenCounts
  <2>7. place \in Nat /\ connfd \in Nat /\ connfd # -1 /\ connfd \notin OpenFds
    BY <2>4, <2>5, FdsAssumption DEF Places, OpenFds
  <2>8. EchoType'
    BY <1>1, <2>1, <2>2, <2>4, <2>5, <2>6, <2>7 DEF EchoType
  <2>9. EchoBacklog'
    BY <2>1, <2>2, <2>6 DEF EchoBacklog
  <2>10. /\ Used' = Used \cup {place} /\ place \notin Used
         /\ client'[place] = connfd /\ \A p \in Used : client'[p] = client[p]
    BY <1>1, <2>1, <2>5, <2>7 DEF Used, EchoType
  <2>11. \A p \in Used : p \in Nat /\ client[p] \in Nat
    <3>1. OpenFds \subseteq Nat
      BY FdsAssumption DEF OpenFds
    <3>2. Places \subseteq Nat /\ Used \subseteq Places
      BY DEF Places, Used
    <3> QED
      BY <1>1, <3>1, <3>2 DEF TableTrue
  <2>12. TableTrue'
    <3>1. /\ \A p \in Used' : client'[p] \in OpenFds'
          /\ \A fd \in OpenFds' : \E p \in Used' : client'[p] = fd
          /\ \A p, q \in Used' : client'[p] = client'[q] => p = q
      BY <1>1, <2>6, <2>7, <2>10 DEF TableTrue
    <3>2. \A p \in Used' : p <= maxi' /\ client'[p] <= maxfd'
      BY <1>1, <2>1, <2>7, <2>10, <2>11 DEF TableTrue, EchoType
    <3>3. allset' = {3} \cup OpenFds'
      BY <1>1, <2>1, <2>6 DEF TableTrue
    <3> QED
      BY <3>1, <3>2, <3>3 DEF TableTrue
  <2> QED
    BY <2>8, <2>9, <2>12 DEF EchoInv
<1> QED
  BY <1>2, <1>3

LEMMA EchoReadline ==
  ASSUME EchoInv, Echo!readline
  PROVE  EchoInv'
<1>1. EchoType /\ EchoBacklog /\ TableTrue /\ SockType
  BY DEF EchoInv, EchoType
<1>2. /\ i \in Used /\ i \in Places /\ client[i] \in OpenFds /\ client[i] \in Fds
      /\ i' \in Int /\ i' # 0
      /\ UNCHANGED <<backlog, maxi, maxfd, ready>>
  BY <1>1, EchoNames
     DEF Echo!readline, Echo!served, Echo!next, TableTrue, Used, Places, OpenFds
<1>3. CASE UNCHANGED <<sock, client, allset>>
  BY <1>1, <1>2, <1>3, EchoFrame, OpenUnchanged
<1>4. ASSUME NEW s \in {"fin", "reset"}, sock' = [sock EXCEPT ![client[i]] = s],
             UNCHANGED <<client, allset>>
      PROVE  EchoInv'
  <2>1. sock[client[i]] # "free" /\ s \in SockStates /\ s # "free"
    BY <1>2 DEF OpenFds, SockStates
  <2>2. SockType' /\ OpenFds' = OpenFds
    BY <1>1, <1>2, <1>4, <2>1, OpenCounts
  <2> QED
    BY <1>1, <1>2, <1>4, <2>2, EchoFrame
<1>5. CASE Echo!leave(i)
  <2> DEFINE fd == client[i]
  <2>1. /\ sock' = [sock EXCEPT ![fd] = "free"]
        /\ client' = [client EXCEPT ![i] = -1]
        /\ allset' = allset \ {fd}
    BY <1>5 DEF Echo!leave
  <2>2. /\ SockType' /\ OpenFds' = OpenFds \ {fd}
        /\ Cardinality(OpenFds)' = Cardinality(OpenFds) - 1
        /\ Cardinality(OpenFds) \in Nat /\ Cardinality(OpenFds)' \in Nat
    <3>1. sock[fd] # "free" /\ "free" \in SockStates
      BY <1>2 DEF OpenFds, SockStates
    <3> QED
      BY <1>1, <1>2, <2>1, <3>1, OpenCounts
  <2>3. fd # 3 /\ fd # -1
    BY <1>2, FdsAssumption
  <2>4. EchoType'
    BY <1>1, <1>2, <2>1, <2>2 DEF EchoType
  <2>5. EchoBacklog'
    BY <1>1, <1>2, <2>2, EchoNames DEF EchoBacklog, EchoType
  <2>6. Used' = Used \ {i} /\ \A p \in Used' : client'[p] = client[p]
    BY <1>1, <1>2, <2>1 DEF Used, EchoType
  <2>7. TableTrue'
    <3>1. /\ \A p \in Used' : client'[p] \in OpenFds'
          /\ \A f \in OpenFds' : \E p \in Used' : client'[p] = f
          /\ \A p, q \in Used' : client'[p] = client'[q] => p = q
          /\ \A p \in Used' : p <= maxi' /\ client'[p] <= maxfd'
      BY <1>1, <1>2, <2>2, <2>6 DEF TableTrue
    <3>2. allset' = {3} \cup OpenFds'
      BY <1>1, <2>1, <2>2, <2>3 DEF TableTrue
    <3> QED
      BY <3>1, <3>2 DEF TableTrue
  <2> QED
    BY <2>4, <2>5, <2>7 DEF EchoInv
<1> QED
  BY <1>3, <1>4, <1>5 DEF Echo!readline, Echo!echo

LEMMA EchoStep == EchoInv /\ Echo!Next => EchoInv'
<1> SUFFICES ASSUME EchoInv, Echo!Next PROVE EchoInv'
  OBVIOUS
<1>1. SockType /\ i \in Int
  BY DEF EchoInv, EchoType
<1>2. CASE UNCHANGED <<backlog, sock, Echo!loop>>
  BY <1>1, <1>2, EchoFrame, OpenUnchanged DEF Echo!loop
<1>3. CASE Echo!connect
  <2>1. /\ backlog' = backlog + 1 /\ UNCHANGED <<sock, Echo!loop>>
        /\ backlog + Cardinality(OpenFds) < Cardinality(Fds)
    BY <1>3, EchoNames, SameCardinality DEF Echo!connect
  <2>2. backlog' + Cardinality(OpenFds) <= Cardinality(Fds)
    BY <2>1, EchoNames DEF EchoInv, EchoType
  <2> QED
    BY <1>1, <2>1, <2>2, EchoFrame, OpenUnchanged DEF Echo!loop
<1>4. ASSUME NEW fd \in Fds, Echo!write(fd) PROVE EchoInv'
  BY <1>2, <1>4 DEF Echo!write
<1>5. ASSUME NEW fd \in Fds, Echo!hangUp(fd) PROVE EchoInv'
  <2>1. PICK s \in {"fin", "reset"} : sock' = [sock EXCEPT ![fd] = s]
    BY <1>5 DEF Echo!hangUp
  <2>2. s \in SockStates /\ s # "free" /\ sock[fd] # "free"
    BY <1>5 DEF Echo!hangUp, SockStates
  <2>3. SockType' /\ OpenFds' = OpenFds
    BY <1>1, <2>1, <2>2, OpenCounts
  <2> QED
    BY <1>1, <1>5, <2>3, EchoFrame DEF Echo!hangUp, Echo!loop
<1>6. CASE Echo!wait
  <2>1. 0 \notin Places /\ 0 \notin Fds
    BY FdsAssumption DEF Places
  <2>2. 0 \in ready' => backlog > 0
    BY <1>6, <2>1, EchoNames
       DEF Echo!wait, Echo!Poll, Echo!Select, Echo!Listening, Used, OpenFds
  <2> QED
    BY <1>1, <1>6, <2>2, EchoFrame, OpenUnchanged DEF Echo!wait
<1>7. CASE Echo!accept
  BY <1>7, EchoAccept
<1>8. CASE Echo!pass
  <2>1. i' \in Int /\ i' # 0
    BY <1>1, <1>8, EchoNames DEF Echo!pass, Echo!next, Places
  <2> QED
    BY <1>1, <1>8, <2>1, EchoFrame, OpenUnchanged DEF Echo!pass
<1>9. CASE Echo!readline
  BY <1>9, EchoReadline
<1>10. CASE Echo!Parent
  BY <1>2, <1>10 DEF Echo!Parent, Echo!sigchld, Echo!sig_chld_wait,
                     Echo!sig_chld_waitpid, Echo!others
<1>11. ASSUME NEW c \in Kids, Echo!fork(c) \/ Echo!str_echo(c) PROVE EchoInv'
  BY <1>2, <1>11 DEF Echo!fork, Echo!str_echo, Echo!others
<1> QED
  BY <1>3, <1>4, <1>5, <1>6, <1>7, <1>8, <1>9, <1>10, <1>11 DEF Echo!Next, Echo!Loop

-----------------------------------------------------------------------------
(* Whichever program runs, what its part of the state fulfils.               *)
SocketsInv ==
    /\ running = "chat" => ChatInv
    /\ running = "servers" => ServersInv
    /\ running = "echo" => EchoInv

LEMMA SocketsInit == MCInit => SocketsInv
<1> SUFFICES ASSUME MCInit PROVE SocketsInv
  OBVIOUS
<1>1. Chat!Init /\ Servers!Init /\ Echo!Init
  BY DEF MCInit
<1>2. SockType /\ OpenFds = {} /\ backlog = 0
  BY <1>1 DEF Chat!Init, SockType, SockStates, OpenFds
<1>3. Cardinality(OpenFds) = 0 /\ Cardinality(Fds) \in Nat
  BY <1>2, FS_EmptySet, FS_CardinalityType, FdsAssumption
<1>4. ChatInv
  BY <1>1, <1>2, <1>3, LimitAssumption DEF ChatInv, Chat!Init
<1>5. ServersInv
  <2>1. ServersType
    <3>1. /\ events = <<>> /\ sockfd = 3 /\ started = 0
          /\ recving = [fd \in Fds |-> 0] /\ rearming = [fd \in Fds |-> 0]
      BY <1>1 DEF Servers!Init, Servers!None, Servers!listenfd
    <3> QED
      BY <1>2, <3>1 DEF ServersType
  <2>2. EventsOnce /\ BacklogTold
    BY <1>1, <1>2, <1>3 DEF Servers!Init, EventsOnce, BacklogTold, Queued
  <2>3. OneTurn
    <3>1. ASSUME NEW fd \in Fds
          PROVE  /\ recving[fd] = 0 /\ rearming[fd] = 0 /\ started = 0
                 /\ fd \notin armed /\ ~Queued(fd)
      BY <1>1, <3>1 DEF Servers!Init, Servers!None, Queued
    <3>2. started = 0
      BY <1>1 DEF Servers!Init
    <3>3. ASSUME NEW fd \in Fds PROVE Held(fd) = 0
      BY <3>1, <3>3 DEF Held
    <3> QED
      BY <3>1, <3>2, <3>3 DEF OneTurn
  <2> QED
    BY <2>1, <2>2, <2>3 DEF ServersInv
<1>6. EchoInv
  <2>1. /\ client \in [Places -> Fds \cup {-1}]
        /\ \A p \in Places : client[p] = -1
        /\ maxi = 0 /\ maxfd = 3 /\ allset = {3} /\ i = -1
    BY <1>1, EchoNames DEF Echo!Init, Echo!NoClients, Echo!listenfd
  <2>2. EchoType /\ EchoBacklog
    BY <1>2, <1>3, <2>1 DEF EchoType, EchoBacklog
  <2>3. Used = {}
    BY <2>1 DEF Used
  <2>4. TableTrue
    BY <1>2, <2>1, <2>3 DEF TableTrue
  <2> QED
    BY <2>2, <2>4 DEF EchoInv
<1> QED
  BY <1>4, <1>5, <1>6 DEF SocketsInv

LEMMA SocketsStep == SocketsInv /\ [MCNext]_allVars => SocketsInv'
<1> SUFFICES ASSUME SocketsInv, [MCNext]_allVars PROVE SocketsInv'
  OBVIOUS
<1>1. CASE InChat(Chat!Next)
  BY <1>1, ChatStep DEF InChat, SocketsInv
<1>2. CASE InServer(Servers!Next)
  BY <1>2, ServersStep DEF InServer, SocketsInv
<1>3. CASE InEcho(Echo!Next)
  BY <1>3, EchoStep DEF InEcho, SocketsInv
<1>4. CASE InOne(One!Next)
  <2>1. running' = running /\ running = "one"
    BY <1>4 DEF InOne
  <2> QED
    BY <2>1 DEF SocketsInv
<1>5. CASE UNCHANGED allVars
  <2>1. UNCHANGED <<network, chatVars, serverVars, echoVars, running>>
    BY <1>5 DEF allVars
  <2>2. OpenFds' = OpenFds /\ (SockType => SockType')
    BY <2>1 DEF OpenFds, SockType, network
  <2>3. ChatInv => ChatInv'
    BY <2>1, <2>2 DEF ChatInv, chatVars
  <2>4. ServersInv => ServersInv'
    <3>1. \A fd : (Queued(fd)' <=> Queued(fd)) /\ Held(fd)' = Held(fd)
      BY <2>1 DEF Queued, Held, network, serverVars
    <3> QED
      BY <2>1, <2>2, <3>1
         DEF ServersInv, ServersType, EventsOnce, BacklogTold, OneTurn, network, serverVars
  <2>5. EchoInv => EchoInv'
    <3>1. Used' = Used
      BY <2>1 DEF Used, echoVars
    <3> QED
      BY <2>1, <2>2, <3>1
         DEF EchoInv, EchoType, EchoBacklog, TableTrue, network, echoVars
  <2> QED
    BY <2>1, <2>3, <2>4, <2>5 DEF SocketsInv
<1> QED
  BY <1>1, <1>2, <1>3, <1>4, <1>5 DEF MCNext

(* The counter of the chat room is the number of its open connections, and   *)
(* the table of the echo servers, maxi, maxfd and allset are those of theirs *)
(* (9/7_epoll.cpp:96, tcpservpoll01.c:66, tcpservselect01.c:54).             *)
THEOREM TablesExactHolds == MCSpec => []TablesExact
<1>1. SocketsInv => TablesExact
  <2>1. ChatInv => Chat!CounterExact
    <3>1. Chat!Cardinality(Chat!Open) = Cardinality(OpenFds)
      BY SameCardinality DEF Chat!Open, OpenFds
    <3> QED
      BY <3>1 DEF ChatInv, Chat!CounterExact
  <2> QED
    BY <2>1, EchoTableExact DEF SocketsInv, TablesExact
<1> QED
  BY <1>1, SocketsInit, SocketsStep, PTL DEF MCSpec

(* accept has a connection to return (10/1.cpp:80), and EPOLLONESHOT keeps a *)
(* second thread away from a connection (9/4.cpp:77), whatever the number of *)
(* connections.                                                              *)
THEOREM EventsTrueHolds == MCSpec => []EventsTrue
<1>1. SocketsInv => EventsTrue
  <2> SUFFICES ASSUME ServersInv PROVE Servers!AcceptReturns /\ Servers!OneReader
    BY DEF SocketsInv, EventsTrue
  <2>1. Servers!AcceptReturns
    <3> SUFFICES ASSUME events # <<>>, Head(events) = 3 PROVE backlog > 0
      BY DEF Servers!AcceptReturns, Servers!Handles, Servers!listenfd
    <3>1. 1 \in DOMAIN events /\ events[1] = 3
      BY DEF ServersInv, ServersType
    <3> QED
      BY <3>1 DEF ServersInv, BacklogTold, Queued
  <2>2. Servers!OneReader
    <3> SUFFICES ASSUME ~late, NEW fd \in Fds
                 PROVE  /\ recving[fd] + rearming[fd] <= 1
                        /\ recving[fd] + rearming[fd] = 1 =>
                              sock[fd] # "free" /\ fd \notin armed
      BY DEF Servers!OneReader
    <3>1. recving[fd] \in Nat /\ rearming[fd] \in Nat /\ started \in Nat
      BY DEF ServersInv, ServersType
    <3>2. CASE server = "oneshot"
      <4>1. Held(fd) <= IF sock[fd] = "free" THEN 0 ELSE 1
        BY <3>2 DEF ServersInv, OneTurn
      <4> QED
        BY <3>1, <4>1 DEF Held
    <3>3. CASE server # "oneshot"
      BY <3>1, <3>3 DEF ServersInv, OneTurn
    <3> QED
      BY <3>2, <3>3
  <2> QED
    BY <2>1, <2>2
<1> QED
  BY <1>1, SocketsInit, SocketsStep, PTL DEF MCSpec

-----------------------------------------------------------------------------
(* What One!UrgentTaken needs: before the handler of SIGURG is set nobody is *)
(* told of an urgent byte, and one that somebody was told of and that nobody *)
(* has asked for, there or to come, has a SIGURG pending or the handler      *)
(* about to ask.                                                             *)
OneInv ==
    /\ program \in {"urg", "copy", "select", "client", "half", "cli"}
    /\ program = "urg" =>
          /\ lost = FALSE
          /\ at \in {"start", "loop", "handler", "end"}
          /\ at = "start" => oob \notin {"told", "valid"}
          /\ oob \in {"told", "valid"} => urg = TRUE \/ at \in {"handler", "end"}

LEMMA OneStep == OneInv /\ One!Next => OneInv'
<1> SUFFICES ASSUME OneInv, One!Next PROVE OneInv'
  OBVIOUS
<1> USE DEF OneInv, One!stream, One!There, One!Urgent, One!ToCome
<1>1. CASE One!send
  BY <1>1 DEF One!send
<1>2. CASE One!sendUrgent
  BY <1>2 DEF One!sendUrgent
<1>3. CASE One!close
  BY <1>3 DEF One!close
<1>4. CASE One!type
  BY <1>4 DEF One!type
<1>5. CASE One!own
  BY <1>5 DEF One!own
<1>6. CASE One!recvLoop
  BY <1>6 DEF One!recvLoop, One!Uninterrupted, One!recvBytes, One!recvEnd,
              One!recvWaits, One!PassOver
<1>7. CASE One!recvLoop_copy
  BY <1>7 DEF One!recvLoop_copy
<1>8. CASE One!str_cli_select
  BY <1>8 DEF One!str_cli_select
<1>9. CASE One!fgets
  BY <1>9 DEF One!fgets
<1>10. CASE One!readline
  BY <1>10 DEF One!readline
<1>11. CASE One!sigurg
  BY <1>11 DEF One!sigurg
<1>12. CASE One!sig_urg_handler
  BY <1>12 DEF One!sig_urg_handler, One!afterHandler, One!recvUrgent
<1>13. CASE One!sig_handler
  BY <1>13 DEF One!sig_handler
<1>14. CASE One!select
  BY <1>14 DEF One!select
<1>15. CASE One!poll
  BY <1>15 DEF One!poll
<1>16. CASE One!urgentComes
  BY <1>16 DEF One!urgentComes
<1> QED
  BY <1>1, <1>2, <1>3, <1>4, <1>5, <1>6, <1>7, <1>8, <1>9, <1>10, <1>11, <1>12,
     <1>13, <1>14, <1>15, <1>16 DEF One!Next, One!Program

(* The handler takes an urgent byte it was told of, and that has come when   *)
(* it asks, before bytes that follow it are read (10/3.cpp:58).              *)
THEOREM UrgentTakenHolds == MCSpec => []UrgentTaken
<1>1. MCInit => OneInv
  BY DEF MCInit, OneInv, One!Init, One!main_urg, One!main_copy, One!main_select,
         One!main_client, One!main_half, One!main_cli
<1>2. OneInv /\ [MCNext]_allVars => OneInv'
  <2> SUFFICES ASSUME OneInv, [MCNext]_allVars PROVE OneInv'
    OBVIOUS
  <2>1. CASE UNCHANGED oneVars
    BY <2>1 DEF OneInv, oneVars
  <2>2. CASE One!Next
    BY <2>2, OneStep
  <2> QED
    BY <2>1, <2>2 DEF MCNext, InChat, InServer, InEcho, InOne, allVars
<1>3. OneInv => UrgentTaken
  BY DEF OneInv, UrgentTaken, One!UrgentTaken
<1> QED
  BY <1>1, <1>2, <1>3, PTL DEF MCSpec
=============================================================================
