---------------------------- MODULE Servers_proofs ----------------------------
(***************************************************************************)
(* Proofs about the servers of MCServers, for every number of workers, of  *)
(* clients, signals and deaths, every set of descriptors and every         *)
(* TIMESLOT.                                                               *)
(*                                                                         *)
(* The pool has three invariants beside the values of its variables:       *)
(* where the death of a worker is known (DeathInv), what can be on its way *)
(* to the parent when signals come one at a time and what m_stop says then *)
(* (StopInv), and how many notices there are (NoticeInv).  The timed       *)
(* server's list and the chat room's table are each their own invariant;   *)
(* the work is in the lemmas about what adding a timer, taking the expired *)
(* ones and moving the last entry do to them.                              *)
(***************************************************************************)
EXTENDS MCServers, SequenceTheorems, FiniteSetTheorems, NaturalsInduction,
        WellFoundedInduction, TLAPS

(* The pool: the values of the variables that its signals concern.         *)
PoolTypes ==
    /\ ppc \in {"setup", "wait", "events", "signals", "reaping", "done"}
    /\ pending \subseteq Signal /\ sig_pipe \in Seq(Signal) /\ signals \in Seq(Signal)
    /\ events \subseteq {"listen", "signal"}
    /\ proc \in [Workers -> {"running", "zombie", "gone"}]
    /\ m_pid \subseteq Workers /\ unseen \subseteq Workers
    /\ m_stop \in BOOLEAN /\ killed \in BOOLEAN
    /\ wsignals \in [Workers -> SUBSET Signal] /\ wstop \in [Workers -> BOOLEAN]

\* Nobody has read bytes outside of the loop that handles them, and a worker
\* that is dead when the handlers are set has died before.
DeathInv ==
    /\ ppc \notin {"signals", "reaping"} => signals = <<>>
    /\ ppc = "setup" => \A c \in Workers : proc[c] = "zombie" => c \in unseen
    /\ DeathNoticed

LEMMA OneSignal ==
    ASSUME NEW s \in Signal
    PROVE  /\ Append(<<>>, s) = <<s>> /\ Head(<<s>>) = s /\ Tail(<<s>>) = <<>>
           /\ <<s>> # <<>>
OBVIOUS

LEMMA Taken ==
    ASSUME NEW q \in Seq(Signal), q # <<>>
    PROVE  /\ Tail(q) \in Seq(Signal) /\ Head(q) \in Signal
           /\ \A s : (\E k \in DOMAIN q : q[k] = s) =>
                        Head(q) = s \/ \E k \in DOMAIN Tail(q) : Tail(q)[k] = s
<1>1. /\ Tail(q) \in Seq(Signal) /\ Head(q) \in Signal /\ Head(q) = q[1]
      /\ Len(q) \in Nat /\ Len(Tail(q)) = Len(q) - 1
      /\ DOMAIN q = 1 .. Len(q) /\ DOMAIN Tail(q) = 1 .. Len(q) - 1
      /\ \A k \in 1 .. Len(q) - 1 : Tail(q)[k] = q[k + 1]
  OBVIOUS
<1>2. ASSUME NEW s, NEW k \in DOMAIN q, q[k] = s
      PROVE  Head(q) = s \/ \E j \in DOMAIN Tail(q) : Tail(q)[j] = s
  <2>1. CASE k = 1
    BY <1>1, <1>2, <2>1
  <2>2. CASE k # 1
    <3>1. k - 1 \in DOMAIN Tail(q) /\ Tail(q)[k - 1] = q[k]
      BY <1>1, <1>2, <2>2
    <3> QED
      BY <1>2, <3>1
  <2> QED
    BY <2>1, <2>2
<1> QED
  BY <1>1, <1>2

Holds(q, r) == \E k \in DOMAIN q : q[k] = r

LEMMA Written ==
    ASSUME NEW q \in Seq(Signal), NEW s \in Signal
    PROVE  /\ Append(q, s) \in Seq(Signal)
           /\ Holds(Append(q, s), s)
           /\ \A r : Holds(q, r) => Holds(Append(q, s), r)
<1>1. /\ Append(q, s) \in Seq(Signal)
      /\ Len(q) \in Nat /\ DOMAIN q = 1 .. Len(q) /\ DOMAIN Append(q, s) = 1 .. Len(q) + 1
      /\ Append(q, s)[Len(q) + 1] = s
      /\ \A k \in 1 .. Len(q) : Append(q, s)[k] = q[k]
  OBVIOUS
<1>2. Len(q) + 1 \in DOMAIN Append(q, s)
  BY <1>1
<1>3. ASSUME NEW r, NEW k \in DOMAIN q, q[k] = r
      PROVE  \E j \in DOMAIN Append(q, s) : Append(q, s)[j] = r
  <2>1. k \in DOMAIN Append(q, s) /\ Append(q, s)[k] = r
    BY <1>1, <1>3
  <2> QED
    BY <2>1
<1> QED
  BY <1>1, <1>2, <1>3 DEF Holds

(* What a worker that ends does to the parent, and what it leaves.         *)
LEMMA Dies ==
    ASSUME PoolTypes, NEW c \in Workers, Die(c)
    PROVE  /\ proc' = [proc EXCEPT ![c] = "zombie"] /\ ppc' = ppc
           /\ pending' = (IF ppc \in {"setup", "done"} THEN pending ELSE pending \cup {"CHLD"})
           /\ unseen' = IF ppc = "setup" THEN unseen \cup {c} ELSE unseen
           /\ wsignals' = [wsignals EXCEPT ![c] = {}] /\ wstop' = wstop
           /\ UNCHANGED <<events, sig_pipe, signals, m_stop, m_pid, killed, pipefd>>
BY DEF Die, Raise, PoolTypes

-----------------------------------------------------------------------------
(* Steps that concern neither the parent nor its signals.                  *)
Aside(c) == \/ connect \/ workerSetup(c) \/ workerWait(c) \/ workerEndsBatch(c)
            \/ accept(c) \/ workerSignals(c) \/ workerReaped(c) \/ process(c)
            \/ cgiEnds(c)

LEMMA AsideKeeps ==
    ASSUME PoolTypes, NEW c \in Workers, Aside(c)
    PROVE  /\ UNCHANGED <<parent, proc, world>>
           /\ wsignals' \in [Workers -> SUBSET Signal] /\ wstop' \in [Workers -> BOOLEAN]
           /\ \A d \in Workers : "TERM" \in wsignals'[d] => "TERM" \in wsignals[d]
           /\ \A d \in Workers : wstop'[d] => wstop[d] \/ "TERM" \in wsignals[d]
<1> USE DEF Aside, PoolTypes, workers, bounds, parent
<1>1. UNCHANGED <<parent, proc, world>>
  BY DEF connect, workerSetup, workerWait, workerEndsBatch, accept, workerSignals,
         workerReaped, process, cgiEnds
<1>2. CASE workerSignals(c)
  <2>1. /\ wsignals' = [wsignals EXCEPT ![c] = {}]
        /\ wstop' = [wstop EXCEPT ![c] = @ \/ "TERM" \in wsignals[c]]
    BY <1>2 DEF workerSignals
  <2>2. (wstop[c] \/ "TERM" \in wsignals[c]) \in BOOLEAN
    OBVIOUS
  <2>3. wstop' \in [Workers -> BOOLEAN]
    BY <2>1, <2>2
  <2>4. /\ wstop'[c] = (wstop[c] \/ "TERM" \in wsignals[c])
        /\ \A d \in Workers : d # c => wstop'[d] = wstop[d]
    BY <2>1
  <2> QED
    BY <1>1, <2>1, <2>3, <2>4
<1>3. CASE cgiEnds(c)
  <2>1. /\ wsignals' = [wsignals EXCEPT ![c] = IF Running(c) THEN @ \cup {"CHLD"} ELSE @]
        /\ wstop' = wstop
    BY <1>3 DEF cgiEnds
  <2>2. \A d \in Workers : wsignals'[d] = wsignals[d] \/ wsignals'[d] = wsignals[d] \cup {"CHLD"}
    BY <2>1
  <2>3. wsignals' \in [Workers -> SUBSET Signal]
    BY <2>1 DEF Signal
  <2> QED
    BY <1>1, <2>1, <2>2, <2>3
<1>4. CASE UNCHANGED <<wsignals, wstop>>
  BY <1>1, <1>4
<1>5. workerSignals(c) \/ cgiEnds(c) \/ UNCHANGED <<wsignals, wstop>>
  BY DEF connect, workerSetup, workerWait, workerEndsBatch, accept, workerReaped, process
<1> QED
  BY <1>2, <1>3, <1>4, <1>5

(* What any step is for the parent and its signals: one of the parent's,   *)
(* a death, TERM from outside, or one that does not concern them.          *)
LEMMA PoolSteps ==
    ASSUME Next
    PROVE  \/ terminate \/ ParentStep
           \/ \E c \in Workers : Aside(c) \/ crash(c) \/ workerKilled(c) \/ workerReturns(c)
<1>1. 0 \in Workers
  BY PoolAssumption DEF Workers
<1>2. CASE connect
  BY <1>1, <1>2 DEF Aside
<1> QED
  BY <1>2 DEF Next, WorkerStep, Aside

LEMMA PoolTypesKeep ==
    ASSUME PoolTypes, Next
    PROVE  PoolTypes' /\ world' = world
<1> USE DEF workers, bounds, parent, listening
<1>1. CASE terminate
  BY <1>1 DEF terminate, Raise, PoolTypes, Signal
<1>2. CASE setup_sig_pipe \/ parentWait \/ parentEndsBatch \/ parentReturns \/ notify
           \/ parentEndsSignals \/ endReaping
  BY <1>2 DEF setup_sig_pipe, parentWait, parentEndsBatch, parentReturns, notify,
              parentEndsSignals, endReaping, PoolTypes
<1>3. CASE sig_handler
  BY <1>3, Written DEF sig_handler, PoolTypes
<1>4. CASE parentSignals
  <2>1. <<>> \in Seq(Signal)
    OBVIOUS
  <2> QED
    BY <1>4, <2>1 DEF parentSignals, PoolTypes
<1>5. CASE killAll
  <2>1. signals' \in Seq(Signal)
    BY <1>5, Taken DEF killAll, PoolTypes
  <2>2. wsignals' \in [Workers -> SUBSET Signal]
    <3>1. ASSUME NEW c \in Workers
          PROVE  (IF c \in m_pid /\ Running(c) THEN wsignals[c] \cup {"TERM"} ELSE wsignals[c])
                    \in SUBSET Signal
      BY DEF PoolTypes, Signal
    <3> QED
      BY <1>5, <3>1 DEF killAll
  <2> QED
    BY <1>5, <2>1, <2>2 DEF killAll, PoolTypes
<1>6. CASE startReaping
  BY <1>6, Taken DEF startReaping, PoolTypes
<1>7. ASSUME NEW c \in Workers, reap(c) PROVE PoolTypes' /\ world' = world
  <2>1. (m_stop /\ m_pid' = {}) \in BOOLEAN
    OBVIOUS
  <2> QED
    BY <1>7, <2>1 DEF reap, PoolTypes
<1>8. ASSUME NEW c \in Workers, Aside(c) PROVE PoolTypes' /\ world' = world
  BY <1>8, AsideKeeps DEF PoolTypes
<1>9. ASSUME NEW c \in Workers, crash(c) \/ workerKilled(c) \/ workerReturns(c)
      PROVE  PoolTypes' /\ world' = world
  <2>1. Die(c) /\ world' = world
    BY <1>9 DEF crash, workerKilled, workerReturns
  <2>2. /\ proc' = [proc EXCEPT ![c] = "zombie"] /\ ppc' = ppc
        /\ pending' \subseteq pending \cup {"CHLD"} /\ unseen' \subseteq unseen \cup {c}
        /\ wsignals' = [wsignals EXCEPT ![c] = {}] /\ wstop' = wstop
        /\ UNCHANGED <<events, sig_pipe, signals, m_stop, m_pid, killed>>
    BY <2>1, Dies
  <2> QED
    BY <2>1, <2>2 DEF PoolTypes, Signal
<1> QED
  BY <1>1, <1>2, <1>3, <1>4, <1>5, <1>6, <1>7, <1>8, <1>9, PoolSteps DEF ParentStep

(* A death that the parent may know of is announced.                       *)
LEMMA DeathKeeps ==
    ASSUME PoolTypes, DeathInv, Next
    PROVE  DeathInv'
<1> USE DEF workers, bounds, parent, listening, PoolTypes
<1>1. CASE terminate
  <2>1. pending \subseteq pending' \/ ppc' = "done"
    BY <1>1 DEF terminate, Raise
  <2> QED
    BY <1>1, <2>1 DEF terminate, Raise, DeathInv, DeathNoticed
<1>2. CASE setup_sig_pipe
  BY <1>2 DEF setup_sig_pipe, DeathInv, DeathNoticed
<1>3. CASE parentWait \/ parentEndsBatch \/ parentReturns \/ notify
  BY <1>3 DEF parentWait, parentEndsBatch, parentReturns, notify, DeathInv, DeathNoticed
<1>4. CASE parentEndsSignals
  <2>1. \A s : ~ \E k \in DOMAIN <<>> : <<>>[k] = s
    OBVIOUS
  <2> QED
    BY <1>4, <2>1 DEF parentEndsSignals, DeathInv, DeathNoticed
<1>5. CASE endReaping
  BY <1>5 DEF endReaping, DeathInv, DeathNoticed
<1>6. CASE sig_handler
  <2>1. PICK s \in pending : pending' = pending \ {s} /\ sig_pipe' = Append(sig_pipe, s)
    BY <1>6 DEF sig_handler
  <2>2. UNCHANGED <<ppc, proc, signals, unseen>>
    BY <1>6 DEF sig_handler
  <2>3. "CHLD" \in pending \/ (\E k \in DOMAIN sig_pipe : sig_pipe[k] = "CHLD")
          => "CHLD" \in pending' \/ \E k \in DOMAIN sig_pipe' : sig_pipe'[k] = "CHLD"
    <3>1. sig_pipe \in Seq(Signal) /\ s \in Signal
      BY <2>1
    <3>2. /\ \E k \in DOMAIN sig_pipe' : sig_pipe'[k] = s
          /\ (\E k \in DOMAIN sig_pipe : sig_pipe[k] = "CHLD")
                => \E k \in DOMAIN sig_pipe' : sig_pipe'[k] = "CHLD"
      <4>1. /\ Holds(Append(sig_pipe, s), s)
            /\ Holds(sig_pipe, "CHLD") => Holds(Append(sig_pipe, s), "CHLD")
        BY <3>1, Written
      <4> QED
        BY <2>1, <4>1 DEF Holds
    <3>3. "CHLD" \in pending => "CHLD" \in pending' \/ s = "CHLD"
      BY <2>1
    <3> QED
      BY <3>2, <3>3
  <2> QED
    BY <2>2, <2>3 DEF DeathInv, DeathNoticed
<1>7. CASE parentSignals
  <2>1. \A s : ~ \E k \in DOMAIN <<>> : <<>>[k] = s
    OBVIOUS
  <2> QED
    BY <1>7, <2>1 DEF parentSignals, DeathInv, DeathNoticed
<1>8. CASE killAll
  <2>1. (\E k \in DOMAIN signals : signals[k] = "CHLD")
          => \E k \in DOMAIN signals' : signals'[k] = "CHLD"
    BY <1>8, Taken DEF killAll
  <2> QED
    BY <1>8, <2>1 DEF killAll, DeathInv, DeathNoticed
<1>9. CASE startReaping
  BY <1>9 DEF startReaping, DeathInv, DeathNoticed
<1>10. ASSUME NEW c \in Workers, reap(c) PROVE DeathInv'
  BY <1>10 DEF reap, DeathInv, DeathNoticed
<1>11. ASSUME NEW c \in Workers, Aside(c) PROVE DeathInv'
  <2>1. UNCHANGED <<parent, proc>>
    BY <1>11, AsideKeeps
  <2> QED
    BY <2>1 DEF DeathInv, DeathNoticed
<1>12. ASSUME NEW c \in Workers, crash(c) \/ workerKilled(c) \/ workerReturns(c)
       PROVE  DeathInv'
  <2>1. Die(c)
    BY <1>12 DEF crash, workerKilled, workerReturns
  <2> QED
    BY <2>1, Dies DEF DeathInv, DeathNoticed
<1> QED
  BY <1>1, <1>2, <1>3, <1>4, <1>5, <1>6, <1>7, <1>8, <1>9, <1>10, <1>11, <1>12, PoolSteps
     DEF ParentStep

(* Signals one at a time.  Nothing is on its way to the parent, or one     *)
(* TERM, or the SIGCHLD of the only dead worker, which it may be reaping.  *)
DeadOnly(z) == \A c \in Workers : proc[c] = "zombie" <=> c = z
NobodyDead == \A c \in Workers : proc[c] # "zombie"
OnTheWay(P, q, r) == pending = P /\ sig_pipe = q /\ signals = r
Nothing == OnTheWay({}, <<>>, <<>>)
Alone(sig) ==
    \/ OnTheWay({sig}, <<>>, <<>>)
    \/ OnTheWay({}, <<sig>>, <<>>)
    \/ OnTheWay({}, <<>>, <<sig>>) /\ ppc = "signals"
OneByOne ==
    \/ Nothing /\ NobodyDead
    \/ Alone("TERM") /\ NobodyDead /\ ppc \notin {"setup", "reaping"}
    \/ /\ Alone("CHLD") /\ ppc \notin {"setup", "reaping"}
       /\ \E z \in Workers : DeadOnly(z)
    \/ Nothing /\ ppc = "reaping" /\ \E z \in Workers : DeadOnly(z)

(* Once the workers are killed, nothing is read of the signal pipe any     *)
(* more: m_stop stays.  Before, no worker has a reason to end, and m_stop  *)
(* says that no worker is known, except that it is set too early while     *)
(* the last bytes are handled.                                             *)
StopInv ==
    /\ ppc \in {"signals", "reaping"} => "signal" \notin events
    /\ \A c \in Workers : c \in m_pid <=> proc[c] # "gone"
    /\ ~killed => \A c \in Workers : "TERM" \notin wsignals[c] /\ ~wstop[c]
    /\ world.spaced /\ killed =>
          /\ m_stop /\ signals = <<>> /\ "signal" \notin events
          /\ ppc \in {"signals", "events", "wait", "done"}
    /\ world.spaced /\ ~killed /\ ppc # "done" =>
          /\ OneByOne
          /\ ppc = "reaping" /\ ~NobodyDead => m_stop
          /\ ppc # "reaping" \/ NobodyDead => (m_stop <=> m_pid = {})

LEMMA StopKeeps ==
    ASSUME PoolTypes, PoolTypes', StopInv, Next, world' = world
    PROVE  StopInv'
<1> USE OneSignal DEF workers, bounds, parent, listening, PoolTypes, Signal
<1> USE DEF StopInv, OneByOne, Alone, OnTheWay, Nothing, NobodyDead, DeadOnly
<1>1. CASE terminate
  BY <1>1 DEF terminate, Raise, Quiet
<1>2. CASE setup_sig_pipe
  BY <1>2 DEF setup_sig_pipe
<1>3. CASE parentWait
  BY <1>3 DEF parentWait
<1>4. CASE parentEndsBatch \/ parentReturns
  BY <1>4 DEF parentEndsBatch, parentReturns
<1>5. CASE notify
  BY <1>5 DEF notify
<1>6. CASE parentEndsSignals
  BY <1>6 DEF parentEndsSignals
<1>7. CASE endReaping
  BY <1>7 DEF endReaping
<1>8. CASE sig_handler
  <2>1. PICK s \in pending : pending' = pending \ {s} /\ sig_pipe' = Append(sig_pipe, s)
    BY <1>8 DEF sig_handler
  <2>2. ppc # "done" /\ UNCHANGED <<proc, events, signals, ppc, m_stop, m_pid, killed, wsignals, wstop>>
    BY <1>8 DEF sig_handler
  <2>3. ASSUME NEW sig \in Signal, Alone(sig) PROVE s = sig /\ OnTheWay({}, <<sig>>, <<>>)'
    BY <2>1, <2>2, <2>3
  <2>4. ~Nothing
    BY <2>1
  <2>5. /\ Alone("TERM") => OnTheWay({}, <<"TERM">>, <<>>)'
        /\ Alone("CHLD") => OnTheWay({}, <<"CHLD">>, <<>>)'
    BY <2>3
  <2>6. OneByOne => OneByOne'
    <3> HIDE DEF Nothing
    <3>1. Alone("TERM") => Alone("TERM")'
      BY <2>5
    <3>2. Alone("CHLD") => Alone("CHLD")'
      BY <2>5
    <3> HIDE DEF Alone
    <3> QED
      BY <2>2, <2>4, <3>1, <3>2
  <2> HIDE DEF OneByOne
  <2> QED
    BY <2>2, <2>6
<1>9. CASE parentSignals
  BY <1>9 DEF parentSignals
<1>10. CASE killAll
  BY <1>10 DEF killAll
<1>11. CASE startReaping
  BY <1>11 DEF startReaping
<1>12. ASSUME NEW c \in Workers, reap(c) PROVE StopInv'
  BY <1>12 DEF reap
<1>13. ASSUME NEW c \in Workers, Aside(c) PROVE StopInv'
  BY <1>13, AsideKeeps
<1>14. ASSUME NEW c \in Workers, crash(c) PROVE StopInv'
  <2>1. /\ proc[c] = "running" /\ (world.spaced => Quiet)
        /\ proc' = [proc EXCEPT ![c] = "zombie"] /\ ppc' = ppc
        /\ pending' = (IF ppc \in {"setup", "done"} THEN pending ELSE pending \cup {"CHLD"})
        /\ wsignals' = [wsignals EXCEPT ![c] = {}] /\ wstop' = wstop
        /\ UNCHANGED <<events, sig_pipe, signals, m_stop, m_pid, killed>>
    BY <1>14, Dies DEF crash, Running
  <2>2. \A d \in Workers : d \in m_pid' <=> proc'[d] # "gone"
    BY <2>1
  <2>3. ~killed => \A d \in Workers : "TERM" \notin wsignals'[d] /\ ~wstop'[d]
    BY <2>1
  <2>4. ASSUME world.spaced, ~killed, ppc # "done"
        PROVE  OneByOne' /\ ppc # "reaping" /\ NobodyDead
    <3>1. NobodyDead /\ Nothing /\ ppc \notin {"setup", "reaping"}
      BY <2>1, <2>4 DEF Quiet
    <3>2. DeadOnly(c)'
      BY <2>1, <3>1
    <3>3. OnTheWay({"CHLD"}, <<>>, <<>>)'
      BY <2>1, <2>4, <3>1
    <3> HIDE DEF DeadOnly, OnTheWay
    <3> QED
      BY <2>1, <3>1, <3>2, <3>3
  <2> HIDE DEF OneByOne
  <2> QED
    BY <2>1, <2>2, <2>3, <2>4
<1>15. ASSUME NEW c \in Workers, workerKilled(c) \/ workerReturns(c) PROVE StopInv'
  BY <1>15, Dies DEF workerKilled, workerReturns, Running
<1> QED
  BY <1>1, <1>2, <1>3, <1>4, <1>5, <1>6, <1>7, <1>8, <1>9, <1>10, <1>11, <1>12, <1>13,
     <1>14, <1>15, PoolSteps DEF ParentStep

-----------------------------------------------------------------------------
(* The notices: as many as the pipes hold, and a worker that has an event  *)
(* of its pipe finds one there.                                            *)
NoticeInv ==
    /\ backlog \in Nat /\ listenReady \in BOOLEAN
    /\ pipefd \in [Workers -> Nat]
    /\ wevents \in [Workers -> SUBSET {"pipe", "signal", "client"}]
    /\ \A c \in Workers : "pipe" \in wevents[c] => pipefd[c] > 0
    /\ IsFiniteSet(Notices)
    /\ NoticesBacked

LEMMA OneMore ==
    ASSUME NEW n \in Workers, pipefd \in [Workers -> Nat], IsFiniteSet(Notices),
           pipefd' = [pipefd EXCEPT ![n] = @ + 1]
    PROVE  /\ pipefd' \in [Workers -> Nat] /\ IsFiniteSet(Notices')
           /\ Cardinality(Notices') = Cardinality(Notices) + 1
<1>1. \A m \in Nat : 1 .. m + 1 = (1 .. m) \cup {m + 1}
  OBVIOUS
<1>2. Notices' = Notices \cup {<<n, pipefd[n] + 1>>}
  BY <1>1 DEF Notices
<1>3. <<n, pipefd[n] + 1>> \notin Notices
  BY DEF Notices
<1>4. pipefd' \in [Workers -> Nat]
  OBVIOUS
<1> QED
  BY <1>2, <1>3, <1>4, FS_AddElement

LEMMA OneLess ==
    ASSUME NEW n \in Workers, pipefd \in [Workers -> Nat], IsFiniteSet(Notices),
           pipefd[n] > 0, pipefd' = [pipefd EXCEPT ![n] = @ - 1]
    PROVE  /\ pipefd' \in [Workers -> Nat] /\ IsFiniteSet(Notices')
           /\ Cardinality(Notices) > 0
           /\ Cardinality(Notices') = Cardinality(Notices) - 1
<1>1. \A m \in Nat : m > 0 => 1 .. m - 1 = (1 .. m) \ {m}
  OBVIOUS
<1>2. Notices' = Notices \ {<<n, pipefd[n]>>}
  BY <1>1 DEF Notices
<1>3. <<n, pipefd[n]>> \in Notices
  BY DEF Notices
<1>4. Cardinality(Notices) # 0
  BY <1>3, FS_EmptySet
<1> QED
  BY <1>2, <1>3, <1>4, FS_RemoveElement, FS_CardinalityType

LEMMA NoticesKeep ==
    ASSUME PoolTypes, NoticeInv, Next
    PROVE  NoticeInv'
<1> USE DEF workers, bounds, parent, listening, NoticeInv
<1>0. Cardinality(Notices) \in Nat
  BY FS_CardinalityType
<1>a. ASSUME UNCHANGED pipefd PROVE Notices' = Notices
  BY <1>a DEF Notices
<1>1. CASE connect
  BY <1>0, <1>a, <1>1 DEF connect, NoticesBacked
<1>2. CASE parentWait
  <2>1. /\ UNCHANGED <<pipefd, backlog, wevents>> /\ listenReady' = FALSE
        /\ "listen" \in events' => listenReady
    BY <1>2 DEF parentWait
  <2>2. Notices' = Notices
    BY <1>a, <2>1
  <2>3. NoticesBacked'
    <3>1. CASE listenReady
      <4>1. Cardinality(Notices) + 1 <= backlog
        BY <1>0, <3>1 DEF NoticesBacked
      <4> QED
        BY <1>0, <2>1, <2>2, <4>1 DEF NoticesBacked
    <3>2. CASE ~listenReady
      <4>1. Cardinality(Notices) <= backlog /\ "listen" \notin events'
        BY <1>0, <2>1, <3>2 DEF NoticesBacked
      <4> QED
        BY <1>0, <2>1, <2>2, <4>1 DEF NoticesBacked
    <3> QED
      BY <3>1, <3>2
  <2> QED
    BY <2>1, <2>2, <2>3
<1>3. CASE notify
  <2>1. CASE UNCHANGED pipefd
    <3>1. Notices' = Notices
      BY <1>a, <2>1
    <3>2. "listen" \in events' => "listen" \in events
      BY <1>3 DEF notify
    <3> QED
      BY <1>0, <1>3, <2>1, <3>1, <3>2 DEF notify, NoticesBacked
  <2>2. CASE ~ UNCHANGED pipefd
    <3>1. PICK n : /\ events' = events \ {"listen"}
                   /\ pipefd' = [pipefd EXCEPT ![n] = @ + 1]
      BY <1>3, <2>2 DEF notify
    <3>2. n \in Workers
      BY <2>2, <3>1
    <3>3. /\ pipefd' \in [Workers -> Nat] /\ IsFiniteSet(Notices')
          /\ Cardinality(Notices') = Cardinality(Notices) + 1
      BY <3>1, <3>2, OneMore
    <3>4. \A c \in Workers : pipefd'[c] >= pipefd[c]
      BY <3>1
    <3> QED
      BY <1>0, <1>3, <3>1, <3>3, <3>4 DEF notify, NoticesBacked
  <2> QED
    BY <2>1, <2>2
<1>4. CASE parentSignals
  BY <1>a, <1>4 DEF parentSignals, NoticesBacked
<1>5. CASE \/ terminate \/ setup_sig_pipe \/ sig_handler \/ parentEndsBatch \/ parentReturns
           \/ parentEndsSignals \/ killAll \/ startReaping \/ endReaping
           \/ \E c \in Workers : reap(c)
  <2>1. UNCHANGED <<backlog, listenReady, events, pipefd, wevents>>
    BY <1>5 DEF terminate, setup_sig_pipe, sig_handler, parentEndsBatch, parentReturns,
                parentEndsSignals, killAll, startReaping, endReaping, reap
  <2> QED
    BY <1>a, <2>1 DEF NoticesBacked
<1>6. ASSUME NEW c \in Workers,
             workerSetup(c) \/ workerEndsBatch(c) \/ workerReaped(c) \/ cgiEnds(c)
      PROVE  NoticeInv'
  <2>1. UNCHANGED <<backlog, listenReady, events, pipefd, wevents>>
    BY <1>6 DEF workerSetup, workerEndsBatch, workerReaped, cgiEnds
  <2> QED
    BY <1>a, <2>1 DEF NoticesBacked
<1>7. ASSUME NEW c \in Workers, workerSignals(c) \/ process(c) PROVE NoticeInv'
  <2>1. UNCHANGED <<backlog, listenReady, events, pipefd>>
    BY <1>7 DEF workerSignals, process
  <2>2. wevents' = [wevents EXCEPT ![c] = @ \ {"signal"}]
        \/ wevents' = [wevents EXCEPT ![c] = @ \ {"client"}]
    BY <1>7 DEF workerSignals, process
  <2> QED
    BY <1>a, <2>1, <2>2 DEF NoticesBacked
<1>8. ASSUME NEW c \in Workers, workerWait(c) PROVE NoticeInv'
  <2>1. UNCHANGED <<backlog, listenReady, events, pipefd>>
    BY <1>8 DEF workerWait
  <2>2. PICK e \in SUBSET {"pipe", "signal", "client"} :
            /\ wevents' = [wevents EXCEPT ![c] = e]
            /\ "pipe" \in e => pipefd[c] > 0
    <3>1. PICK requests \in SUBSET (IF conns[c] > 0 THEN {"client"} ELSE {}) :
             wevents' = [wevents EXCEPT ![c] =
                requests
                \cup (IF pipeReady[c] /\ pipefd[c] > 0 THEN {"pipe"} ELSE {})
                \cup (IF wsignals[c] # {} THEN {"signal"} ELSE {})]
      BY <1>8 DEF workerWait
    <3>2. requests \subseteq {"client"}
      OBVIOUS
    <3> DEFINE e == requests
                    \cup (IF pipeReady[c] /\ pipefd[c] > 0 THEN {"pipe"} ELSE {})
                    \cup (IF wsignals[c] # {} THEN {"signal"} ELSE {})
    <3>3. e \in SUBSET {"pipe", "signal", "client"} /\ ("pipe" \in e => pipefd[c] > 0)
      BY <3>2
    <3> HIDE DEF e
    <3>4. wevents' = [wevents EXCEPT ![c] = e]
      BY <3>1 DEF e
    <3> QED
      BY <3>3, <3>4
  <2> QED
    BY <1>a, <2>1, <2>2 DEF NoticesBacked
<1>9. ASSUME NEW c \in Workers, accept(c) PROVE NoticeInv'
  <2>1. /\ "pipe" \in wevents[c] /\ pipefd[c] > 0
        /\ wevents' = [wevents EXCEPT ![c] = @ \ {"pipe"}]
        /\ pipefd' = [pipefd EXCEPT ![c] = @ - 1]
        /\ backlog' = (IF backlog > 0 THEN backlog - 1 ELSE backlog)
        /\ UNCHANGED <<events, listenReady>>
    BY <1>9 DEF accept
  <2>2. /\ pipefd' \in [Workers -> Nat] /\ IsFiniteSet(Notices')
        /\ Cardinality(Notices) > 0
        /\ Cardinality(Notices') = Cardinality(Notices) - 1
    BY <2>1, OneLess
  <2>3. \A d \in Workers : "pipe" \in wevents'[d] => pipefd'[d] > 0
    BY <2>1
  <2>4. NoticesBacked'
    BY <1>0, <2>1, <2>2 DEF NoticesBacked
  <2> QED
    BY <2>1, <2>2, <2>3, <2>4
<1>10. ASSUME NEW c \in Workers, crash(c) \/ workerKilled(c) \/ workerReturns(c)
       PROVE  NoticeInv'
  <2>1. UNCHANGED <<backlog, listenReady, events, pipefd>>
    BY <1>10 DEF crash, workerKilled, workerReturns, Die
  <2>2. wevents' = [wevents EXCEPT ![c] = {}]
    BY <1>10 DEF crash, workerKilled, workerReturns, Die
  <2> QED
    BY <1>a, <2>1, <2>2 DEF NoticesBacked
<1> QED
  BY <1>1, <1>2, <1>3, <1>4, <1>5, <1>6, <1>7, <1>8, <1>9, <1>10
     DEF Next, ParentStep, WorkerStep

-----------------------------------------------------------------------------
PoolInv == PoolTypes /\ DeathInv /\ StopInv /\ NoticeInv

LEMMA PoolStarts ==
    ASSUME Init
    PROVE  PoolInv
<1> USE DEF Init
<1>1. m_pid # {}
  BY PoolAssumption DEF Workers
<1>2. PoolTypes
  <2>1. wsignals \in [Workers -> SUBSET Signal] /\ wstop \in [Workers -> BOOLEAN]
    OBVIOUS
  <2>2. <<>> \in Seq(Signal)
    OBVIOUS
  <2>3. \A c \in Workers : proc[c] \in {"running", "zombie", "gone"}
    OBVIOUS
  <2> QED
    BY <2>1, <2>2, <2>3 DEF PoolTypes
<1>3. DeathInv
  BY DEF DeathInv, DeathNoticed
<1>4. StopInv
  BY <1>1 DEF StopInv, OneByOne, Nothing, NobodyDead, OnTheWay
<1>5. Notices = {}
  BY DEF Notices
<1>6. NoticeInv
  <2>1. pipefd \in [Workers -> Nat] /\ backlog = 0 /\ listenReady = FALSE /\ events = {}
    OBVIOUS
  <2>2. /\ wevents \in [Workers -> SUBSET {"pipe", "signal", "client"}]
        /\ \A c \in Workers : "pipe" \notin wevents[c]
    OBVIOUS
  <2>3. IsFiniteSet(Notices) /\ Cardinality(Notices) = 0
    BY <1>5, FS_EmptySet
  <2>4. NoticesBacked
    <3> HIDE DEF Init
    <3> QED
      BY <2>1, <2>3 DEF NoticesBacked
  <2> HIDE DEF Init
  <2> QED
    BY <2>1, <2>2, <2>3, <2>4 DEF NoticeInv
<1> QED
  BY <1>2, <1>3, <1>4, <1>6 DEF PoolInv

LEMMA PoolKeeps ==
    ASSUME PoolInv, [Next]_vars
    PROVE  PoolInv'
<1>1. CASE Next
  BY <1>1, PoolTypesKeep, DeathKeeps, StopKeeps, NoticesKeep DEF PoolInv
<1>2. CASE UNCHANGED vars
  <2> USE <1>2 DEF vars, listening, parent, workers, bounds
  <2>1. PoolTypes'
    BY DEF PoolInv, PoolTypes
  <2>2. DeathInv'
    BY DEF PoolInv, DeathInv, DeathNoticed
  <2>3. StopInv'
    BY DEF PoolInv, StopInv, OneByOne, Alone, OnTheWay, Nothing, NobodyDead, DeadOnly
  <2>4. NoticeInv'
    BY DEF PoolInv, NoticeInv, NoticesBacked, Notices
  <2> QED
    BY <2>1, <2>2, <2>3, <2>4 DEF PoolInv
<1> QED
  BY <1>1, <1>2

LEMMA PoolAlways == MCSpec => []PoolInv
<1>1. MCInit => PoolInv
  BY PoolStarts DEF MCInit
<1>2. PoolInv /\ [MCNext]_allVars => PoolInv'
  <2>1. [MCNext]_allVars => [Next]_vars
    BY DEF MCNext, Pool, InTime, InRoom, allVars, poolVars
  <2> QED
    BY <2>1, PoolKeeps
<1> QED
  BY <1>1, <1>2, PTL DEF MCSpec

(* A worker that died is in a signal, a byte or a loop that the parent has *)
(* yet to get to, for every number of workers and every surroundings: a    *)
(* byte of SIGCHLD is never taken out of the pipe without the loop of      *)
(* waitpid (1_processpool.h:271 to 290) that finds everybody who is dead.  *)
THEOREM DeathsAreNoticed == MCSpec => []DeathNoticed
BY PoolAlways, PTL DEF PoolInv, DeathInv

(* The loop of the parent goes on exactly as long as it should when signals*)
(* come one at a time, and no worker calls accept for a connection that    *)
(* somebody else has taken.  The first rests on what can be on its way to  *)
(* the parent, the second on counting the notices in the pipes.            *)
THEOREM PoolIsExact == MCSpec => []PoolExact
<1>1. PoolInv => PoolExact
  BY DEF PoolInv, PoolTypes, StopInv, NoticeInv, PoolExact, StopExact
<1> QED
  BY <1>1, PoolAlways, PTL

-----------------------------------------------------------------------------
(* Numbers: a set of natural numbers has a least one, and the operators    *)
(* Min and Max of the servers find what they look for.                     *)
LEMMA LeastNatural ==
    ASSUME NEW S \in SUBSET Nat, S # {}
    PROVE  \E x \in S : \A y \in S : x <= y
<1>1. PICK x \in S : \A y \in S : ~ (<<y, x>> \in OpToRel(<, Nat))
  BY NatLessThanWellFounded, WFMin
<1>2. \A y \in S : ~(y < x)
  BY <1>1 DEF OpToRel
<1> QED
  BY <1>2

-----------------------------------------------------------------------------
(* The chat room: each entry of the table is of another connection.        *)
Events == {"IN", "OUT", "RDHUP", "ERR"}
Entries == [fd : ChatFds, events : SUBSET Events, revents : SUBSET Events]
ChatInv ==
    /\ fds \in Seq(Entries)
    /\ sock \in [ChatFds -> {"free", "open", "fin", "reset"}]
    /\ Chat!UsersTable

(* With a place left in the table there is a descriptor left to return.    *)
LEMMA PlaceForOne ==
    ASSUME ChatInv, Len(fds) < USER_LIMIT
    PROVE  LET connfd == Chat!Min({fd \in ChatFds : sock[fd] = "free"})
           IN connfd \in ChatFds /\ sock[connfd] = "free"
<1> DEFINE F == {fd \in ChatFds : sock[fd] = "free"}
<1>1. Len(fds) \in Nat /\ fds \in [1 .. Len(fds) -> Entries] /\ DOMAIN fds = 1 .. Len(fds)
  BY DEF ChatInv
<1>2. F # {}
  <2> SUFFICES ASSUME F = {} PROVE FALSE
    OBVIOUS
  <2> DEFINE f == [k \in 1 .. Len(fds) |-> fds[k].fd]
  <2>1. f \in [1 .. Len(fds) -> ChatFds]
    BY <1>1 DEF Entries
  <2>2. \A fd \in ChatFds : \E k \in 1 .. Len(fds) : fds[k].fd = fd
    BY <1>1 DEF ChatInv, Chat!UsersTable
  <2>3. f \in Surjection(1 .. Len(fds), ChatFds)
    BY <2>1, <2>2 DEF Surjection
  <2>4. IsFiniteSet(1 .. Len(fds)) /\ Cardinality(1 .. Len(fds)) = Len(fds)
    BY <1>1, FS_Interval
  <2>5. Cardinality(ChatFds) <= Len(fds)
    BY <2>3, <2>4, FS_Surjection
  <2> QED
    BY <1>1, <2>5, ChatAssumption, FS_CardinalityType
<1>3. \E x \in F : \A y \in F : x <= y
  <2>1. F \subseteq Nat
    BY ChatAssumption
  <2> HIDE DEF F
  <2> QED
    BY <1>2, <2>1, LeastNatural
<1>4. Chat!Min(F) \in F
  <2> HIDE DEF F
  <2> QED
    BY <1>3 DEF Chat!Min
<1> QED
  BY <1>4

(* Entries that keep their descriptors, of connections that stay.          *)
SameTable ==
    /\ fds' \in Seq(Entries) /\ Len(fds') = Len(fds)
    /\ \A k \in 1 .. Len(fds) : fds'[k].fd = fds[k].fd
    /\ sock' \in [ChatFds -> {"free", "open", "fin", "reset"}]
    /\ \A fd \in ChatFds : sock'[fd] = "free" <=> sock[fd] = "free"

LEMMA SameTableKeeps ==
    ASSUME ChatInv, SameTable
    PROVE  ChatInv'
<1>1. DOMAIN fds = 1 .. Len(fds) /\ DOMAIN fds' = 1 .. Len(fds)
  BY DEF ChatInv, SameTable
<1>2. {fds'[k].fd : k \in DOMAIN fds'} = {fds[k].fd : k \in DOMAIN fds}
  BY <1>1 DEF SameTable
<1>3. {fd \in ChatFds : sock'[fd] # "free"} = {fd \in ChatFds : sock[fd] # "free"}
  BY DEF SameTable
<1>4. \A k, l \in DOMAIN fds' : fds'[k].fd = fds'[l].fd => k = l
  BY <1>1 DEF SameTable, ChatInv, Chat!UsersTable
<1> QED
  BY <1>2, <1>3, <1>4 DEF SameTable, ChatInv, Chat!UsersTable, Chat!user_counter

(* A function on 1 .. n is a sequence of n.                                *)
LEMMA OfLength ==
    ASSUME NEW S, NEW n \in Nat, NEW f \in [1 .. n -> S]
    PROVE  f \in Seq(S) /\ Len(f) = n
OBVIOUS

(* leave: the entry of one who leaves is taken by the last.                *)
LEMMA LeaveKeeps ==
    ASSUME ChatInv, i \in DOMAIN fds, Chat!leave
    PROVE  ChatInv'
<1> DEFINE n == Len(fds)
           fd == fds[i].fd
<1>1. /\ n \in Nat /\ DOMAIN fds = 1 .. n /\ i \in 1 .. n /\ n > 0
      /\ \A k \in 1 .. n : fds[k] \in Entries /\ fds[k].fd \in ChatFds
  <2>1. n \in Nat /\ DOMAIN fds = 1 .. n /\ fds \in [1 .. n -> Entries]
    BY DEF ChatInv
  <2>2. \A k \in 1 .. n : fds[k] \in Entries
    BY <2>1
  <2> QED
    BY <2>1, <2>2 DEF Entries
<1>2. /\ fds' = SubSeq([fds EXCEPT ![i] = fds[n]], 1, n - 1)
      /\ sock' = [sock EXCEPT ![fd] = "free"]
  BY DEF Chat!leave, Chat!user_counter
<1>3. /\ fds' \in Seq(Entries) /\ Len(fds') = n - 1
      /\ \A k \in 1 .. n - 1 : fds'[k] = IF k = i THEN fds[n] ELSE fds[k]
  <2> DEFINE g == [fds EXCEPT ![i] = fds[n]]
  <2>1. g \in Seq(Entries) /\ Len(g) = n /\ \A k \in 1 .. n : g[k] = IF k = i THEN fds[n] ELSE fds[k]
    BY <1>1 DEF ChatInv
  <2>2. \A k \in 1 .. n - 1 : g[k] \in Entries
    BY <1>1, <2>1
  <2> HIDE DEF g
  <2>3. fds' = SubSeq(g, 1, n - 1)
    BY <1>2 DEF g
  <2> QED
    BY <1>1, <2>1, <2>2, <2>3, SubSeqProperties
<1>4. DOMAIN fds' = 1 .. n - 1
  BY <1>1, <1>3
<1>5. \A k, l \in 1 .. n : fds[k].fd = fds[l].fd => k = l
  BY <1>1 DEF ChatInv, Chat!UsersTable
<1>6. \A k, l \in DOMAIN fds' : fds'[k].fd = fds'[l].fd => k = l
  BY <1>1, <1>3, <1>4, <1>5
<1>7. {fds[k].fd : k \in 1 .. n} = {c \in ChatFds : sock[c] # "free"}
  BY <1>1 DEF ChatInv, Chat!UsersTable
<1>8. {fds'[k].fd : k \in DOMAIN fds'} = {fds[k].fd : k \in 1 .. n} \ {fd}
  <2>1. ASSUME NEW k \in 1 .. n - 1
        PROVE  fds'[k].fd \in {fds[l].fd : l \in 1 .. n} \ {fd}
    BY <1>1, <1>3, <1>5
  <2>2. ASSUME NEW l \in 1 .. n, fds[l].fd # fd
        PROVE  \E k \in 1 .. n - 1 : fds'[k].fd = fds[l].fd
    <3>1. CASE l = n
      <4>1. i \in 1 .. n - 1 /\ fds'[i].fd = fds[l].fd
        BY <1>1, <1>3, <2>2, <3>1
      <4> QED
        BY <4>1
    <3>2. CASE l # n
      <4>1. l # i /\ l \in 1 .. n - 1
        <5>1. l # i
          BY <2>2
        <5>2. l \in 1 .. n - 1
          <6>1. n \in Nat /\ l # n
            BY <1>1, <3>2
          <6> HIDE DEF n
          <6> QED
            BY <6>1
        <5> QED
          BY <5>1, <5>2
      <4>2. fds'[l] = fds[l]
        BY <1>3, <4>1
      <4> QED
        BY <4>1, <4>2
    <3> QED
      BY <3>1, <3>2
  <2> HIDE DEF fd, n
  <2> QED
    BY <1>4, <2>1, <2>2
<1>9. {c \in ChatFds : sock'[c] # "free"} = {c \in ChatFds : sock[c] # "free"} \ {fd}
  BY <1>1, <1>2 DEF ChatInv
<1>10. sock' \in [ChatFds -> {"free", "open", "fin", "reset"}]
  BY <1>2 DEF ChatInv
<1>11. Len(fds') <= USER_LIMIT
  BY <1>1, <1>3, ChatAssumption DEF ChatInv, Chat!UsersTable, Chat!user_counter
<1> QED
  BY <1>3, <1>6, <1>7, <1>8, <1>9, <1>10, <1>11 DEF ChatInv, Chat!UsersTable, Chat!user_counter

LEMMA ChatKeeps ==
    ASSUME ChatInv, Chat!Next
    PROVE  ChatInv'
<1> DEFINE n == Len(fds)
<1>1. /\ n \in Nat /\ DOMAIN fds = 1 .. n /\ fds \in [1 .. n -> Entries]
      /\ \A k \in 1 .. n : fds[k].fd \in ChatFds
      /\ sock \in [ChatFds -> {"free", "open", "fin", "reset"}]
  <2>1. n \in Nat /\ DOMAIN fds = 1 .. n /\ fds \in [1 .. n -> Entries]
    BY DEF ChatInv
  <2>2. \A k \in 1 .. n : fds[k] \in Entries
    BY <2>1
  <2> QED
    BY <2>1, <2>2 DEF ChatInv, Entries
<1>2. ASSUME UNCHANGED <<fds, sock>> PROVE ChatInv'
  BY <1>2 DEF ChatInv, Chat!UsersTable, Chat!user_counter
<1>3. CASE \/ Chat!connect \/ Chat!pollAgain \/ Chat!pollerr \/ Chat!nothing
           \/ \E fd \in ChatFds : Chat!say(fd)
  BY <1>2, <1>3 DEF Chat!connect, Chat!pollAgain, Chat!pollerr, Chat!nothing, Chat!say,
                    Chat!network
<1>4. ASSUME NEW fd \in ChatFds, Chat!hangUp(fd) PROVE ChatInv'
  <2>1. SameTable
    BY <1>1, <1>4 DEF Chat!hangUp, SameTable, ChatInv
  <2> QED
    BY <2>1, SameTableKeeps
<1>5. CASE Chat!poll
  <2>1. ASSUME NEW k \in 1 .. n
        PROVE  [fds[k] EXCEPT !.revents = Chat!revents(fds[k])] \in Entries
    BY <1>1 DEF Entries, Events, Chat!revents
  <2>2. fds' = [k \in 1 .. n |-> [fds[k] EXCEPT !.revents = Chat!revents(fds[k])]]
    BY <1>1, <1>5 DEF Chat!poll
  <2>3. fds' \in [1 .. n -> Entries]
    BY <2>1, <2>2
  <2>4. \A k \in 1 .. n : fds'[k].fd = fds[k].fd
    BY <1>1, <2>2 DEF Entries
  <2>5. sock' = sock
    BY <1>5 DEF Chat!poll, Chat!network
  <2>6. SameTable
    BY <1>1, <2>3, <2>4, <2>5, OfLength DEF SameTable
  <2> QED
    BY <2>6, SameTableKeeps
<1>6. CASE Chat!accept
  <2>1. CASE UNCHANGED <<fds, sock>>
    BY <1>2, <2>1
  <2>2. CASE ~ UNCHANGED <<fds, sock>>
    <3> DEFINE connfd == Chat!Min({fd \in ChatFds : sock[fd] = "free"})
               e == [fd |-> connfd, events |-> {"IN", "RDHUP"}, revents |-> {}]
    <3>1. n < USER_LIMIT /\ sock' = [sock EXCEPT ![connfd] = "open"] /\ fds' = Append(fds, e)
      BY <1>6, <2>2 DEF Chat!accept, Chat!user_counter
    <3>2. connfd \in ChatFds /\ sock[connfd] = "free"
      BY <3>1, PlaceForOne
    <3>3. e \in Entries /\ e.fd = connfd
      BY <3>2 DEF Entries, Events
    <3> HIDE DEF connfd, e
    <3>4. /\ fds' \in Seq(Entries) /\ Len(fds') = n + 1 /\ DOMAIN fds' = 1 .. n + 1
          /\ fds'[n + 1].fd = connfd /\ \A k \in 1 .. n : fds'[k] = fds[k]
      BY <1>1, <3>1, <3>3 DEF ChatInv
    <3>5. \A k \in 1 .. n : fds[k].fd # connfd
      BY <1>1, <3>2 DEF ChatInv, Chat!UsersTable
    <3>6. \A k, l \in DOMAIN fds' : fds'[k].fd = fds'[l].fd => k = l
      BY <1>1, <3>4, <3>5 DEF ChatInv, Chat!UsersTable
    <3>7. {fds'[k].fd : k \in DOMAIN fds'} = {fds[k].fd : k \in DOMAIN fds} \cup {connfd}
      BY <1>1, <3>4
    <3>8. {fd \in ChatFds : sock'[fd] # "free"} = {fd \in ChatFds : sock[fd] # "free"} \cup {connfd}
      BY <1>1, <3>1, <3>2
    <3>9. sock' \in [ChatFds -> {"free", "open", "fin", "reset"}] /\ n + 1 <= USER_LIMIT
      <4>1. n + 1 <= USER_LIMIT
        BY <1>1, <3>1, ChatAssumption
      <4> QED
        BY <1>1, <3>1, <4>1
    <3> QED
      BY <3>4, <3>6, <3>7, <3>8, <3>9 DEF ChatInv, Chat!UsersTable, Chat!user_counter
  <2> QED
    BY <2>1, <2>2
<1>7. CASE Chat!pollrdhup
  BY <1>7, LeaveKeeps DEF Chat!pollrdhup, Chat!At
<1>8. CASE Chat!pollin
  <2>1. i \in DOMAIN fds
    BY <1>8 DEF Chat!pollin, Chat!At
  <2>2. CASE Chat!leave
    BY <2>1, <2>2, LeaveKeeps
  <2>3. CASE UNCHANGED <<fds, sock>>
    BY <1>2, <2>3
  <2>4. CASE /\ fds' = [k \in DOMAIN fds |-> IF k = i THEN fds[k] ELSE Chat!askToWrite(fds[k])]
             /\ UNCHANGED sock
    <3>1. ASSUME NEW k \in 1 .. n
          PROVE  Chat!askToWrite(fds[k]) \in Entries /\ Chat!askToWrite(fds[k]).fd = fds[k].fd
      BY <1>1 DEF Entries, Events, Chat!askToWrite
    <3>2. fds' \in [1 .. n -> Entries] /\ \A k \in 1 .. n : fds'[k].fd = fds[k].fd
      BY <1>1, <2>4, <3>1
    <3>3. SameTable
      BY <1>1, <2>4, <3>2, OfLength DEF SameTable
    <3> QED
      BY <3>3, SameTableKeeps
  <2> QED
    BY <1>8, <2>2, <2>3, <2>4 DEF Chat!pollin
<1>9. CASE i \in DOMAIN fds /\ Chat!pollout
  <2> DEFINE fd == fds[i].fd
  <2>1. CASE UNCHANGED <<fds, sock>>
    BY <1>2, <2>1
  <2>2. CASE /\ fds' = [fds EXCEPT ![i] = Chat!listenAgain(@)]
             /\ \/ sock' = sock
                \/ /\ sock[fd] # "free"
                   /\ \E s \in {"fin", "reset"} : sock' = [sock EXCEPT ![fd] = s]
    <3>1. Chat!listenAgain(fds[i]) \in Entries /\ Chat!listenAgain(fds[i]).fd = fds[i].fd
      BY <1>1, <1>9 DEF Entries, Events, Chat!listenAgain
    <3>2. fds' \in [1 .. n -> Entries] /\ \A k \in 1 .. n : fds'[k].fd = fds[k].fd
      BY <1>1, <1>9, <2>2, <3>1
    <3>3. /\ sock' \in [ChatFds -> {"free", "open", "fin", "reset"}]
          /\ \A c \in ChatFds : sock'[c] = "free" <=> sock[c] = "free"
      BY <1>1, <2>2
    <3>4. SameTable
      BY <1>1, <3>2, <3>3, OfLength DEF SameTable
    <3> QED
      BY <3>4, SameTableKeeps
  <2> QED
    BY <1>9, <2>1, <2>2 DEF Chat!pollout
<1> QED
  BY <1>3, <1>4, <1>5, <1>6, <1>7, <1>8, <1>9 DEF Chat!Next, Chat!Server

-----------------------------------------------------------------------------
(* The timed server: what its list holds.                                  *)
Timers == [sockfd : TimedFds, left : Nat]
TimedInv == timer_lst \in Seq(Timers) /\ Timed!OneTimerEach

\* A list in the order of its times, of different connections.
InOrder(lst) ==
    \A k, l \in DOMAIN lst : k < l => /\ lst[k].sockfd # lst[l].sockfd
                                      /\ lst[k].left <= lst[l].left
Sockets(lst) == {lst[k].sockfd : k \in DOMAIN lst}

LEMMA ListFacts ==
    ASSUME NEW lst \in Seq(Timers)
    PROVE  /\ Len(lst) \in Nat /\ DOMAIN lst = 1 .. Len(lst)
           /\ \A k \in 1 .. Len(lst) :
                 lst[k] \in Timers /\ lst[k].sockfd \in TimedFds /\ lst[k].left \in Nat
<1>1. Len(lst) \in Nat /\ DOMAIN lst = 1 .. Len(lst) /\ lst \in [1 .. Len(lst) -> Timers]
  OBVIOUS
<1>2. \A k \in 1 .. Len(lst) : lst[k] \in Timers
  BY <1>1
<1> QED
  BY <1>1, <1>2 DEF Timers

(* What Max is taken of: of two numbers, and of the numbers of timers that *)
(* have expired, which are not more than there are.                        *)
LEMMA NotBelowZero ==
    ASSUME NEW x \in Int
    PROVE  Timed!Max({0, x}) = IF x > 0 THEN x ELSE 0
<1>1. CASE x > 0
  <2>1. \A m \in {0, x} : (\A y \in {0, x} : m >= y) <=> m = x
    BY <1>1
  <2>2. \E m \in {0, x} : \A y \in {0, x} : m >= y
    BY <2>1
  <2> QED
    BY <1>1, <2>1, <2>2 DEF Timed!Max
<1>2. CASE ~(x > 0)
  <2>1. \A m \in {0, x} : (\A y \in {0, x} : m >= y) <=> m = 0
    BY <1>2
  <2>2. \E m \in {0, x} : \A y \in {0, x} : m >= y
    BY <1>2
  <2> QED
    BY <1>2, <2>1, <2>2 DEF Timed!Max
<1> QED
  BY <1>1, <1>2

LEMMA ExpiredFacts ==
    ASSUME NEW lst \in Seq(Timers)
    PROVE  Timed!expired(lst) \in 0 .. Len(lst)
<1> DEFINE N == {n \in 0 .. Len(lst) : \A k \in 1 .. n : lst[k].left = 0}
           Upper == {b \in Nat : \A n \in N : n <= b}
<1>1. Len(lst) \in Nat
  OBVIOUS
<1>2. 0 \in N /\ N \subseteq 0 .. Len(lst) /\ N \subseteq Nat
  BY <1>1
<1> HIDE DEF N
<1>3. Len(lst) \in Upper
  BY <1>1, <1>2
<1>4. PICK b \in Upper : \A c \in Upper : b <= c
  BY <1>3, LeastNatural
<1>5. b \in N
  <2> SUFFICES ASSUME b \notin N PROVE FALSE
    OBVIOUS
  <2>1. b # 0 /\ b \in Nat /\ \A n \in N : n <= b /\ n # b
    BY <1>2
  <2>2. b - 1 \in Nat /\ \A n \in N : n <= b - 1
    BY <1>2, <2>1
  <2>3. b - 1 \in Upper
    BY <2>2
  <2> QED
    BY <1>4, <2>1, <2>3
<1>6. \E m \in N : \A y \in N : m >= y
  BY <1>2, <1>5
<1>7. Timed!Max(N) \in N
  BY <1>6 DEF Timed!Max
<1> QED
  BY <1>2, <1>7 DEF Timed!expired, N

(* add_timer keeps the order, and adds the timer of one connection.        *)
LEMMA TimerAdded ==
    ASSUME NEW lst \in Seq(Timers), NEW timer \in Timers,
           InOrder(lst), timer.sockfd \notin Sockets(lst)
    PROVE  LET new == Timed!add_timer(lst, timer)
           IN /\ new \in Seq(Timers) /\ InOrder(new)
              /\ Sockets(new) = Sockets(lst) \cup {timer.sockfd}
<1> DEFINE n == Len(lst)
           later == {k \in DOMAIN lst : timer.left < lst[k].left}
           new == Timed!add_timer(lst, timer)
<1>1. /\ n \in Nat /\ DOMAIN lst = 1 .. n
      /\ \A k \in 1 .. n : lst[k] \in Timers /\ lst[k].left \in Nat
      /\ timer.left \in Nat
  BY ListFacts DEF Timers
\* it stands at place p: those before are not later, those from p on are
<1>2. PICK p \in 1 .. n + 1 :
          /\ new \in Seq(Timers) /\ Len(new) = n + 1
          /\ \A k \in 1 .. p - 1 : new[k] = lst[k] /\ lst[k].left <= timer.left
          /\ new[p] = timer
          /\ \A k \in p + 1 .. n + 1 : new[k] = lst[k - 1] /\ timer.left <= lst[k - 1].left
  <2>1. CASE later = {}
    <3>1. new = Append(lst, timer)
      BY <2>1 DEF Timed!add_timer
    <3>2. \A k \in 1 .. n : lst[k].left <= timer.left
      BY <1>1, <2>1
    <3> HIDE DEF new, later
    <3>3. /\ new \in Seq(Timers) /\ Len(new) = n + 1
          /\ \A k \in 1 .. n : new[k] = lst[k]
          /\ new[n + 1] = timer
      BY <1>1, <3>1
    <3>4. n + 1 \in 1 .. n + 1 /\ \A k \in n + 2 .. n + 1 : FALSE
      BY <1>1
    <3> QED
      BY <1>1, <3>2, <3>3, <3>4
  <2>2. CASE later # {}
    <3>1. \E x \in later : \A y \in later : x <= y
      <4>1. later \subseteq Nat
        BY <1>1
      <4> HIDE DEF later
      <4> QED
        BY <2>2, <4>1, LeastNatural
    <3>2. Timed!Min(later) \in later /\ \A y \in later : Timed!Min(later) <= y
      <4> HIDE DEF later
      <4> QED
        BY <3>1 DEF Timed!Min
    <3>3. PICK p : p = Timed!Min(later)
      OBVIOUS
    <3>4. p \in 1 .. n /\ timer.left < lst[p].left
      BY <1>1, <3>2, <3>3
    <3>5. \A k \in 1 .. p - 1 : lst[k].left <= timer.left
      <4> SUFFICES ASSUME NEW k \in 1 .. p - 1, ~(lst[k].left <= timer.left) PROVE FALSE
        OBVIOUS
      <4>1. k \in 1 .. n /\ k < p
        BY <1>1, <3>4
      <4>2. k \in later
        BY <1>1, <4>1
      <4> HIDE DEF later
      <4> QED
        BY <3>2, <3>3, <3>4, <4>1, <4>2
    <3>6. \A k \in p .. n : timer.left <= lst[k].left
      BY <1>1, <3>4 DEF InOrder
    <3>7. new = (SubSeq(lst, 1, p - 1) \o <<timer>>) \o SubSeq(lst, p, n)
      BY <2>2, <3>3 DEF Timed!add_timer, Timed!InsertAt
    <3> HIDE DEF new, later
    <3>8. /\ SubSeq(lst, 1, p - 1) \in Seq(Timers) /\ Len(SubSeq(lst, 1, p - 1)) = p - 1
          /\ \A k \in 1 .. p - 1 : SubSeq(lst, 1, p - 1)[k] = lst[k]
      <4>1. \A k \in 1 .. p - 1 : lst[k] \in Timers
        BY <1>1, <3>4
      <4> QED
        BY <1>1, <3>4, <4>1, SubSeqProperties
    <3>9. /\ SubSeq(lst, p, n) \in Seq(Timers) /\ Len(SubSeq(lst, p, n)) = n - p + 1
          /\ \A k \in 1 .. n - p + 1 : SubSeq(lst, p, n)[k] = lst[p + k - 1]
      <4>1. \A k \in p .. n : lst[k] \in Timers
        BY <1>1, <3>4
      <4> QED
        BY <1>1, <3>4, <4>1, SubSeqProperties
    <3>10. PICK a : a = SubSeq(lst, 1, p - 1)
      OBVIOUS
    <3>11. PICK b : b = SubSeq(lst, p, n)
      OBVIOUS
    <3>12. /\ a \o <<timer>> \in Seq(Timers) /\ Len(a \o <<timer>>) = p
           /\ \A k \in 1 .. p - 1 : (a \o <<timer>>)[k] = lst[k]
           /\ (a \o <<timer>>)[p] = timer
      <4>1. <<timer>> \in Seq(Timers) /\ Len(<<timer>>) = 1 /\ <<timer>>[1] = timer
        OBVIOUS
      <4> HIDE DEF n
      <4> QED
        BY <1>1, <3>4, <3>8, <3>10, <4>1, ConcatProperties
    <3>13. PICK c : c = a \o <<timer>>
      OBVIOUS
    <3>14. /\ c \o b \in Seq(Timers) /\ Len(c \o b) = n + 1
           /\ \A k \in 1 .. n + 1 : (c \o b)[k] = IF k <= p THEN c[k] ELSE lst[k - 1]
      <4>1. /\ c \o b \in Seq(Timers) /\ Len(c) = p /\ Len(b) = n - p + 1
            /\ Len(c \o b) = Len(c) + Len(b)
            /\ \A k \in 1 .. Len(c) + Len(b) :
                  (c \o b)[k] = IF k <= Len(c) THEN c[k] ELSE b[k - Len(c)]
        BY <3>9, <3>11, <3>12, <3>13, ConcatProperties
      <4> HIDE DEF n
      <4>2. Len(c \o b) = n + 1
        BY <1>1, <3>4, <4>1
      <4>3. ASSUME NEW k \in 1 .. n + 1
            PROVE  (c \o b)[k] = IF k <= p THEN c[k] ELSE lst[k - 1]
        <5>1. (c \o b)[k] = IF k <= p THEN c[k] ELSE b[k - p]
          BY <1>1, <3>4, <4>1
        <5>2. CASE k <= p
          BY <5>1, <5>2
        <5>3. CASE ~(k <= p)
          <6>1. k - p \in 1 .. n - p + 1 /\ p + (k - p) - 1 = k - 1
            BY <1>1, <3>4, <5>3
          <6>2. b[k - p] = lst[p + (k - p) - 1]
            BY <3>9, <3>11, <6>1
          <6> QED
            BY <5>1, <5>3, <6>1, <6>2
        <5> QED
          BY <5>2, <5>3
      <4> QED
        BY <4>1, <4>2, <4>3
    <3>15. new = c \o b
      BY <3>7, <3>10, <3>11, <3>13
    <3>16. p \in 1 .. n + 1
      BY <1>1, <3>4
    <3>17. \A k \in 1 .. p - 1 : new[k] = lst[k]
      BY <1>1, <3>4, <3>12, <3>13, <3>14, <3>15
    <3>18. new[p] = timer
      BY <1>1, <3>4, <3>12, <3>13, <3>14, <3>15
    <3>19. \A k \in p + 1 .. n + 1 : new[k] = lst[k - 1] /\ timer.left <= lst[k - 1].left
      <4> HIDE DEF n
      <4> QED
        BY <1>1, <3>4, <3>6, <3>14, <3>15
    <3> QED
      BY <3>5, <3>14, <3>15, <3>16, <3>17, <3>18, <3>19
  <2> QED
    BY <2>1, <2>2
<1> HIDE DEF new, later
<1>3. DOMAIN new = 1 .. n + 1
  BY <1>1, <1>2
<1> HIDE DEF n
<1>4. ASSUME NEW k \in 1 .. n + 1
      PROVE  \/ k = p /\ new[k] = timer
             \/ k < p /\ k \in 1 .. n /\ new[k] = lst[k] /\ lst[k].left <= timer.left
             \/ k > p /\ k - 1 \in 1 .. n /\ new[k] = lst[k - 1] /\ timer.left <= lst[k - 1].left
  BY <1>1, <1>2
<1>5. \A k \in 1 .. n : lst[k].sockfd # timer.sockfd
  BY <1>1 DEF Sockets
<1>6. InOrder(new)
  <2> SUFFICES ASSUME NEW k \in 1 .. n + 1, NEW l \in 1 .. n + 1, k < l
               PROVE  new[k].sockfd # new[l].sockfd /\ new[k].left <= new[l].left
    BY <1>3 DEF InOrder
  <2>1. \A x, y \in 1 .. n : x < y => lst[x].sockfd # lst[y].sockfd /\ lst[x].left <= lst[y].left
    BY <1>1 DEF InOrder
  <2>2. CASE k < p /\ l < p
    BY <1>2, <1>4, <2>1, <2>2
  <2>3. CASE k < p /\ l = p
    BY <1>2, <1>4, <1>5, <2>3
  <2>4. CASE k < p /\ l > p
    <3>1. k < l - 1
      BY <1>2, <2>4
    <3> QED
      BY <1>2, <1>4, <2>1, <2>4, <3>1
  <2>5. CASE k = p
    BY <1>2, <1>4, <1>5, <2>5
  <2>6. CASE k > p
    BY <1>2, <1>4, <2>1, <2>6
  <2> QED
    BY <2>2, <2>3, <2>4, <2>5, <2>6, <1>1
<1>7. Sockets(new) = Sockets(lst) \cup {timer.sockfd}
  <2>1. \A k \in 1 .. n + 1 : new[k].sockfd \in Sockets(lst) \cup {timer.sockfd}
    BY <1>1, <1>4 DEF Sockets
  <2>2. timer.sockfd \in Sockets(new)
    BY <1>2, <1>3 DEF Sockets
  <2>3. ASSUME NEW k \in 1 .. n PROVE lst[k].sockfd \in Sockets(new)
    <3>1. CASE k < p
      <4>1. k \in 1 .. n + 1 /\ new[k] = lst[k]
        BY <1>1, <1>2, <3>1
      <4> QED
        BY <1>3, <4>1 DEF Sockets
    <3>2. CASE k >= p
      <4>1. k + 1 \in 1 .. n + 1 /\ new[k + 1] = lst[(k + 1) - 1] /\ (k + 1) - 1 = k
        BY <1>1, <1>2, <3>2
      <4> QED
        BY <1>3, <4>1 DEF Sockets
    <3> QED
      BY <1>1, <1>2, <3>1, <3>2
  <2> QED
    BY <1>1, <1>3, <2>1, <2>2, <2>3 DEF Sockets
<1> QED
  BY <1>2, <1>6, <1>7 DEF new

\* OneTimerEach, of the operators above.
LEMMA TimedInvSays == Timed!OneTimerEach <=> Sockets(timer_lst) = open /\ InOrder(timer_lst)
BY DEF Timed!OneTimerEach, Sockets, InOrder

(* tick: what is left of the list when its first timers are taken off.     *)
LEMMA TimersTaken ==
    ASSUME NEW lst \in Seq(Timers), InOrder(lst), NEW e \in 0 .. Len(lst)
    PROVE  LET rest == SubSeq(lst, e + 1, Len(lst))
           IN /\ rest \in Seq(Timers) /\ InOrder(rest)
              /\ Sockets(rest) = Sockets(lst) \ {lst[k].sockfd : k \in 1 .. e}
<1> DEFINE n == Len(lst)
           rest == SubSeq(lst, e + 1, n)
<1>1. /\ n \in Nat /\ DOMAIN lst = 1 .. n
      /\ \A k \in 1 .. n : lst[k] \in Timers
  BY ListFacts
<1>2. /\ rest \in Seq(Timers) /\ Len(rest) = n - e
      /\ \A k \in 1 .. n - e : rest[k] = lst[e + k]
  <2>1. \A k \in e + 1 .. n : lst[k] \in Timers
    BY <1>1
  <2>2. /\ rest \in Seq(Timers) /\ Len(rest) = IF e + 1 <= n THEN n - (e + 1) + 1 ELSE 0
        /\ \A k \in 1 .. n - (e + 1) + 1 : rest[k] = lst[(e + 1) + k - 1]
    BY <1>1, <2>1, SubSeqProperties
  <2>e. e \in 0 .. n
    OBVIOUS
  <2> HIDE DEF rest, n
  <2>3. n - (e + 1) + 1 = n - e /\ \A k \in Int : (e + 1) + k - 1 = e + k
    BY <1>1
  <2>4. Len(rest) = n - e
    BY <1>1, <2>e, <2>2
  <2>5. ASSUME NEW k \in 1 .. n - e PROVE rest[k] = lst[e + k]
    BY <2>2, <2>3
  <2> QED
    BY <2>2, <2>4, <2>5
<1> HIDE DEF rest
<1>3. DOMAIN rest = 1 .. n - e
  BY <1>1, <1>2
<1>4. \A x, y \in 1 .. n : x < y => lst[x].sockfd # lst[y].sockfd /\ lst[x].left <= lst[y].left
  BY <1>1 DEF InOrder
<1>e. e \in Nat /\ e <= n
  BY <1>1
<1> HIDE DEF n
<1>5. InOrder(rest)
  <2> SUFFICES ASSUME NEW k \in 1 .. n - e, NEW l \in 1 .. n - e, k < l
               PROVE  rest[k].sockfd # rest[l].sockfd /\ rest[k].left <= rest[l].left
    BY <1>3 DEF InOrder
  <2>1. e + k \in 1 .. n /\ e + l \in 1 .. n /\ e + k < e + l
    BY <1>1, <1>e
  <2> QED
    BY <1>2, <1>4, <2>1
<1>6. ASSUME NEW k \in 1 .. n - e
      PROVE  rest[k].sockfd \in Sockets(lst) \ {lst[j].sockfd : j \in 1 .. e}
  <2>1. e + k \in 1 .. n /\ \A j \in 1 .. e : j \in 1 .. n /\ j < e + k
    BY <1>1, <1>e
  <2>2. lst[e + k].sockfd \in Sockets(lst)
    BY <1>1, <2>1 DEF Sockets
  <2> QED
    BY <1>2, <1>4, <2>1, <2>2
<1>7. ASSUME NEW k \in 1 .. n, lst[k].sockfd \notin {lst[j].sockfd : j \in 1 .. e}
      PROVE  lst[k].sockfd \in Sockets(rest)
  <2>1. k \notin 1 .. e
    BY <1>7
  <2>2. k - e \in 1 .. n - e /\ e + (k - e) = k
    BY <1>1, <1>e, <2>1
  <2> QED
    BY <1>2, <1>3, <2>2 DEF Sockets
<1>8. Sockets(rest) = Sockets(lst) \ {lst[j].sockfd : j \in 1 .. e}
  BY <1>1, <1>3, <1>6, <1>7 DEF Sockets
<1> QED
  BY <1>2, <1>5, <1>8 DEF rest, n

LEMMA TimedKeeps ==
    ASSUME TimedInv, Timed!Next
    PROVE  TimedInv'
<1>0. timer_lst \in Seq(Timers) /\ Sockets(timer_lst) = open /\ InOrder(timer_lst)
  BY TimedInvSays DEF TimedInv
<1>a. SUFFICES timer_lst' \in Seq(Timers) /\ Sockets(timer_lst') = open' /\ InOrder(timer_lst')
  BY DEF TimedInv, Timed!OneTimerEach, Sockets, InOrder
<1>1. CASE UNCHANGED <<timer_lst, open>>
  BY <1>0, <1>1
<1>2. CASE Timed!second
  <2> DEFINE n == Len(timer_lst)
  <2>1. /\ n \in Nat /\ DOMAIN timer_lst = 1 .. n
        /\ \A k \in 1 .. n : timer_lst[k] \in Timers /\ timer_lst[k].left \in Nat
    BY <1>0, ListFacts
  <2>2. /\ open' = open
        /\ timer_lst' = [k \in 1 .. n |->
                            [timer_lst[k] EXCEPT !.left = Timed!Max({0, @ - 1})]]
    BY <1>2, <2>1 DEF Timed!second
  <2> HIDE DEF n
  <2>3. ASSUME NEW k \in 1 .. n
        PROVE  /\ timer_lst'[k] \in Timers
               /\ timer_lst'[k].sockfd = timer_lst[k].sockfd
               /\ timer_lst'[k].left = IF timer_lst[k].left > 0 THEN timer_lst[k].left - 1 ELSE 0
    <3>1. PICK x : x = timer_lst[k].left - 1
      OBVIOUS
    <3>2. x \in Int /\ Timed!Max({0, x}) = (IF x > 0 THEN x ELSE 0)
      BY <2>1, <3>1, NotBelowZero
    <3>3. timer_lst'[k] = [timer_lst[k] EXCEPT !.left = Timed!Max({0, x})]
      BY <2>2, <3>1
    <3>4. Timed!Max({0, x}) = IF timer_lst[k].left > 0 THEN timer_lst[k].left - 1 ELSE 0
      BY <2>1, <3>1, <3>2
    <3>5. Timed!Max({0, x}) \in Nat
      BY <2>1, <3>4
    <3> QED
      BY <2>1, <3>3, <3>4, <3>5 DEF Timers
  <2>4. timer_lst' \in [1 .. n -> Timers]
    BY <2>2, <2>3
  <2>5. timer_lst' \in Seq(Timers) /\ DOMAIN timer_lst' = 1 .. n
    BY <2>1, <2>4, OfLength
  <2>6. Sockets(timer_lst') = Sockets(timer_lst)
    BY <2>1, <2>3, <2>5 DEF Sockets
  <2>7. InOrder(timer_lst')
    <3> SUFFICES ASSUME NEW k \in 1 .. n, NEW l \in 1 .. n, k < l
                 PROVE  /\ timer_lst'[k].sockfd # timer_lst'[l].sockfd
                        /\ timer_lst'[k].left <= timer_lst'[l].left
      BY <2>5 DEF InOrder
    <3>1. timer_lst[k].sockfd # timer_lst[l].sockfd /\ timer_lst[k].left <= timer_lst[l].left
      BY <1>0, <2>1 DEF InOrder
    <3> QED
      BY <2>1, <2>3, <3>1
  <2> QED
    BY <1>0, <2>2, <2>5, <2>6, <2>7
<1>3. CASE Timed!accept /\ ~ UNCHANGED <<timer_lst, open>>
  <2> DEFINE connfd == Timed!Min(TimedFds \ open)
             timer == [sockfd |-> connfd, left |-> 3 * TIMESLOT]
  <2>1. /\ ~(TimedFds \subseteq open) /\ open' = open \cup {connfd}
        /\ timer_lst' = Timed!add_timer(timer_lst, timer)
    BY <1>3 DEF Timed!accept
  <2>2. connfd \in TimedFds \ open
    <3> DEFINE F == TimedFds \ open
    <3>1. F # {} /\ F \subseteq Nat
      BY <2>1, TimedAssumption
    <3> HIDE DEF F
    <3>2. \E x \in F : \A y \in F : x <= y
      BY <3>1, LeastNatural
    <3>3. Timed!Min(F) \in F
      BY <3>2 DEF Timed!Min
    <3> QED
      BY <3>3 DEF F
  <2>3. timer \in Timers /\ timer.sockfd = connfd
    BY <2>2, TimedAssumption DEF Timers
  <2> HIDE DEF timer, connfd
  <2>4. timer.sockfd \notin Sockets(timer_lst)
    BY <1>0, <2>2, <2>3
  <2>5. /\ timer_lst' \in Seq(Timers) /\ InOrder(timer_lst')
        /\ Sockets(timer_lst') = Sockets(timer_lst) \cup {connfd}
    BY <1>0, <2>1, <2>3, <2>4, TimerAdded
  <2> QED
    BY <1>0, <2>1, <2>5
<1>4. CASE Timed!endOfEvents /\ ~ UNCHANGED <<timer_lst, open>>
  <2>1. PICK e : e = Timed!expired(timer_lst)
    OBVIOUS
  <2>2. e \in 0 .. Len(timer_lst)
    BY <1>0, <2>1, ExpiredFacts
  <2>3. /\ open' = open \ {timer_lst[k].sockfd : k \in 1 .. e}
        /\ timer_lst' = SubSeq(timer_lst, e + 1, Len(timer_lst))
    BY <1>4, <2>1 DEF Timed!endOfEvents
  <2> QED
    BY <1>0, <2>2, <2>3, TimersTaken
<1>5. \/ Timed!second \/ Timed!accept \/ Timed!endOfEvents
      \/ UNCHANGED <<timer_lst, open>>
  BY DEF Timed!Next, Timed!Server, Timed!connect, Timed!sig_handler, Timed!kill,
         Timed!epoll_wait, Timed!readSignals
<1> QED
  BY <1>1, <1>2, <1>3, <1>4, <1>5

(* The list of timers is in the order of the times, with one timer for each*)
(* connection, and the table of the chat room holds each connection once:  *)
(* both hold for every set of descriptors, although a descriptor is given  *)
(* to another client as soon as it is closed (2_lst_timer.h:170, 7.cpp:139 *)
(* to 145).  In the chat room there must be as many descriptors as users   *)
(* are let in; that there is a free one for the next is a lemma.           *)
THEOREM TablesAreTrue == MCSpec => []TablesTrue
<1> DEFINE Inv == TimedInv /\ ChatInv
<1>1. MCInit => Inv
  <2> SUFFICES ASSUME MCInit PROVE Inv
    OBVIOUS
  <2>1. timer_lst = <<>> /\ open = {} /\ fds = <<>> /\ sock = [fd \in ChatFds |-> "free"]
    BY DEF MCInit, Timed!Init, Chat!Init
  <2>2. TimedInv
    BY <2>1 DEF TimedInv, Timed!OneTimerEach
  <2>3. ChatInv
    BY <2>1, ChatAssumption DEF ChatInv, Chat!UsersTable, Chat!user_counter
  <2> QED
    BY <2>2, <2>3
<1>2. Inv /\ [MCNext]_allVars => Inv'
  <2> SUFFICES ASSUME Inv, [MCNext]_allVars PROVE Inv'
    OBVIOUS
  <2>1. ASSUME UNCHANGED timedVars PROVE TimedInv'
    BY <2>1 DEF timedVars, TimedInv, Timed!OneTimerEach
  <2>2. ASSUME UNCHANGED chatVars PROVE ChatInv'
    BY <2>2 DEF chatVars, ChatInv, Chat!UsersTable, Chat!user_counter
  <2>3. CASE Pool(Next)
    BY <2>1, <2>2, <2>3 DEF Pool
  <2>4. CASE InTime(Timed!Next)
    BY <2>2, <2>4, TimedKeeps DEF InTime
  <2>5. CASE InRoom(Chat!Next)
    BY <2>1, <2>5, ChatKeeps DEF InRoom
  <2>6. CASE UNCHANGED allVars
    BY <2>1, <2>2, <2>6 DEF allVars
  <2> QED
    BY <2>3, <2>4, <2>5, <2>6 DEF MCNext
<1>3. Inv => TablesTrue
  BY DEF TablesTrue, TimedInv, ChatInv
<1> HIDE DEF Inv
<1> QED
  BY <1>1, <1>2, <1>3, PTL DEF MCSpec
=============================================================================
