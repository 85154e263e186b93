---------------------------- MODULE Threads_proofs ----------------------------
(***************************************************************************)
(* Proofs about the modules of MCThreads, for any threads, any number of   *)
(* calls, rounds and requests, and queues of any size; the small programs  *)
(* have two threads.                                                       *)
(*                                                                         *)
(* The queue in call order.  CallOrder follows from InOrder for both       *)
(* operations.  NoDanglingCond is inductive only with what Listed adds:    *)
(* the owner of a listed condition is blocked, so it cannot have left its  *)
(* loop, and no condition is listed twice, so the one that is broadcast is *)
(* the one that is taken out.                                              *)
(*                                                                         *)
(* That this queue implements the abstract one needs RingInv alone.        *)
(*                                                                         *)
(* The queue with two conditions.  CVInv adds to NoLostWakeup the ring and *)
(* its roles: inserters wait on one condition and removers on the other,   *)
(* and an item is carried exactly during a call of tryInsert.  The same    *)
(* makes each call a step of the abstract queue.                           *)
(*                                                                         *)
(* The barrier.  NobodyAhead is not inductive: it says nothing of the two  *)
(* counters.  RoundInv says what they mean in the round r the barrier is   *)
(* in.  While threads gather, each has yet to come, is in the first wait,  *)
(* or is a straggler of the round before; while they leave, each is in one *)
(* of the two waits.                                                       *)
(*                                                                         *)
(* The thread pool.  TokensMatch is inductive once it is known where each  *)
(* actor is.                                                               *)
(*                                                                         *)
(* The small programs.  EndsRight speaks of the end; SmallInv says for     *)
(* each program what leads there.                                          *)
(***************************************************************************)
EXTENDS MCThreads, SequenceTheorems, FiniteSetTheorems, TLAPS

Places == {"out", "callInsert", "tryInsert", "callRemove", "tryRemove"}

Types ==
    /\ program \in Programs
    /\ front \in Nat /\ nextEmpty \in Nat
    /\ numInsertCalled \in Nat /\ numRemoveCalled \in Nat
    /\ myPosition \in [Threads -> Nat]
    /\ insert_list \in Seq(Nat) /\ remove_list \in Seq(Nat)
    /\ pc \in [Threads -> Places]

(* The threads are at at, with the positions pos: the positions from done  *)
(* on, below called, are each that of one call that waits in op.           *)
InOrder(op, done, called, at, pos) ==
    /\ done <= called
    /\ \A t \in Threads : at[t] = op => done <= pos[t] /\ pos[t] < called
    /\ \A p \in Nat : done <= p /\ p < called =>
          \E t \in Threads : at[t] = op /\ pos[t] = p
    /\ \A t, u \in Threads : t # u /\ at[t] = op /\ at[u] = op => pos[t] # pos[u]

(* A listed condition has a call that is blocked on it, and is listed once.*)
Listed(op, list, at, pos, asleep) ==
    /\ \A i \in 1 .. Len(list) :
          \E t \in Threads : at[t] = op /\ pos[t] = list[i] /\ t \in asleep
    /\ \A i, j \in 1 .. Len(list) : i < j => list[i] < list[j]

Positions ==
    /\ InOrder("tryInsert", nextEmpty, numInsertCalled, pc, myPosition)
    /\ InOrder("tryRemove", front, numRemoveCalled, pc, myPosition)

Lists == ~program.spurious =>
    /\ Listed("tryInsert", insert_list, pc, myPosition, blocked)
    /\ Listed("tryRemove", remove_list, pc, myPosition, blocked)

IInv == Types /\ Positions /\ Lists

-----------------------------------------------------------------------------
(* A call that waits gets the next position.                               *)
LEMMA WaitsInOrder ==
    ASSUME NEW op, NEW done \in Nat, NEW called \in Nat,
           NEW at \in [Threads -> Places], NEW pos \in [Threads -> Nat],
           InOrder(op, done, called, at, pos),
           NEW t \in Threads, at[t] # op
    PROVE  InOrder(op, done, called + 1,
                   [at EXCEPT ![t] = op], [pos EXCEPT ![t] = called])
<1> DEFINE at2 == [at EXCEPT ![t] = op]
           pos2 == [pos EXCEPT ![t] = called]
<1>1. /\ at2[t] = op /\ pos2[t] = called
      /\ \A u \in Threads : u # t => at2[u] = at[u] /\ pos2[u] = pos[u]
  OBVIOUS
<1> HIDE DEF at2, pos2
<1>2. \A u \in Threads : at2[u] = op => done <= pos2[u] /\ pos2[u] < called + 1
  BY <1>1 DEF InOrder
<1>3. ASSUME NEW p \in Nat, done <= p, p < called + 1
      PROVE  \E u \in Threads : at2[u] = op /\ pos2[u] = p
  <2>1. CASE p = called
    BY <1>1, <2>1
  <2>2. CASE p < called
    <3>1. PICK u \in Threads : at[u] = op /\ pos[u] = p
      BY <1>3, <2>2 DEF InOrder
    <3> QED
      BY <1>1, <3>1
  <2> QED
    BY <1>3, <2>1, <2>2
<1>4. ASSUME NEW u \in Threads, NEW v \in Threads, u # v, at2[u] = op, at2[v] = op
      PROVE  pos2[u] # pos2[v]
  BY <1>1, <1>4 DEF InOrder
<1>5. InOrder(op, done, called + 1, at2, pos2)
  BY <1>2, <1>3, <1>4 DEF InOrder
<1> QED
  BY <1>5 DEF at2, pos2

(* A call that does not wait any more has the oldest position.             *)
LEMMA OldestGoes ==
    ASSUME NEW op, op # "out", NEW done \in Nat, NEW called \in Nat,
           NEW at \in [Threads -> Places], NEW pos \in [Threads -> Nat],
           InOrder(op, done, called, at, pos),
           NEW t \in Threads, at[t] = op, pos[t] <= done
    PROVE  InOrder(op, done + 1, called, [at EXCEPT ![t] = "out"], pos)
<1> DEFINE at2 == [at EXCEPT ![t] = "out"]
<1>1. /\ at2[t] # op /\ pos[t] = done /\ done < called
      /\ \A u \in Threads : u # t => at2[u] = at[u]
  BY DEF InOrder
<1> HIDE DEF at2
<1>2. \A u \in Threads :
         at2[u] = op => at[u] = op /\ u # t /\ done + 1 <= pos[u] /\ pos[u] < called
  BY <1>1 DEF InOrder
<1>3. ASSUME NEW p \in Nat, done + 1 <= p, p < called
      PROVE  \E u \in Threads : at2[u] = op /\ pos[u] = p
  <2>1. PICK u \in Threads : at[u] = op /\ pos[u] = p
    BY <1>3 DEF InOrder
  <2> QED
    BY <1>1, <1>3, <2>1
<1>4. \A u, v \in Threads : u # v /\ at2[u] = op /\ at2[v] = op => pos[u] # pos[v]
  BY <1>2 DEF InOrder
<1>5. InOrder(op, done + 1, called, at2, pos)
  BY <1>1, <1>2, <1>3, <1>4 DEF InOrder
<1> QED
  BY <1>5 DEF at2

(* A call that never waits uses the position it is given: there is no      *)
(* other one.                                                              *)
LEMMA NobodyWaits ==
    ASSUME NEW op, op # "out", NEW done \in Nat, NEW called \in Nat,
           NEW at \in [Threads -> Places], NEW pos \in [Threads -> Nat],
           InOrder(op, done, called, at, pos), called <= done,
           NEW t \in Threads, at[t] # op
    PROVE  InOrder(op, done + 1, called + 1,
                   [at EXCEPT ![t] = "out"], [pos EXCEPT ![t] = called])
<1> DEFINE at2 == [at EXCEPT ![t] = "out"]
<1>1. done = called /\ \A u \in Threads : at2[u] # op
  BY DEF InOrder
<1> HIDE DEF at2
<1>2. InOrder(op, done + 1, called + 1, at2, [pos EXCEPT ![t] = called])
  BY <1>1 DEF InOrder
<1> QED
  BY <1>2 DEF at2

(* The steps of a thread that neither waits in op nor comes to wait there. *)
LEMMA OthersInOrder ==
    ASSUME NEW op, NEW done \in Nat, NEW called \in Nat,
           NEW at \in [Threads -> Places], NEW pos \in [Threads -> Nat],
           InOrder(op, done, called, at, pos),
           NEW at2 \in [Threads -> Places], NEW pos2 \in [Threads -> Nat],
           \A u \in Threads : /\ (at2[u] = op) <=> (at[u] = op)
                              /\ at[u] = op => pos2[u] = pos[u]
    PROVE  InOrder(op, done, called, at2, pos2)
BY DEF InOrder

-----------------------------------------------------------------------------
(* A call that waits adds its condition, the newest.                       *)
LEMMA WaitIsListed ==
    ASSUME NEW op, NEW done \in Nat, NEW called \in Nat,
           NEW at \in [Threads -> Places], NEW pos \in [Threads -> Nat],
           InOrder(op, done, called, at, pos),
           NEW list \in Seq(Nat), NEW asleep, Listed(op, list, at, pos, asleep),
           NEW t \in Threads, at[t] # op
    PROVE  Listed(op, Append(list, called), [at EXCEPT ![t] = op],
                  [pos EXCEPT ![t] = called], asleep \cup {t})
<1> DEFINE at2 == [at EXCEPT ![t] = op]
           pos2 == [pos EXCEPT ![t] = called]
           list2 == Append(list, called)
<1>1. /\ at2[t] = op /\ pos2[t] = called
      /\ \A u \in Threads : u # t => at2[u] = at[u] /\ pos2[u] = pos[u]
  OBVIOUS
<1>2. /\ Len(list) \in Nat /\ Len(list2) = Len(list) + 1
      /\ \A i \in 1 .. Len(list) : list2[i] = list[i]
      /\ list2[Len(list) + 1] = called
  BY AppendProperties
<1> HIDE DEF at2, pos2, list2
<1>3. \A i \in 1 .. Len(list) : list[i] < called /\ list[i] \in Nat
  BY DEF Listed, InOrder
<1>4. ASSUME NEW i \in 1 .. Len(list2)
      PROVE  \E u \in Threads : at2[u] = op /\ pos2[u] = list2[i] /\ u \in asleep \cup {t}
  <2>1. CASE i = Len(list) + 1
    BY <1>1, <1>2, <2>1
  <2>2. CASE i \in 1 .. Len(list)
    <3>1. PICK u \in Threads : at[u] = op /\ pos[u] = list[i] /\ u \in asleep
      BY <2>2 DEF Listed
    <3> QED
      BY <1>1, <1>2, <2>2, <3>1
  <2> QED
    BY <1>2, <2>1, <2>2
<1>5. ASSUME NEW i \in 1 .. Len(list2), NEW j \in 1 .. Len(list2), i < j
      PROVE  list2[i] < list2[j]
  <2>1. i \in 1 .. Len(list) /\ (j \in 1 .. Len(list) \/ j = Len(list) + 1)
    BY <1>2, <1>5
  <2> QED
    BY <1>2, <1>3, <1>5, <2>1 DEF Listed
<1>6. Listed(op, list2, at2, pos2, asleep \cup {t})
  BY <1>4, <1>5 DEF Listed
<1> QED
  BY <1>6 DEF at2, pos2, list2

(* Conditions stay listed as long as those who sleep on them stay there.   *)
LEMMA StaysListed ==
    ASSUME NEW op, NEW list \in Seq(Nat), NEW at, NEW pos, NEW asleep,
           Listed(op, list, at, pos, asleep), NEW at2, NEW pos2, NEW asleep2,
           \A u \in Threads : at[u] = op /\ u \in asleep =>
              at2[u] = op /\ pos2[u] = pos[u] /\ u \in asleep2
    PROVE  Listed(op, list, at2, pos2, asleep2)
BY DEF Listed

(* A broadcast wakes the owner of the condition that is taken out, and no  *)
(* owner of another one.                                                   *)
LEMMA BroadcastIsTakenOut ==
    ASSUME Types, NEW op, NEW list \in Seq(Nat), broadcastFirst(list, op),
           Listed(op, list, pc, myPosition, blocked)
    PROVE  Listed(op, popped(list), pc, myPosition, blocked')
<1>1. CASE list = <<>>
  BY <1>1 DEF popped, Listed, broadcastFirst
<1>2. CASE list # <<>>
  <2>1. /\ Tail(list) \in Seq(Nat) /\ Len(list) \in Nat /\ Len(list) >= 1
        /\ Len(Tail(list)) = Len(list) - 1 /\ Head(list) = list[1]
        /\ \A i \in 1 .. Len(list) - 1 : Tail(list)[i] = list[i + 1]
    BY <1>2
  <2>2. ASSUME NEW i \in 1 .. Len(list) - 1
        PROVE  \E t \in Threads :
                  pc[t] = op /\ myPosition[t] = list[i + 1] /\ t \in blocked'
    <3>1. i + 1 \in 1 .. Len(list) /\ 1 \in 1 .. Len(list) /\ 1 < i + 1
      BY <2>1
    <3>2. PICK t \in Threads : pc[t] = op /\ myPosition[t] = list[i + 1] /\ t \in blocked
      BY <3>1 DEF Listed
    <3>3. list[1] < list[i + 1] /\ list[1] \in Nat /\ list[i + 1] \in Nat
      BY <3>1 DEF Listed
    <3>4. t \notin owner(op, Head(list))
      BY <2>1, <3>2, <3>3 DEF owner
    <3> QED
      BY <1>2, <3>2, <3>4 DEF broadcastFirst
  <2>3. ASSUME NEW i \in 1 .. Len(list) - 1, NEW j \in 1 .. Len(list) - 1, i < j
        PROVE  list[i + 1] < list[j + 1]
    <3>1. i + 1 \in 1 .. Len(list) /\ j + 1 \in 1 .. Len(list) /\ i + 1 < j + 1
      BY <2>1, <2>3
    <3> QED
      BY <3>1 DEF Listed
  <2> QED
    BY <1>2, <2>1, <2>2, <2>3 DEF Listed, popped
<1> QED
  BY <1>1, <1>2

-----------------------------------------------------------------------------
LEMMA InsertWaits ==
    ASSUME IInv, NEW t \in Threads, pc[t] = "callInsert",
           myPosition' = [myPosition EXCEPT ![t] = numInsertCalled],
           numInsertCalled' = numInsertCalled + 1,
           insert_list' = Append(insert_list, numInsertCalled),
           blocked' = blocked \cup {t}, pc' = [pc EXCEPT ![t] = "tryInsert"],
           UNCHANGED <<program, front, nextEmpty, remove_list, numRemoveCalled>>
    PROVE  IInv'
<1>1. Types'
  BY AppendProperties DEF IInv, Types, Places
<1>2. \A u \in Threads : u # t => pc'[u] = pc[u] /\ myPosition'[u] = myPosition[u]
  BY DEF IInv, Types
<1>3. pc'[t] = "tryInsert"
  BY DEF IInv, Types
<1>4. InOrder("tryInsert", nextEmpty', numInsertCalled', pc', myPosition')
  BY WaitsInOrder DEF IInv, Types, Positions
<1>5. InOrder("tryRemove", front', numRemoveCalled', pc', myPosition')
  BY <1>1, <1>2, <1>3, OthersInOrder DEF IInv, Types, Positions
<1>6. ASSUME ~program'.spurious
      PROVE  /\ Listed("tryInsert", insert_list', pc', myPosition', blocked')
             /\ Listed("tryRemove", remove_list', pc', myPosition', blocked')
  <2>1. /\ Listed("tryInsert", insert_list, pc, myPosition, blocked)
        /\ Listed("tryRemove", remove_list, pc, myPosition, blocked)
    BY <1>6 DEF IInv, Lists
  <2>2. Listed("tryInsert", insert_list', pc', myPosition', blocked')
    BY <2>1, WaitIsListed DEF IInv, Types, Positions
  <2>3. Listed("tryRemove", remove_list', pc', myPosition', blocked')
    BY ZenonT(60), <1>2, <2>1, StaysListed DEF IInv, Types
  <2> QED
    BY <2>2, <2>3
<1> QED
  BY <1>1, <1>4, <1>5, <1>6 DEF IInv, Positions, Lists

(* The end of tryInsert, whether the call has waited or not, when its      *)
(* position was the next one.                                              *)
LEMMA InsertEnds ==
    ASSUME IInv, NEW t \in Threads, insertItem(t),
           pc[t] = "callInsert" \/ (pc[t] = "tryInsert" /\ t \notin blocked),
           myPosition' \in [Threads -> Nat], numInsertCalled' \in Nat,
           \A u \in Threads : u # t => myPosition'[u] = myPosition[u],
           InOrder("tryInsert", nextEmpty + 1, numInsertCalled', pc', myPosition'),
           UNCHANGED <<program, numRemoveCalled>>
    PROVE  IInv'
<1>1. /\ pc' = [pc EXCEPT ![t] = "out"] /\ nextEmpty' = nextEmpty + 1
      /\ UNCHANGED <<front, insert_list>> /\ remove_list' = popped(remove_list)
      /\ broadcastFirst(remove_list, "tryRemove")
  BY DEF insertItem, Goto
<1>2. Types'
  <2>1. remove_list' \in Seq(Nat)
    BY <1>1, HeadTailProperties DEF popped, IInv, Types
  <2>2. pc' \in [Threads -> Places]
    BY <1>1 DEF IInv, Types, Places
  <2>3. /\ program' \in Programs /\ front' \in Nat /\ nextEmpty' \in Nat
        /\ numRemoveCalled' \in Nat /\ insert_list' \in Seq(Nat)
    BY <1>1 DEF IInv, Types
  <2> QED
    BY <2>1, <2>2, <2>3 DEF Types
<1>3. pc'[t] = "out" /\ \A u \in Threads : u # t => pc'[u] = pc[u]
  BY <1>1 DEF IInv, Types
<1>4. InOrder("tryRemove", front', numRemoveCalled', pc', myPosition')
  <2>1. \A u \in Threads :
           /\ (pc'[u] = "tryRemove") <=> (pc[u] = "tryRemove")
           /\ pc[u] = "tryRemove" => myPosition'[u] = myPosition[u]
    BY <1>3
  <2>2. /\ front' = front /\ front \in Nat
        /\ numRemoveCalled' = numRemoveCalled /\ numRemoveCalled \in Nat
        /\ InOrder("tryRemove", front, numRemoveCalled, pc, myPosition)
        /\ pc \in [Threads -> Places] /\ myPosition \in [Threads -> Nat]
    BY <1>1 DEF IInv, Types, Positions
  <2>3. pc' \in [Threads -> Places] /\ myPosition' \in [Threads -> Nat]
    BY <1>2 DEF Types
  <2> QED
    BY ONLY <2>1, <2>2, <2>3, OthersInOrder
<1>5. ASSUME ~program'.spurious
      PROVE  /\ Listed("tryInsert", insert_list', pc', myPosition', blocked')
             /\ Listed("tryRemove", remove_list', pc', myPosition', blocked')
  <2>1. /\ Listed("tryInsert", insert_list, pc, myPosition, blocked)
        /\ Listed("tryRemove", remove_list, pc, myPosition, blocked)
    BY <1>5 DEF IInv, Lists
  <2>2. \A u \in Threads : u \in blocked /\ pc[u] = "tryInsert" => u \in blocked'
    BY <1>1 DEF broadcastFirst, owner
  <2>3. Listed("tryInsert", insert_list', pc', myPosition', blocked')
    <3>1. \A u \in Threads : pc[u] = "tryInsert" /\ u \in blocked =>
             pc'[u] = "tryInsert" /\ myPosition'[u] = myPosition[u] /\ u \in blocked'
      BY <1>3, <2>2
    <3>2. insert_list' = insert_list /\ insert_list \in Seq(Nat)
      BY <1>1 DEF IInv, Types
    <3> QED
      BY ONLY <2>1, <3>1, <3>2, StaysListed
  <2>4. Listed("tryRemove", remove_list', pc, myPosition, blocked')
    BY <1>1, <2>1, BroadcastIsTakenOut DEF IInv, Types
  <2>5. Listed("tryRemove", remove_list', pc', myPosition', blocked')
    BY SMTT(60), <1>2, <1>3, <2>4, StaysListed DEF Types
  <2> QED
    BY <2>3, <2>5
<1> QED
  BY <1>1, <1>2, <1>4, <1>5 DEF IInv, Positions, Lists

LEMMA RemoveWaits ==
    ASSUME IInv, NEW t \in Threads, pc[t] = "callRemove",
           myPosition' = [myPosition EXCEPT ![t] = numRemoveCalled],
           numRemoveCalled' = numRemoveCalled + 1,
           remove_list' = Append(remove_list, numRemoveCalled),
           blocked' = blocked \cup {t}, pc' = [pc EXCEPT ![t] = "tryRemove"],
           UNCHANGED <<program, front, nextEmpty, insert_list, numInsertCalled>>
    PROVE  IInv'
<1>1. Types'
  BY AppendProperties DEF IInv, Types, Places
<1>2. \A u \in Threads : u # t => pc'[u] = pc[u] /\ myPosition'[u] = myPosition[u]
  BY DEF IInv, Types
<1>3. pc'[t] = "tryRemove"
  BY DEF IInv, Types
<1>4. InOrder("tryRemove", front', numRemoveCalled', pc', myPosition')
  BY WaitsInOrder DEF IInv, Types, Positions
<1>5. InOrder("tryInsert", nextEmpty', numInsertCalled', pc', myPosition')
  BY <1>1, <1>2, <1>3, OthersInOrder DEF IInv, Types, Positions
<1>6. ASSUME ~program'.spurious
      PROVE  /\ Listed("tryInsert", insert_list', pc', myPosition', blocked')
             /\ Listed("tryRemove", remove_list', pc', myPosition', blocked')
  <2>1. /\ Listed("tryInsert", insert_list, pc, myPosition, blocked)
        /\ Listed("tryRemove", remove_list, pc, myPosition, blocked)
    BY <1>6 DEF IInv, Lists
  <2>2. Listed("tryRemove", remove_list', pc', myPosition', blocked')
    BY <2>1, WaitIsListed DEF IInv, Types, Positions
  <2>3. Listed("tryInsert", insert_list', pc', myPosition', blocked')
    BY ZenonT(60), <1>2, <2>1, StaysListed DEF IInv, Types
  <2> QED
    BY <2>2, <2>3
<1> QED
  BY <1>1, <1>4, <1>5, <1>6 DEF IInv, Positions, Lists

(* The end of tryRemove, likewise.                                         *)
LEMMA RemoveEnds ==
    ASSUME IInv, NEW t \in Threads, removeItem(t),
           pc[t] = "callRemove" \/ (pc[t] = "tryRemove" /\ t \notin blocked),
           myPosition' \in [Threads -> Nat], numRemoveCalled' \in Nat,
           \A u \in Threads : u # t => myPosition'[u] = myPosition[u],
           InOrder("tryRemove", front + 1, numRemoveCalled', pc', myPosition'),
           UNCHANGED <<program, numInsertCalled>>
    PROVE  IInv'
<1>1. /\ pc' = [pc EXCEPT ![t] = "out"] /\ front' = front + 1
      /\ UNCHANGED <<nextEmpty, remove_list>> /\ insert_list' = popped(insert_list)
      /\ broadcastFirst(insert_list, "tryInsert")
  BY DEF removeItem, Goto
<1>2. Types'
  <2>1. insert_list' \in Seq(Nat)
    BY <1>1, HeadTailProperties DEF popped, IInv, Types
  <2>2. pc' \in [Threads -> Places]
    BY <1>1 DEF IInv, Types, Places
  <2>3. /\ program' \in Programs /\ front' \in Nat /\ nextEmpty' \in Nat
        /\ numInsertCalled' \in Nat /\ remove_list' \in Seq(Nat)
    BY <1>1 DEF IInv, Types
  <2> QED
    BY <2>1, <2>2, <2>3 DEF Types
<1>3. pc'[t] = "out" /\ \A u \in Threads : u # t => pc'[u] = pc[u]
  BY <1>1 DEF IInv, Types
<1>4. InOrder("tryInsert", nextEmpty', numInsertCalled', pc', myPosition')
  <2>1. \A u \in Threads :
           /\ (pc'[u] = "tryInsert") <=> (pc[u] = "tryInsert")
           /\ pc[u] = "tryInsert" => myPosition'[u] = myPosition[u]
    BY <1>3
  <2>2. /\ nextEmpty' = nextEmpty /\ nextEmpty \in Nat
        /\ numInsertCalled' = numInsertCalled /\ numInsertCalled \in Nat
        /\ InOrder("tryInsert", nextEmpty, numInsertCalled, pc, myPosition)
        /\ pc \in [Threads -> Places] /\ myPosition \in [Threads -> Nat]
    BY <1>1 DEF IInv, Types, Positions
  <2>3. pc' \in [Threads -> Places] /\ myPosition' \in [Threads -> Nat]
    BY <1>2 DEF Types
  <2> QED
    BY ONLY <2>1, <2>2, <2>3, OthersInOrder
<1>5. ASSUME ~program'.spurious
      PROVE  /\ Listed("tryInsert", insert_list', pc', myPosition', blocked')
             /\ Listed("tryRemove", remove_list', pc', myPosition', blocked')
  <2>1. /\ Listed("tryInsert", insert_list, pc, myPosition, blocked)
        /\ Listed("tryRemove", remove_list, pc, myPosition, blocked)
    BY <1>5 DEF IInv, Lists
  <2>2. \A u \in Threads : u \in blocked /\ pc[u] = "tryRemove" => u \in blocked'
    BY <1>1 DEF broadcastFirst, owner
  <2>3. Listed("tryRemove", remove_list', pc', myPosition', blocked')
    <3>1. \A u \in Threads : pc[u] = "tryRemove" /\ u \in blocked =>
             pc'[u] = "tryRemove" /\ myPosition'[u] = myPosition[u] /\ u \in blocked'
      BY <1>3, <2>2
    <3>2. remove_list' = remove_list /\ remove_list \in Seq(Nat)
      BY <1>1 DEF IInv, Types
    <3> QED
      BY ONLY <2>1, <3>1, <3>2, StaysListed
  <2>4. Listed("tryInsert", insert_list', pc, myPosition, blocked')
    BY <1>1, <2>1, BroadcastIsTakenOut DEF IInv, Types
  <2>5. Listed("tryInsert", insert_list', pc', myPosition', blocked')
    BY SMTT(60), <1>2, <1>3, <2>4, StaysListed DEF Types
  <2> QED
    BY <2>3, <2>5
<1> QED
  BY <1>1, <1>2, <1>4, <1>5 DEF IInv, Positions, Lists

-----------------------------------------------------------------------------
LEMMA InsertPreserves ==
    ASSUME IInv, NEW t \in Threads, tryInsert(t) \/ resumeInsert(t)
    PROVE  IInv'
<1>1. CASE tryInsert(t) /\ insertMustWait(numInsertCalled)
  BY <1>1, InsertWaits DEF tryInsert, Goto, ring
<1>2. CASE tryInsert(t) /\ ~insertMustWait(numInsertCalled)
  <2>1. /\ insertItem(t) /\ pc[t] = "callInsert" /\ pc' = [pc EXCEPT ![t] = "out"]
        /\ myPosition' = [myPosition EXCEPT ![t] = numInsertCalled]
        /\ numInsertCalled' = numInsertCalled + 1 /\ UNCHANGED <<program, numRemoveCalled>>
    BY <1>2 DEF tryInsert, insertItem, Goto
  <2>2. numInsertCalled <= nextEmpty
    BY <1>2 DEF insertMustWait, IInv, Types
  <2>3. InOrder("tryInsert", nextEmpty + 1, numInsertCalled', pc', myPosition')
    BY <2>1, <2>2, NobodyWaits DEF IInv, Types, Positions
  <2>4. /\ myPosition' \in [Threads -> Nat] /\ numInsertCalled' \in Nat
        /\ \A u \in Threads : u # t => myPosition'[u] = myPosition[u]
    BY <2>1 DEF IInv, Types
  <2>5. UNCHANGED <<program, numRemoveCalled>> /\ insertItem(t) /\ pc[t] = "callInsert"
    BY <2>1
  <2> QED
    BY ONLY IInv, t \in Threads, <2>3, <2>4, <2>5, InsertEnds
<1>3. CASE resumeInsert(t) /\ insertMustWait(myPosition[t])
  <2>1. /\ blocked' = blocked \cup {t}
        /\ UNCHANGED <<program, front, nextEmpty, insert_list, remove_list, pc,
                       numInsertCalled, numRemoveCalled, myPosition>>
    BY <1>3 DEF resumeInsert, ring, positions
  <2> QED
    BY <2>1, StaysListed DEF IInv, Types, Positions, Lists
<1>4. CASE resumeInsert(t) /\ ~insertMustWait(myPosition[t])
  <2>1. /\ insertItem(t) /\ pc[t] = "tryInsert" /\ t \notin blocked
        /\ pc' = [pc EXCEPT ![t] = "out"] /\ UNCHANGED <<program, positions>>
    BY <1>4 DEF resumeInsert, insertItem, Goto
  <2>2. myPosition[t] <= nextEmpty
    BY <1>4 DEF insertMustWait, IInv, Types
  <2>3. InOrder("tryInsert", nextEmpty + 1, numInsertCalled, pc', myPosition)
    BY <2>1, <2>2, OldestGoes DEF IInv, Types, Positions
  <2>4. /\ myPosition' = myPosition /\ numInsertCalled' = numInsertCalled /\ numRemoveCalled' = numRemoveCalled
        /\ myPosition \in [Threads -> Nat] /\ numInsertCalled \in Nat
    BY <2>1 DEF positions, IInv, Types
  <2> QED
    BY <2>1, <2>3, <2>4, InsertEnds
<1> QED
  BY <1>1, <1>2, <1>3, <1>4 DEF tryInsert, resumeInsert

LEMMA RemovePreserves ==
    ASSUME IInv, NEW t \in Threads, tryRemove(t) \/ resumeRemove(t)
    PROVE  IInv'
<1>1. CASE tryRemove(t) /\ removeMustWait(numRemoveCalled)
  BY <1>1, RemoveWaits DEF tryRemove, Goto, ring
<1>2. CASE tryRemove(t) /\ ~removeMustWait(numRemoveCalled)
  <2>1. /\ removeItem(t) /\ pc[t] = "callRemove" /\ pc' = [pc EXCEPT ![t] = "out"]
        /\ myPosition' = [myPosition EXCEPT ![t] = numRemoveCalled]
        /\ numRemoveCalled' = numRemoveCalled + 1 /\ UNCHANGED <<program, numInsertCalled>>
    BY <1>2 DEF tryRemove, removeItem, Goto
  <2>2. numRemoveCalled <= front
    BY <1>2 DEF removeMustWait, IInv, Types
  <2>3. InOrder("tryRemove", front + 1, numRemoveCalled', pc', myPosition')
    BY <2>1, <2>2, NobodyWaits DEF IInv, Types, Positions
  <2>4. /\ myPosition' \in [Threads -> Nat] /\ numRemoveCalled' \in Nat
        /\ \A u \in Threads : u # t => myPosition'[u] = myPosition[u]
    BY <2>1 DEF IInv, Types
  <2>5. UNCHANGED <<program, numInsertCalled>> /\ removeItem(t) /\ pc[t] = "callRemove"
    BY <2>1
  <2> QED
    BY ONLY IInv, t \in Threads, <2>3, <2>4, <2>5, RemoveEnds
<1>3. CASE resumeRemove(t) /\ removeMustWait(myPosition[t])
  <2>1. /\ blocked' = blocked \cup {t}
        /\ UNCHANGED <<program, front, nextEmpty, insert_list, remove_list, pc,
                       numInsertCalled, numRemoveCalled, myPosition>>
    BY <1>3 DEF resumeRemove, ring, positions
  <2> QED
    BY <2>1, StaysListed DEF IInv, Types, Positions, Lists
<1>4. CASE resumeRemove(t) /\ ~removeMustWait(myPosition[t])
  <2>1. /\ removeItem(t) /\ pc[t] = "tryRemove" /\ t \notin blocked
        /\ pc' = [pc EXCEPT ![t] = "out"] /\ UNCHANGED <<program, positions>>
    BY <1>4 DEF resumeRemove, removeItem, Goto
  <2>2. myPosition[t] <= front
    BY <1>4 DEF removeMustWait, IInv, Types
  <2>3. InOrder("tryRemove", front + 1, numRemoveCalled, pc', myPosition)
    BY <2>1, <2>2, OldestGoes DEF IInv, Types, Positions
  <2>4. /\ myPosition' = myPosition /\ numRemoveCalled' = numRemoveCalled /\ numInsertCalled' = numInsertCalled
        /\ myPosition \in [Threads -> Nat] /\ numRemoveCalled \in Nat
    BY <2>1 DEF positions, IInv, Types
  <2> QED
    BY <2>1, <2>3, <2>4, RemoveEnds
<1> QED
  BY <1>1, <1>2, <1>3, <1>4 DEF tryRemove, resumeRemove

(* A thread enters a call: its position is still the one of the call before*)
LEMMA CallPreserves == ASSUME IInv, NEW t \in Threads, call(t) PROVE IInv'
<1>1. /\ pc[t] = "out" /\ pc' \in [Threads -> Places]
      /\ pc'[t] \in {"callInsert", "callRemove"}
      /\ \A u \in Threads : u # t => pc'[u] = pc[u]
  BY DEF call, Goto, IInv, Types, Places
<1>2. UNCHANGED <<program, front, nextEmpty, insert_list, remove_list, blocked,
                 numInsertCalled, numRemoveCalled, myPosition>>
  BY DEF call, ring, conds, positions
<1>3. Types'
  BY <1>1, <1>2 DEF IInv, Types
<1>4. \A u \in Threads, op \in {"tryInsert", "tryRemove"} : (pc'[u] = op) <=> (pc[u] = op)
  BY <1>1
<1>5. Positions'
  BY <1>2, <1>3, <1>4, OthersInOrder DEF IInv, Types, Positions
<1>6. Lists'
  BY <1>2, <1>4, StaysListed DEF IInv, Types, Lists
<1> QED
  BY <1>3, <1>5, <1>6 DEF IInv

LEMMA InductiveInvariant == Spec => []IInv
<1>1. Init => IInv
  <2> SUFFICES ASSUME Init PROVE IInv
    OBVIOUS
  <2>1. Types /\ \A t \in Threads : pc[t] = "out"
    BY DEF Init, Types, Places
  <2>2. Positions
    BY <2>1 DEF Init, Positions, InOrder
  <2>3. Lists
    BY DEF Init, Lists, Listed
  <2> QED
    BY <2>1, <2>2, <2>3 DEF IInv
<1>2. IInv /\ [Next]_vars => IInv'
  <2> SUFFICES ASSUME IInv, [Next]_vars PROVE IInv'
    OBVIOUS
  <2>1. ASSUME NEW t \in Threads, threadStep(t)
        PROVE  IInv'
    BY <2>1, CallPreserves, InsertPreserves, RemovePreserves DEF threadStep
  <2>2. ASSUME NEW t \in Threads, spuriousWakeup(t)
        PROVE  IInv'
    <3>1. program'.spurious
      BY <2>2 DEF spuriousWakeup
    <3> QED
      BY <2>2, <3>1 DEF spuriousWakeup, ring, positions, IInv, Types, Positions, Lists
  <2>3. CASE UNCHANGED vars
    BY <2>3 DEF vars, ring, conds, positions, IInv, Types, Positions, Lists
  <2> QED
    BY <2>1, <2>2, <2>3 DEF Next, exited
<1> QED
  BY <1>1, <1>2, PTL DEF Spec

-----------------------------------------------------------------------------
(* Calls take effect in the order in which they got the mutex              *)
(* (ThreadSafeBoundedQueue_FIFO.cpp:48, 85).                               *)
THEOREM ServedInOrder == Spec => []CallOrder
<1>1. IInv => CallOrder
  <2> SUFFICES ASSUME IInv PROVE CallOrder
    OBVIOUS
  <2>1. ASSUME NEW op, NEW done \in Nat, NEW called \in Nat,
               InOrder(op, done, called, pc, myPosition)
        PROVE  waitingAt(op) = done .. (called - 1)
    BY SMTT(60), <2>1 DEF waitingAt, InOrder, IInv, Types
  <2>2. /\ waitingAt("tryInsert") = nextEmpty .. (numInsertCalled - 1)
        /\ waitingAt("tryRemove") = front .. (numRemoveCalled - 1)
    BY <2>1 DEF IInv, Types, Positions
  <2> QED
    BY <2>2 DEF CallOrder, IInv, Positions, InOrder
<1> QED
  BY <1>1, InductiveInvariant, PTL

(* No list holds a condition that has been deleted, unless a wait returns  *)
(* without a signal (ThreadSafeBoundedQueue_FIFO.cpp:56, 64).              *)
THEOREM NothingDangles == Spec => []NoDanglingCond
<1>1. IInv => NoDanglingCond
  <2> SUFFICES ASSUME IInv, ~program.spurious
               PROVE  /\ \A i \in DOMAIN insert_list : owner("tryInsert", insert_list[i]) # {}
                      /\ \A i \in DOMAIN remove_list : owner("tryRemove", remove_list[i]) # {}
    BY DEF NoDanglingCond
  <2>1. /\ DOMAIN insert_list = 1 .. Len(insert_list)
        /\ DOMAIN remove_list = 1 .. Len(remove_list)
    BY DEF IInv, Types
  <2> QED
    BY <2>1 DEF IInv, Lists, Listed, owner
<1> QED
  BY <1>1, InductiveInvariant, PTL

-----------------------------------------------------------------------------
(* The ring.  Its counters are no more than its size apart, and a thread   *)
(* carries an item exactly during a call of tryInsert.                     *)
Slots == 0 .. (MAX - 1)
RingInv ==
    /\ front \in Nat /\ nextEmpty \in Nat /\ nextEmpty - front \in 0 .. MAX
    /\ items \in [Slots -> Items \cup {NoItem}]
    /\ pc \in [Threads -> Places] /\ item \in [Threads -> Items \cup {NoItem}]
    /\ \A t \in Threads :
          IF pc[t] \in {"callInsert", "tryInsert"} THEN item[t] \in Items ELSE item[t] = NoItem

(* Two counters less than a lap apart are in different slots.              *)
LEMMA SlotsDistinct ==
    ASSUME NEW M \in Nat \ {0}, NEW i \in Nat, NEW j \in Nat, i < j, j < i + M
    PROVE  i % M # j % M
<1>1. i = (M * (i \div M)) + (i % M) /\ i % M \in 0..(M - 1) /\ i \div M \in Int
  OBVIOUS
<1>2. j = (M * (j \div M)) + (j % M) /\ j % M \in 0..(M - 1) /\ j \div M \in Int
  OBVIOUS
<1>3. ASSUME i % M = j % M PROVE FALSE
  <2> DEFINE d == (j \div M) - (i \div M)
  <2>1. d \in Int /\ j - i = M * d
    BY <1>1, <1>2, <1>3
  <2>2. CASE d <= 0
    <3>1. M * d <= 0
      BY <2>1, <2>2
    <3> QED
      BY <2>1, <3>1
  <2>3. CASE d >= 1
    <3>1. M * d >= M
      BY <2>1, <2>3
    <3> QED
      BY <2>1, <3>1
  <2> QED
    BY <2>1, <2>2, <2>3
<1> QED
  BY <1>3

(* A remainder is a slot.                                                  *)
LEMMA SlotOf == ASSUME NEW i \in Nat PROVE i % MAX \in Slots
BY FIFOBBQAssumption DEF Slots

(* A function on 1..n is a sequence of length n.                           *)
LEMMA FunctionIsSeq ==
    ASSUME NEW S, NEW n \in Nat, NEW f \in [1..n -> S]
    PROVE  f \in Seq(S) /\ Len(f) = n
<1>1. f \in Seq(S)
  BY SeqDef
<1>2. DOMAIN f = 1..Len(f) /\ Len(f) \in Nat
  BY <1>1, LenProperties
<1> QED
  BY <1>1, <1>2

(* The abstract queue, as a sequence.                                      *)
LEMMA PendingSeq ==
    ASSUME RingInv
    PROVE  /\ pending \in Seq(Items \cup {NoItem})
           /\ Len(pending) = nextEmpty - front
           /\ \A i \in 1..(nextEmpty - front) : pending[i] = items[(front + i - 1) % MAX]
<1>1. nextEmpty - front \in Nat /\ front \in Nat
  BY DEF RingInv
<1>2. ASSUME NEW i \in 1..(nextEmpty - front)
      PROVE  items[(front + i - 1) % MAX] \in Items \cup {NoItem}
  <2>1. front + i - 1 \in Nat
    BY <1>1
  <2> QED
    BY <2>1, SlotOf DEF RingInv
<1> QED
  BY <1>1, <1>2 DEF pending

(* An insert that does not wait appends its item.                          *)
LEMMA InsertAppends ==
    ASSUME RingInv, NEW x \in Items, nextEmpty - front < MAX, front' = front,
           items' = [items EXCEPT ![nextEmpty % MAX] = x], nextEmpty' = nextEmpty + 1
    PROVE  pending' = Append(pending, x)
<1> DEFINE n == nextEmpty - front
<1>1. n \in Nat /\ front \in Nat /\ nextEmpty \in Nat /\ nextEmpty' - front' = n + 1
  BY DEF RingInv
<1>2. pending' = [i \in 1..(n + 1) |-> items'[(front + i - 1) % MAX]]
  BY <1>1 DEF pending
<1>3. /\ Append(pending, x) \in Seq(Items \cup {NoItem})
      /\ Len(Append(pending, x)) = n + 1
      /\ \A i \in 1..(n + 1) : Append(pending, x)[i] = IF i = n + 1 THEN x ELSE pending[i]
  <2>1. pending \in Seq(Items \cup {NoItem}) /\ Len(pending) = n
    BY PendingSeq
  <2>2. /\ Append(pending, x) \in Seq(Items \cup {NoItem})
        /\ Len(Append(pending, x)) = Len(pending) + 1
        /\ \A i \in 1..Len(pending) : Append(pending, x)[i] = pending[i]
        /\ Append(pending, x)[Len(pending) + 1] = x
    BY <2>1, AppendProperties
  <2> QED
    BY <1>1, <2>1, <2>2
<1>4. ASSUME NEW i \in 1..(n + 1)
      PROVE  items'[(front + i - 1) % MAX] = IF i = n + 1 THEN x ELSE pending[i]
  <2>1. items \in [Slots -> Items \cup {NoItem}] /\ nextEmpty % MAX \in Slots
    BY <1>1, SlotOf DEF RingInv
  <2>2. CASE i = n + 1
    <3>1. front + i - 1 = nextEmpty
      BY <1>1, <2>2
    <3> QED
      BY <2>1, <2>2, <3>1
  <2>3. CASE i # n + 1
    <3> DEFINE k == front + i - 1
    <3>1. k \in Nat /\ k < nextEmpty /\ nextEmpty < k + MAX /\ i \in 1..n
      BY <1>1, <2>3, FIFOBBQAssumption
    <3>2. k % MAX # nextEmpty % MAX
      BY <1>1, <3>1, SlotsDistinct, FIFOBBQAssumption
    <3>3. items'[k % MAX] = items[k % MAX]
      BY <2>1, <3>1, <3>2, SlotOf
    <3> QED
      BY <2>3, <3>1, <3>3, PendingSeq
  <2> QED
    BY <2>2, <2>3
<1>5. \A i \in 1..(n + 1) : Append(pending, x)[i] \in Items \cup {NoItem}
  BY <1>3
<1>6. pending' \in Seq(Items \cup {NoItem}) /\ Len(pending') = n + 1
  <2>1. pending' \in [1..(n + 1) -> Items \cup {NoItem}]
    BY <1>2, <1>3, <1>4, <1>5
  <2> QED
    BY <1>1, <2>1, FunctionIsSeq
<1>7. ASSUME NEW i \in 1..(n + 1)
      PROVE  pending'[i] = Append(pending, x)[i]
  BY <1>2, <1>3, <1>4
<1> QED
  BY <1>3, <1>6, <1>7, SeqEqual

(* A remove that does not wait takes the head.                             *)
LEMMA RemoveTakesHead ==
    ASSUME RingInv, nextEmpty - front # 0, front' = front + 1,
           items' = items, nextEmpty' = nextEmpty
    PROVE  /\ pending # <<>>
           /\ Head(pending) = items[front % MAX]
           /\ pending' = Tail(pending)
<1> DEFINE n == nextEmpty - front
<1>1. n \in Nat /\ n > 0 /\ front \in Nat /\ nextEmpty - front' = n - 1
  BY DEF RingInv
<1>2. pending # <<>> /\ Head(pending) = items[front % MAX]
  <2>1. pending[1] = items[(front + 1 - 1) % MAX] /\ Len(pending) = n
    BY <1>1, PendingSeq
  <2>2. front + 1 - 1 = front
    BY <1>1
  <2> QED
    BY <1>1, <2>1, <2>2, PendingSeq
<1>3. pending' = [i \in 1..(n - 1) |-> items[(front + 1 + i - 1) % MAX]]
  BY <1>1 DEF pending
<1>4. /\ Tail(pending) \in Seq(Items \cup {NoItem})
      /\ Len(Tail(pending)) = n - 1
      /\ \A i \in 1..(n - 1) : Tail(pending)[i] = pending[i + 1]
  BY <1>1, <1>2, PendingSeq, HeadTailProperties
<1>5. ASSUME NEW i \in 1..(n - 1)
      PROVE  pending[i + 1] = items[(front + 1 + i - 1) % MAX]
  <2>1. i + 1 \in 1..n /\ front + (i + 1) - 1 = front + 1 + i - 1
    BY <1>1
  <2> QED
    BY <2>1, PendingSeq
<1>6. \A i \in 1..(n - 1) : Tail(pending)[i] \in Items \cup {NoItem}
  BY <1>1, <1>4
<1>7. pending' \in Seq(Items \cup {NoItem}) /\ Len(pending') = n - 1
  <2>1. pending' \in [1..(n - 1) -> Items \cup {NoItem}]
    BY <1>3, <1>4, <1>5, <1>6
  <2> QED
    BY <1>1, <2>1, FunctionIsSeq
<1>8. ASSUME NEW i \in 1..(n - 1)
      PROVE  pending'[i] = Tail(pending)[i]
  BY <1>3, <1>4, <1>5
<1>9. pending' = Tail(pending)
  BY <1>4, <1>7, <1>8, SeqEqual
<1> QED
  BY <1>2, <1>9

(* The steps preserve the invariant and are steps of the abstract queue.   *)
Insertion(t) == nextEmpty - front # MAX /\ insertItem(t)
Removal(t) == nextEmpty - front # 0 /\ removeItem(t)

LEMMA InsertionRefines ==
    ASSUME RingInv, NEW t \in Threads, pc[t] \in {"callInsert", "tryInsert"}, Insertion(t),
           UNCHANGED remove_n
    PROVE  RingInv' /\ BQ!Insert(t)
<1>1. /\ items' = [items EXCEPT ![nextEmpty % MAX] = item[t]]
      /\ nextEmpty' = nextEmpty + 1 /\ front' = front
      /\ item' = [item EXCEPT ![t] = NoItem]
      /\ pc' = [pc EXCEPT ![t] = "out"]
  BY DEF Insertion, insertItem, Goto
<1>2. nextEmpty - front < MAX /\ item[t] \in Items /\ item[t] # NoItem
  BY FIFOBBQAssumption DEF RingInv, Insertion
<1>3. pending' = Append(pending, item[t])
  BY <1>1, <1>2, InsertAppends
<1>4. Len(pending) < MAX
  BY <1>2, PendingSeq
<1>5. BQ!Insert(t)
  BY <1>1, <1>2, <1>3, <1>4 DEF BQ!Insert
<1>6. items' \in [Slots -> Items \cup {NoItem}]
  BY <1>1, <1>2 DEF RingInv
<1>7. nextEmpty' \in Nat /\ nextEmpty' - front' \in 0 .. MAX
  BY <1>1, <1>2, FIFOBBQAssumption DEF RingInv
<1>8. RingInv'
  BY <1>1, <1>6, <1>7 DEF RingInv, Places
<1> QED
  BY <1>5, <1>8

LEMMA RemovalRefines ==
    ASSUME RingInv, NEW t \in Threads, pc[t] \in {"callRemove", "tryRemove"}, Removal(t),
           UNCHANGED item
    PROVE  RingInv' /\ BQ!Remove(t)
<1>1. /\ remove_n' = [remove_n EXCEPT ![t] = items[front % MAX]]
      /\ front' = front + 1 /\ items' = items /\ nextEmpty' = nextEmpty
      /\ pc' = [pc EXCEPT ![t] = "out"]
  BY DEF Removal, removeItem, Goto
<1>2. /\ pending # <<>>
      /\ Head(pending) = items[front % MAX]
      /\ pending' = Tail(pending)
  BY <1>1, RemoveTakesHead DEF Removal
<1>3. BQ!Remove(t)
  BY <1>1, <1>2 DEF BQ!Remove
<1>4. front' \in Nat /\ nextEmpty' - front' \in 0 .. MAX
  BY <1>1, FIFOBBQAssumption DEF RingInv, Removal
<1>5. RingInv'
  BY <1>1, <1>4 DEF RingInv, Places
<1> QED
  BY <1>3, <1>5

LEMMA StepsRefine ==
    ASSUME RingInv, [Next]_vars
    PROVE  RingInv' /\ [BQ!Next]_<<pending, item, remove_n>>
<1>1. ASSUME UNCHANGED <<ring, item, remove_n>>,
             pc' \in [Threads -> Places],
             \A t \in Threads : pc'[t] \in {"callInsert", "tryInsert"}
                                   <=> pc[t] \in {"callInsert", "tryInsert"}
      PROVE  RingInv' /\ UNCHANGED <<pending, item, remove_n>>
  BY <1>1 DEF ring, RingInv, pending
<1>2. ASSUME NEW t \in Threads, call(t)
      PROVE  RingInv' /\ [BQ!Next]_<<pending, item, remove_n>>
  <2>1. /\ pc[t] = "out" /\ item[t] = NoItem /\ UNCHANGED <<items, front, nextEmpty, remove_n>>
        /\ UNCHANGED pending
    BY <1>2 DEF call, ring, RingInv, pending
  <2>2. CASE /\ \E x \in Items : item' = [item EXCEPT ![t] = x]
             /\ Goto(t, "callInsert")
    <3>1. BQ!Call(t)
      BY <2>1, <2>2 DEF BQ!Call
    <3>2. RingInv'
      BY <2>1, <2>2 DEF RingInv, Goto, Places
    <3> QED
      BY <3>1, <3>2 DEF BQ!Next
  <2>3. CASE Goto(t, "callRemove") /\ UNCHANGED item
    BY <2>1, <2>3 DEF RingInv, Goto, Places
  <2> QED
    BY <1>2, <2>2, <2>3 DEF call
<1>3. ASSUME NEW t \in Threads, tryInsert(t) \/ resumeInsert(t)
      PROVE  RingInv' /\ [BQ!Next]_<<pending, item, remove_n>>
  <2>1. /\ pc[t] \in {"callInsert", "tryInsert"} /\ UNCHANGED remove_n
        /\ \/ UNCHANGED <<ring, item>> /\ pc' = [pc EXCEPT ![t] = "tryInsert"]
           \/ UNCHANGED <<ring, item, pc>>
           \/ Insertion(t)
    BY <1>3 DEF tryInsert, resumeInsert, insertMustWait, Insertion, Goto
  <2>2. CASE UNCHANGED <<ring, item>> /\ pc' = [pc EXCEPT ![t] = "tryInsert"]
    BY <1>1, <2>1, <2>2 DEF RingInv, Places
  <2>3. CASE UNCHANGED <<ring, item, pc>>
    BY <1>1, <2>1, <2>3 DEF RingInv
  <2>4. CASE Insertion(t)
    BY <2>1, <2>4, InsertionRefines DEF BQ!Next
  <2> QED
    BY <2>1, <2>2, <2>3, <2>4
<1>4. ASSUME NEW t \in Threads, tryRemove(t) \/ resumeRemove(t)
      PROVE  RingInv' /\ [BQ!Next]_<<pending, item, remove_n>>
  <2>1. /\ pc[t] \in {"callRemove", "tryRemove"} /\ UNCHANGED item
        /\ \/ UNCHANGED <<ring, remove_n>> /\ pc' = [pc EXCEPT ![t] = "tryRemove"]
           \/ UNCHANGED <<ring, remove_n, pc>>
           \/ Removal(t)
    BY <1>4 DEF tryRemove, resumeRemove, removeMustWait, Removal, Goto
  <2>2. CASE UNCHANGED <<ring, remove_n>> /\ pc' = [pc EXCEPT ![t] = "tryRemove"]
    BY <1>1, <2>1, <2>2 DEF RingInv, Places
  <2>3. CASE UNCHANGED <<ring, remove_n, pc>>
    BY <1>1, <2>1, <2>3 DEF RingInv
  <2>4. CASE Removal(t)
    BY <2>1, <2>4, RemovalRefines DEF BQ!Next
  <2> QED
    BY <2>1, <2>2, <2>3, <2>4
<1>5. ASSUME NEW t \in Threads, spuriousWakeup(t)
      PROVE  RingInv' /\ [BQ!Next]_<<pending, item, remove_n>>
  BY <1>1, <1>5 DEF spuriousWakeup, RingInv
<1>6. CASE UNCHANGED vars
  BY <1>1, <1>6 DEF vars, RingInv
<1> QED
  BY <1>2, <1>3, <1>4, <1>5, <1>6 DEF Next, threadStep, exited

\* The queue in call order is a bounded FIFO queue: each call takes effect at
\* one instant, for any number of threads and any size, even with wake-ups that
\* nobody sent (ThreadSafeBoundedQueue_FIFO.cpp:58, 95).
THEOREM FIFORefinement == Spec => ImplementsBoundedQueue
<1>1. Init => BQ!Init /\ RingInv
  <2> SUFFICES ASSUME Init PROVE BQ!Init /\ RingInv
    OBVIOUS
  <2>1. pending = <<>>
    BY DEF Init, pending
  <2>2. RingInv
    BY FIFOBBQAssumption DEF Init, RingInv, Places, Slots
  <2> QED
    BY <2>1, <2>2 DEF Init, BQ!Init
<1>2. RingInv /\ [Next]_vars => RingInv' /\ [BQ!Next]_<<pending, item, remove_n>>
  BY StepsRefine
<1> QED
  BY <1>1, <1>2, PTL DEF Spec, ImplementsBoundedQueue, BQ!Spec

-----------------------------------------------------------------------------
(* The queue with two conditions.                                          *)

(* A thread carries an item exactly during a call of tryInsert.            *)
CVItemInFlight ==
    \A t \in CV!Threads :
        IF cvPc[t] = "tryInsert" THEN cvItem[t] \in Items ELSE cvItem[t] = NoItem

(* A thread is only ever inside the function its role calls.               *)
CVRoles ==
    \A t \in CV!Threads :
        /\ cvPc[t] = "tryInsert" => t \in Inserters
        /\ cvPc[t] = "tryRemove" => t \in Removers

CVInv == CV!TypeOK /\ CV!NoLostWakeup /\ CVItemInFlight /\ CVRoles

-----------------------------------------------------------------------------
(* A remainder is a slot.                                                  *)
LEMMA CVSlotOf == ASSUME NEW i \in Nat PROVE i % MAX \in CV!Slots
BY FIFOBBQAssumption, CallsAssumption DEF CV!Slots

-----------------------------------------------------------------------------
(* The steps preserve the invariant.                                       *)
LEMMA CVInsertKeeps ==
    ASSUME CVInv, NEW t \in CV!Threads, CV!tryInsert(t)
    PROVE  CVInv'
<1> USE DEF CVInv
<1>1. cvPc[t] = "tryInsert" /\ cvItem[t] \in Items /\ t \in Inserters
  BY DEF CV!tryInsert, CVItemInFlight, CVRoles
<1>2. CASE CV!full
  <2>1. /\ itemAddedCond' = itemAddedCond \cup {t}
        /\ UNCHANGED <<cvItems, cvNextEmpty, cvFront, itemRemovedCond, cvPc, cvItem, cvLeft, cvRemove_n>>
    BY <1>2 DEF CV!tryInsert
  <2> QED
    BY <1>1, <1>2, <2>1 DEF CV!TypeOK, CV!NoLostWakeup, CVItemInFlight, CVRoles, CV!full
<1>3. CASE ~CV!full
  <2>1. /\ cvItems' = [cvItems EXCEPT ![cvNextEmpty % MAX] = cvItem[t]]
        /\ cvNextEmpty' = cvNextEmpty + 1
        /\ itemRemovedCond' = {}
        /\ cvPc' = [cvPc EXCEPT ![t] = "out"]
        /\ cvItem' = [cvItem EXCEPT ![t] = NoItem]
        /\ UNCHANGED <<itemAddedCond, cvFront, cvLeft, cvRemove_n>>
    BY <1>3 DEF CV!tryInsert, CV!AfterBroadcast
  <2>2. cvNextEmpty - cvFront < MAX /\ itemAddedCond = {}
    BY <1>3, FIFOBBQAssumption, CallsAssumption DEF CV!TypeOK, CV!full, CV!NoLostWakeup
  <2>3. CV!TypeOK'
    <3>1. cvItems' \in [CV!Slots -> Items \cup {NoItem}]
      BY <1>1, <2>1 DEF CV!TypeOK
    <3>2. cvNextEmpty' \in Nat /\ cvNextEmpty' - cvFront \in 0..MAX
      BY <2>1, <2>2, FIFOBBQAssumption, CallsAssumption DEF CV!TypeOK
    <3>3. /\ cvItem' \in [CV!Threads -> Items \cup {NoItem}]
          /\ cvPc' \in [CV!Threads -> {"out", "tryInsert", "tryRemove"}]
      BY <2>1 DEF CV!TypeOK
    <3> QED
      BY <2>1, <3>1, <3>2, <3>3 DEF CV!TypeOK
  <2>4. CVItemInFlight' /\ CVRoles'
    BY <2>1 DEF CVItemInFlight, CVRoles, CV!TypeOK
  <2>5. CV!NoLostWakeup'
    BY <2>1, <2>2 DEF CV!NoLostWakeup
  <2> QED
    BY <2>3, <2>4, <2>5
<1> QED
  BY <1>2, <1>3

LEMMA CVRemoveKeeps ==
    ASSUME CVInv, NEW t \in CV!Threads, CV!tryRemove(t)
    PROVE  CVInv'
<1> USE DEF CVInv
<1>1. cvPc[t] = "tryRemove" /\ t \in Removers
  BY DEF CV!tryRemove, CVRoles
<1>2. CASE cvNextEmpty - cvFront = 0
  <2>1. /\ itemRemovedCond' = itemRemovedCond \cup {t}
        /\ UNCHANGED <<cvItems, cvNextEmpty, cvFront, itemAddedCond, cvPc, cvItem, cvLeft, cvRemove_n>>
    BY <1>2 DEF CV!tryRemove
  <2> QED
    BY <1>1, <1>2, <2>1 DEF CV!TypeOK, CV!NoLostWakeup, CVItemInFlight, CVRoles, CV!full
<1>3. CASE cvNextEmpty - cvFront # 0
  <2>1. /\ cvRemove_n' = [cvRemove_n EXCEPT ![t] = cvItems[cvFront % MAX]]
        /\ cvFront' = cvFront + 1
        /\ itemAddedCond' = {}
        /\ cvPc' = [cvPc EXCEPT ![t] = "out"]
        /\ UNCHANGED <<itemRemovedCond, cvItems, cvNextEmpty, cvLeft, cvItem>>
    BY <1>3 DEF CV!tryRemove, CV!AfterBroadcast
  <2>2. cvNextEmpty - cvFront > 0 /\ itemRemovedCond = {}
    BY <1>3 DEF CV!TypeOK, CV!NoLostWakeup
  <2>3. cvItems[cvFront % MAX] \in Items \cup {NoItem}
    BY CVSlotOf DEF CV!TypeOK
  <2>4. CV!TypeOK'
    <3>1. cvFront' \in Nat /\ cvNextEmpty - cvFront' \in 0..MAX
      BY <2>1, <2>2, FIFOBBQAssumption, CallsAssumption DEF CV!TypeOK
    <3>2. /\ cvRemove_n' \in [CV!Threads -> Items \cup {NoItem}]
          /\ cvPc' \in [CV!Threads -> {"out", "tryInsert", "tryRemove"}]
      BY <2>1, <2>3 DEF CV!TypeOK
    <3> QED
      BY <2>1, <3>1, <3>2 DEF CV!TypeOK
  <2>5. CVItemInFlight' /\ CVRoles'
    BY <1>1, <2>1 DEF CVItemInFlight, CVRoles, CV!TypeOK
  <2>6. CV!NoLostWakeup'
    BY <2>1, <2>2 DEF CV!NoLostWakeup
  <2> QED
    BY <2>4, <2>5, <2>6
<1> QED
  BY <1>2, <1>3

LEMMA CVCallKeeps ==
    ASSUME CVInv, NEW t \in CV!Threads, CV!call(t)
    PROVE  CVInv'
<1> USE DEF CVInv
<1>1. CV!TypeOK'
  BY DEF CV!call, CV!TypeOK
<1>2. CV!NoLostWakeup'
  BY DEF CV!call, CV!NoLostWakeup, CV!full
<1>3. CVRoles'
  BY DEF CV!call, CVRoles, CV!TypeOK
<1>4. CVItemInFlight'
  BY DEF CV!call, CVItemInFlight, CV!TypeOK
<1> QED
  BY <1>1, <1>2, <1>3, <1>4

(* The inductive invariant holds in every behaviour of the queue.          *)
LEMMA CVInductive == CV!Spec => []CVInv
<1>1. CV!Init => CVInv
  BY FIFOBBQAssumption, CallsAssumption DEF CV!Init, CVInv, CV!TypeOK, CV!NoLostWakeup, CVItemInFlight, CVRoles, CV!Threads, CV!full
<1>2. CVInv /\ [CV!Next]_CV!vars => CVInv'
  <2> SUFFICES ASSUME CVInv, [CV!Next]_CV!vars PROVE CVInv'
    OBVIOUS
  <2>1. CASE UNCHANGED CV!vars
    BY <2>1 DEF CV!vars, CVInv, CV!TypeOK, CV!NoLostWakeup, CVItemInFlight, CVRoles, CV!full
  <2>2. ASSUME NEW t \in CV!Threads, CV!threadStep(t)
        PROVE  CVInv'
    BY <2>2, CVCallKeeps, CVInsertKeeps, CVRemoveKeeps DEF CV!threadStep
  <2>3. ASSUME NEW t \in CV!Threads, CV!spuriousWakeup(t)
        PROVE  CVInv'
    BY <2>3 DEF CV!spuriousWakeup, CVInv, CV!TypeOK, CV!NoLostWakeup, CVItemInFlight, CVRoles, CV!full
  <2> QED
    BY <2>1, <2>2, <2>3 DEF CV!Next, CV!exited
<1> QED
  BY <1>1, <1>2, PTL DEF CV!Spec

(* Nobody is blocked on a condition that already holds.                    *)
THEOREM NoThreadForgotten == CV!Spec => []CV!NoLostWakeup
<1>1. CVInv => CV!NoLostWakeup
  BY DEF CVInv
<1> QED
  BY <1>1, CVInductive, PTL

-----------------------------------------------------------------------------
(* The abstract queue, as a sequence.                                      *)
LEMMA CVPendingSeq ==
    ASSUME CVInv
    PROVE  /\ CV!pending \in Seq(Items \cup {NoItem})
           /\ Len(CV!pending) = cvNextEmpty - cvFront
           /\ \A i \in 1..(cvNextEmpty - cvFront) : CV!pending[i] = cvItems[(cvFront + i - 1) % MAX]
<1>1. cvNextEmpty - cvFront \in Nat /\ cvFront \in Nat
  BY DEF CVInv, CV!TypeOK
<1>2. ASSUME NEW i \in 1..(cvNextEmpty - cvFront)
      PROVE  cvItems[(cvFront + i - 1) % MAX] \in Items \cup {NoItem}
  <2>1. cvFront + i - 1 \in Nat
    BY <1>1
  <2> QED
    BY <2>1, CVSlotOf DEF CVInv, CV!TypeOK
<1> QED
  BY <1>1, <1>2 DEF CV!pending

(* An insert that does not wait appends its item.                          *)
LEMMA CVInsertAppends ==
    ASSUME CVInv, NEW x \in Items, cvNextEmpty - cvFront < MAX, cvFront' = cvFront,
           cvItems' = [cvItems EXCEPT ![cvNextEmpty % MAX] = x], cvNextEmpty' = cvNextEmpty + 1
    PROVE  CV!pending' = Append(CV!pending, x)
<1> DEFINE n == cvNextEmpty - cvFront
<1>1. n \in Nat /\ cvFront \in Nat /\ cvNextEmpty \in Nat /\ cvNextEmpty' - cvFront' = n + 1
  BY DEF CVInv, CV!TypeOK
<1>2. CV!pending' = [i \in 1..(n + 1) |-> cvItems'[(cvFront + i - 1) % MAX]]
  BY <1>1 DEF CV!pending
<1>3. /\ Append(CV!pending, x) \in Seq(Items \cup {NoItem})
      /\ Len(Append(CV!pending, x)) = n + 1
      /\ \A i \in 1..(n + 1) : Append(CV!pending, x)[i] = IF i = n + 1 THEN x ELSE CV!pending[i]
  <2>1. CV!pending \in Seq(Items \cup {NoItem}) /\ Len(CV!pending) = n
    BY CVPendingSeq
  <2>2. /\ Append(CV!pending, x) \in Seq(Items \cup {NoItem})
        /\ Len(Append(CV!pending, x)) = Len(CV!pending) + 1
        /\ \A i \in 1..Len(CV!pending) : Append(CV!pending, x)[i] = CV!pending[i]
        /\ Append(CV!pending, x)[Len(CV!pending) + 1] = x
    BY <2>1, AppendProperties
  <2> QED
    BY <1>1, <2>1, <2>2
<1>4. ASSUME NEW i \in 1..(n + 1)
      PROVE  cvItems'[(cvFront + i - 1) % MAX] = IF i = n + 1 THEN x ELSE CV!pending[i]
  <2>1. cvItems \in [CV!Slots -> Items \cup {NoItem}] /\ cvNextEmpty % MAX \in CV!Slots
    BY <1>1, CVSlotOf DEF CVInv, CV!TypeOK
  <2>2. CASE i = n + 1
    <3>1. cvFront + i - 1 = cvNextEmpty
      BY <1>1, <2>2
    <3> QED
      BY <2>1, <2>2, <3>1
  <2>3. CASE i # n + 1
    <3> DEFINE k == cvFront + i - 1
    <3>1. k \in Nat /\ k < cvNextEmpty /\ cvNextEmpty < k + MAX /\ i \in 1..n
      BY <1>1, <2>3, FIFOBBQAssumption, CallsAssumption
    <3>2. k % MAX # cvNextEmpty % MAX
      BY <1>1, <3>1, SlotsDistinct, FIFOBBQAssumption, CallsAssumption
    <3>3. cvItems'[k % MAX] = cvItems[k % MAX]
      BY <2>1, <3>1, <3>2, CVSlotOf
    <3> QED
      BY <2>3, <3>1, <3>3, CVPendingSeq
  <2> QED
    BY <2>2, <2>3
<1>5. \A i \in 1..(n + 1) : Append(CV!pending, x)[i] \in Items \cup {NoItem}
  BY <1>3
<1>6. CV!pending' \in Seq(Items \cup {NoItem}) /\ Len(CV!pending') = n + 1
  <2>1. CV!pending' \in [1..(n + 1) -> Items \cup {NoItem}]
    BY <1>2, <1>3, <1>4, <1>5
  <2> QED
    BY <1>1, <2>1, FunctionIsSeq
<1>7. ASSUME NEW i \in 1..(n + 1)
      PROVE  CV!pending'[i] = Append(CV!pending, x)[i]
  BY <1>2, <1>3, <1>4
<1> QED
  BY <1>3, <1>6, <1>7, SeqEqual

(* A remove that does not wait takes the head.                             *)
LEMMA CVRemoveTakesHead ==
    ASSUME CVInv, cvNextEmpty - cvFront # 0, cvFront' = cvFront + 1,
           cvItems' = cvItems, cvNextEmpty' = cvNextEmpty
    PROVE  /\ CV!pending # <<>>
           /\ Head(CV!pending) = cvItems[cvFront % MAX]
           /\ CV!pending' = Tail(CV!pending)
<1> DEFINE n == cvNextEmpty - cvFront
<1>1. n \in Nat /\ n > 0 /\ cvFront \in Nat /\ cvNextEmpty - cvFront' = n - 1
  BY DEF CVInv, CV!TypeOK
<1>2. CV!pending # <<>> /\ Head(CV!pending) = cvItems[cvFront % MAX]
  <2>1. CV!pending[1] = cvItems[(cvFront + 1 - 1) % MAX] /\ Len(CV!pending) = n
    BY <1>1, CVPendingSeq
  <2>2. cvFront + 1 - 1 = cvFront
    BY <1>1
  <2> QED
    BY <1>1, <2>1, <2>2, CVPendingSeq
<1>3. CV!pending' = [i \in 1..(n - 1) |-> cvItems[(cvFront + 1 + i - 1) % MAX]]
  BY <1>1 DEF CV!pending
<1>4. /\ Tail(CV!pending) \in Seq(Items \cup {NoItem})
      /\ Len(Tail(CV!pending)) = n - 1
      /\ \A i \in 1..(n - 1) : Tail(CV!pending)[i] = CV!pending[i + 1]
  BY <1>1, <1>2, CVPendingSeq, HeadTailProperties
<1>5. ASSUME NEW i \in 1..(n - 1)
      PROVE  CV!pending[i + 1] = cvItems[(cvFront + 1 + i - 1) % MAX]
  <2>1. i + 1 \in 1..n /\ cvFront + (i + 1) - 1 = cvFront + 1 + i - 1
    BY <1>1
  <2> QED
    BY <2>1, CVPendingSeq
<1>6. \A i \in 1..(n - 1) : Tail(CV!pending)[i] \in Items \cup {NoItem}
  BY <1>1, <1>4
<1>7. CV!pending' \in Seq(Items \cup {NoItem}) /\ Len(CV!pending') = n - 1
  <2>1. CV!pending' \in [1..(n - 1) -> Items \cup {NoItem}]
    BY <1>3, <1>4, <1>5, <1>6
  <2> QED
    BY <1>1, <2>1, FunctionIsSeq
<1>8. ASSUME NEW i \in 1..(n - 1)
      PROVE  CV!pending'[i] = Tail(CV!pending)[i]
  BY <1>3, <1>4, <1>5
<1>9. CV!pending' = Tail(CV!pending)
  BY <1>4, <1>7, <1>8, SeqEqual
<1> QED
  BY <1>2, <1>9

(* Every step of the monitor is a step of the abstract queue or none.      *)
LEMMA CVStepsRefine ==
    ASSUME CVInv, [CV!Next]_CV!vars
    PROVE  [CV!BQ!Next]_<<CV!pending, cvItem, cvRemove_n>>
<1> USE DEF CV!BQ!Next, CV!BQ!Call, CV!BQ!Insert, CV!BQ!Remove
<1>1. ASSUME NEW t \in CV!Threads, CV!call(t)
      PROVE  [CV!BQ!Next]_<<CV!pending, cvItem, cvRemove_n>>
  <2>1. cvItem[t] = NoItem /\ UNCHANGED <<CV!pending, cvRemove_n>>
    BY <1>1 DEF CV!call, CVInv, CVItemInFlight, CV!pending
  <2>2. CV!BQ!Call(t) \/ UNCHANGED <<CV!pending, cvItem, cvRemove_n>>
    BY <1>1, <2>1 DEF CV!call
  <2> QED
    BY <2>2
<1>2. ASSUME NEW t \in CV!Threads, CV!tryInsert(t)
      PROVE  [CV!BQ!Next]_<<CV!pending, cvItem, cvRemove_n>>
  <2>1. CASE CV!full
    BY <1>2, <2>1 DEF CV!tryInsert, CV!pending
  <2>2. CASE ~CV!full
    <3>1. cvNextEmpty - cvFront < MAX /\ cvItem[t] \in Items
      BY <1>2, <2>2, FIFOBBQAssumption, CallsAssumption DEF CVInv, CV!TypeOK, CV!full, CVItemInFlight, CV!tryInsert
    <3>2. CV!pending' = Append(CV!pending, cvItem[t])
      BY <1>2, <2>2, <3>1, CVInsertAppends DEF CV!tryInsert
    <3>3. Len(CV!pending) < MAX /\ cvItem[t] # NoItem
      BY <3>1, CVPendingSeq, FIFOBBQAssumption, CallsAssumption
    <3>4. CV!BQ!Insert(t)
      BY <1>2, <2>2, <3>2, <3>3 DEF CV!tryInsert
    <3> QED
      BY <3>4
  <2> QED
    BY <2>1, <2>2
<1>3. ASSUME NEW t \in CV!Threads, CV!tryRemove(t)
      PROVE  [CV!BQ!Next]_<<CV!pending, cvItem, cvRemove_n>>
  <2>1. CASE cvNextEmpty - cvFront = 0
    BY <1>3, <2>1 DEF CV!tryRemove, CV!pending
  <2>2. CASE cvNextEmpty - cvFront # 0
    <3>1. /\ CV!pending # <<>>
          /\ Head(CV!pending) = cvItems[cvFront % MAX]
          /\ CV!pending' = Tail(CV!pending)
      BY <1>3, <2>2, CVRemoveTakesHead DEF CV!tryRemove
    <3>2. CV!BQ!Remove(t)
      BY <1>3, <2>2, <3>1 DEF CV!tryRemove
    <3> QED
      BY <3>2
  <2> QED
    BY <2>1, <2>2
<1>4. ASSUME NEW t \in CV!Threads, CV!spuriousWakeup(t)
      PROVE  UNCHANGED <<CV!pending, cvItem, cvRemove_n>>
  BY <1>4 DEF CV!spuriousWakeup, CV!pending
<1>5. CASE UNCHANGED CV!vars
  BY <1>5 DEF CV!vars, CV!pending
<1> QED
  BY <1>1, <1>2, <1>3, <1>4, <1>5 DEF CV!Next, CV!threadStep, CV!exited

(* The ring is a bounded FIFO queue.                                       *)
THEOREM CVRefinement == CV!Spec => CV!ImplementsBoundedQueue
<1>1. CV!Init => CV!BQ!Init
  <2> SUFFICES ASSUME CV!Init PROVE CV!BQ!Init
    OBVIOUS
  <2>1. CV!pending = <<>>
    BY DEF CV!Init, CV!pending
  <2> QED
    BY <2>1 DEF CV!Init, CV!BQ!Init
<1>2. CVInv /\ [CV!Next]_CV!vars => [CV!BQ!Next]_<<CV!pending, cvItem, cvRemove_n>>
  BY CVStepsRefine
<1> QED
  BY <1>1, <1>2, CVInductive, PTL DEF CV!Spec, CV!ImplementsBoundedQueue, CV!BQ!Spec

-----------------------------------------------------------------------------
LEMMA RoundCardinality == \A S : Round!Cardinality(S) = Cardinality(S)
BY Zenon DEF Round!Cardinality, Cardinality

At(l) == {t \in Threads : bpc[t] = l}

Gathering(r) ==
    /\ numEntered < Round!numThreads
    /\ numEntered = Cardinality(At("entering"))
    /\ \A t \in Threads :
          \/ bpc[t] = "out" /\ begun[t] = r /\ returned[t] = r
          \/ bpc[t] = "entering" /\ begun[t] = r + 1 /\ returned[t] = r
          \/ /\ bpc[t] = "leaving" /\ begun[t] = r /\ returned[t] = r - 1
             /\ numLeaving >= Round!numThreads

Leaving(r) ==
    /\ numEntered = Round!numThreads
    /\ numLeaving = Cardinality(At("leaving")) /\ numLeaving < Round!numThreads
    /\ \A t \in Threads :
          /\ bpc[t] \in {"entering", "leaving"}
          /\ begun[t] = r + 1 /\ returned[t] = r

TheRound(r) == Gathering(r) \/ Leaving(r)

RoundInv ==
    /\ numEntered \in Nat /\ numLeaving \in Nat
    /\ bpc \in [Threads -> {"out", "entering", "leaving"}]
    /\ begun \in [Threads -> Int] /\ returned \in [Threads -> Int]
    /\ \E r \in Nat : TheRound(r)

-----------------------------------------------------------------------------
(* Threads at a place are counted.                                         *)
LEMMA AtFinite ==
    ASSUME IsFiniteSet(Threads), NEW l
    PROVE  /\ IsFiniteSet(At(l)) /\ Cardinality(At(l)) \in Nat
           /\ Round!numThreads \in Nat
BY FS_Subset, FS_CardinalityType, RoundCardinality DEF At, Round!numThreads

(* All threads but one are at a place: one more thread there, and it is    *)
(* all of them.                                                            *)
LEMMA AllButOne ==
    ASSUME IsFiniteSet(Threads), NEW t \in Threads, NEW l, bpc[t] # l,
           Cardinality(At(l)) + 1 >= Round!numThreads
    PROVE  At(l) = Threads \ {t} /\ Cardinality(At(l)) + 1 = Round!numThreads
<1>1. At(l) \subseteq Threads \ {t}
  BY DEF At
<1>2. IsFiniteSet(Threads \ {t}) /\ Cardinality(Threads \ {t}) = Round!numThreads - 1
  BY FS_RemoveElement, RoundCardinality DEF Round!numThreads
<1>3. Cardinality(At(l)) <= Round!numThreads - 1
  BY <1>1, <1>2, FS_Subset
<1>4. Cardinality(At(l)) = Cardinality(Threads \ {t})
  BY <1>2, <1>3, AtFinite
<1> QED
  BY <1>1, <1>2, <1>4, AtFinite, FS_Subset

(* A thread that comes to a place it was not at is one more there.         *)
LEMMA OneMore ==
    ASSUME IsFiniteSet(Threads), bpc \in [Threads -> {"out", "entering", "leaving"}],
           NEW t \in Threads, NEW l \in {"entering", "leaving"}, bpc[t] # l,
           bpc' = [bpc EXCEPT ![t] = l]
    PROVE  Cardinality(At(l)') = Cardinality(At(l)) + 1
<1>1. At(l)' = At(l) \cup {t} /\ t \notin At(l)
  BY DEF At
<1> QED
  BY <1>1, AtFinite, FS_AddElement

(* The second half of checkin, by a thread of a full round: it joins those *)
(* in the second wait, or it is the last, and the next round gathers while *)
(* the others are on their way out.                                        *)
LEMMA LeavePreserves ==
    ASSUME IsFiniteSet(Threads),
           bpc \in [Threads -> {"out", "entering", "leaving"}],
           returned \in [Threads -> Int], begun' \in [Threads -> Int],
           NEW t \in Threads, NEW r \in Nat, NEW leaving,
           bpc[t] # "leaving", leaving = Cardinality(At("leaving")),
           \A u \in Threads : /\ u # t => bpc[u] \in {"entering", "leaving"}
                              /\ begun'[u] = r + 1 /\ returned[u] = r,
           Round!leave(t, Round!numThreads, leaving)
    PROVE  RoundInv'
<1>1. leaving \in Nat /\ Round!numThreads \in Nat /\ numLeaving' = leaving + 1
  BY AtFinite DEF Round!leave
<1>2. Round!numThreads' = Round!numThreads
  BY DEF Round!numThreads
<1>3. CASE numLeaving' < Round!numThreads
  <2>1. numEntered' = Round!numThreads /\ bpc' = [bpc EXCEPT ![t] = "leaving"] /\ returned' = returned
    BY <1>1, <1>3 DEF Round!leave
  <2>2. numLeaving' = Cardinality(At("leaving")')
    BY <1>1, <2>1, OneMore
  <2>3. Leaving(r)'
    BY <1>2, <1>3, <2>1, <2>2 DEF Leaving
  <2> QED
    BY <1>1, <2>1, <2>3 DEF RoundInv, TheRound
<1>4. CASE numLeaving' >= Round!numThreads
  <2>1. numEntered' = 0 /\ Round!Return(t)
    BY <1>1, <1>4 DEF Round!leave
  <2>2. At("leaving") = Threads \ {t}
    BY <1>1, <1>4, AllButOne
  <2>3. bpc' = [u \in Threads |-> IF u = t THEN "out" ELSE "leaving"]
    BY <2>1, <2>2 DEF Round!Return, At
  <2>4. At("entering")' = {}
    BY <2>3 DEF At
  <2>5. Round!numThreads > 0
    BY <1>1, FS_EmptySet, RoundCardinality DEF Round!numThreads
  <2>6. Gathering(r + 1)'
    <3>1. numEntered' < Round!numThreads' /\ numEntered' = Cardinality(At("entering")')
      BY <1>1, <1>2, <2>1, <2>4, <2>5, FS_EmptySet
    <3>2. ASSUME NEW u \in Threads
          PROVE  /\ begun'[u] = r + 1
                 /\ \/ u = t /\ bpc'[u] = "out" /\ returned'[u] = r + 1
                    \/ bpc'[u] = "leaving" /\ returned'[u] = (r + 1) - 1
      BY <2>1, <2>3, <3>2 DEF Round!Return
    <3> QED
      BY <1>2, <1>4, <3>1, <3>2 DEF Gathering
  <2>7. returned' \in [Threads -> Int]
    BY <2>1 DEF Round!Return
  <2> QED
    BY <1>1, <2>1, <2>3, <2>6, <2>7 DEF RoundInv, TheRound
<1> QED
  BY <1>1, <1>3, <1>4

-----------------------------------------------------------------------------
(* The steps preserve the invariant.                                       *)
LEMMA CheckinPreserves ==
    ASSUME IsFiniteSet(Threads), RoundInv, NEW t \in Threads, Round!checkin(t)
    PROVE  RoundInv'
<1>1. PICK r \in Nat : Gathering(r) /\ begun[t] = r /\ returned[t] = r /\ bpc[t] = "out"
  BY DEF RoundInv, TheRound, Gathering, Leaving, Round!checkin
<1>2. begun' = [begun EXCEPT ![t] = r + 1] /\ begun' \in [Threads -> Int]
  BY <1>1 DEF Round!checkin, RoundInv
<1>3. Round!numThreads' = Round!numThreads /\ Round!numThreads \in Nat
  BY AtFinite DEF Round!numThreads
<1>4. CASE numEntered + 1 < Round!numThreads
  <2>1. /\ numEntered' = numEntered + 1 /\ bpc' = [bpc EXCEPT ![t] = "entering"]
        /\ UNCHANGED <<numLeaving, returned>>
    BY <1>3, <1>4 DEF Round!checkin, RoundInv
  <2>2. numEntered' = Cardinality(At("entering")')
    BY <1>1, <2>1, OneMore DEF RoundInv, Gathering
  <2>3. Gathering(r)'
    BY <1>1, <1>2, <1>3, <1>4, <2>1, <2>2 DEF Gathering, RoundInv
  <2> QED
    BY <1>2, <2>1, <2>3 DEF RoundInv, TheRound
<1>5. CASE numEntered + 1 >= Round!numThreads
  <2>1. Round!leave(t, numEntered + 1, 0)
    BY <1>3, <1>5 DEF Round!checkin, RoundInv
  <2>2. At("entering") = Threads \ {t} /\ numEntered + 1 = Round!numThreads
    BY <1>1, <1>5, AllButOne DEF Gathering
  <2>3. At("leaving") = {}
    BY <1>1, <2>2 DEF At
  <2>4. \A u \in Threads : /\ u # t => bpc[u] = "entering"
                           /\ begun'[u] = r + 1 /\ returned[u] = r
    BY <1>1, <1>2, <2>2 DEF Gathering, At, RoundInv
  <2>5. Cardinality(At("leaving")) = 0
    BY <2>3, FS_EmptySet
  <2> QED
    BY <1>1, <1>2, <2>1, <2>2, <2>4, <2>5, LeavePreserves DEF RoundInv
<1> QED
  BY <1>3, <1>4, <1>5 DEF RoundInv

LEMMA ResumeEnteringPreserves ==
    ASSUME IsFiniteSet(Threads), RoundInv, NEW t \in Threads, Round!resumeEntering(t)
    PROVE  RoundInv'
<1>1. CASE numEntered < Round!numThreads
  <2>1. UNCHANGED <<numEntered, numLeaving, bpc, returned, begun>>
    BY <1>1, AtFinite DEF Round!resumeEntering, RoundInv
  <2> QED
    BY ZenonT(60), <2>1 DEF RoundInv, TheRound, Gathering, Leaving, At, Round!numThreads
<1>2. CASE numEntered >= Round!numThreads
  <2>1. PICK r \in Nat : Leaving(r)
    BY <1>2, AtFinite DEF RoundInv, TheRound, Gathering
  <2>2. Round!leave(t, numEntered, numLeaving) /\ begun' = begun /\ bpc[t] = "entering"
    BY <1>2, AtFinite DEF Round!resumeEntering, RoundInv
  <2> QED
    BY <2>1, <2>2, LeavePreserves DEF RoundInv, Leaving
<1> QED
  BY <1>1, <1>2, AtFinite DEF RoundInv

LEMMA ResumeLeavingPreserves ==
    ASSUME IsFiniteSet(Threads), RoundInv, NEW t \in Threads, Round!resumeLeaving(t)
    PROVE  RoundInv'
<1>1. CASE numLeaving < Round!numThreads
  <2>1. UNCHANGED <<numEntered, numLeaving, bpc, returned, begun>>
    BY <1>1, AtFinite DEF Round!resumeLeaving, RoundInv
  <2> QED
    BY ZenonT(60), <2>1 DEF RoundInv, TheRound, Gathering, Leaving, At, Round!numThreads
<1>2. CASE numLeaving >= Round!numThreads
  <2>1. Round!Return(t) /\ UNCHANGED <<numEntered, numLeaving, begun>> /\ bpc[t] = "leaving"
    BY <1>2, AtFinite DEF Round!resumeLeaving, RoundInv
  <2>2. PICK r \in Nat : Gathering(r)
    BY <1>2, AtFinite DEF RoundInv, TheRound, Leaving
  <2>3. At("entering")' = At("entering") /\ Round!numThreads' = Round!numThreads
    BY <2>1 DEF Round!Return, At, Round!numThreads, RoundInv
  <2>4. Gathering(r)'
    BY <2>1, <2>2, <2>3 DEF Gathering, Round!Return, RoundInv
  <2> QED
    BY <2>1, <2>4 DEF RoundInv, TheRound, Round!Return
<1> QED
  BY <1>1, <1>2, AtFinite DEF RoundInv

(* The counters mean what the threads are doing, in every round.           *)
THEOREM RoundInvariant ==
    ASSUME IsFiniteSet(Threads), Threads # {}
    PROVE  Round!Spec => []RoundInv
<1>1. Round!Init => RoundInv
  <2> SUFFICES ASSUME Round!Init PROVE RoundInv
    OBVIOUS
  <2>1. At("entering") = {}
    BY DEF Round!Init, At
  <2>2. Round!numThreads \in Nat /\ Round!numThreads # 0
    BY AtFinite, FS_EmptySet, RoundCardinality DEF Round!numThreads
  <2>3. Gathering(0)
    BY <2>1, <2>2, FS_EmptySet DEF Round!Init, Gathering
  <2> QED
    BY <2>3 DEF Round!Init, RoundInv, TheRound
<1>2. RoundInv /\ [Round!Next]_Round!vars => RoundInv'
  <2> SUFFICES ASSUME RoundInv, [Round!Next]_Round!vars PROVE RoundInv'
    OBVIOUS
  <2>1. ASSUME NEW t \in Threads, Round!threadStep(t) PROVE RoundInv'
    BY <2>1, CheckinPreserves, ResumeEnteringPreserves, ResumeLeavingPreserves
       DEF Round!threadStep
  <2>2. CASE UNCHANGED <<numEntered, numLeaving, bpc, begun, returned>>
    BY ZenonT(60), <2>2 DEF RoundInv, TheRound, Gathering, Leaving, At, Round!numThreads
  <2> QED
    BY <2>1, <2>2 DEF Round!Next, Round!spuriousWakeup, Round!exited, Round!vars
<1> QED
  BY <1>1, <1>2, PTL DEF Round!Spec

(* No thread is let through a round before all have come to it             *)
(* (Barrier.cpp:31, 46).                                                   *)
THEOREM RoundsApart ==
    ASSUME IsFiniteSet(Threads), Threads # {}
    PROVE  Round!Spec => []Round!NobodyAhead
<1>1. RoundInv => Round!NobodyAhead
  BY DEF RoundInv, TheRound, Gathering, Leaving, Round!NobodyAhead
<1> QED
  BY <1>1, RoundInvariant, PTL

-----------------------------------------------------------------------------
LEMMA PoolCardinality == \A S : Pool!Cardinality(S) = Cardinality(S)
BY Zenon DEF Pool!Cardinality, Cardinality

PoolPlaces == {"out", "lock", "unlock", "post", "refuse", "wait", "pop", "process"}
Requests == Inserters \X Int

Posting == {"unlock", "post"}
Popping == {"lock", "pop"}

\* The actors of X whose place in f is one of A.
Among(X, f, A) == {x \in X : f[x] \in A}

(* The tokens that are with callers and with workers.                      *)
Posters == Cardinality({c \in Inserters : caller[c] \in Posting})
Poppers == Cardinality({w \in Removers : worker[w] \in Popping})

(* TokensMatch, with names for the numbers it adds up.                     *)
Tokens ==
    /\ Len(m_workqueue) <= m_max_requests
    /\ Len(m_workqueue) = m_queuestat + Posters + Poppers
    /\ appended = taken \o m_workqueue

(* Where each actor is, which values the variables have, and the tokens.   *)
PoolTypes ==
    /\ m_workqueue \in Seq(Requests) /\ m_queuestat \in Nat
    /\ caller \in [Inserters -> PoolPlaces] /\ worker \in [Removers -> PoolPlaces]
    /\ appended \in Seq(Requests) /\ taken \in Seq(Requests)
    /\ calls \in [Inserters -> Int]

PoolInv == PoolTypes /\ Tokens

-----------------------------------------------------------------------------
(* One actor that moves changes the number of those at some places by what *)
(* it leaves and what it comes to.                                         *)
LEMMA MoveCounts ==
    ASSUME NEW X, IsFiniteSet(X), NEW f, NEW g, NEW A, NEW x \in X,
           \A y \in X : y # x => g[y] = f[y]
    PROVE  /\ Cardinality(Among(X, f, A)) \in Nat
           /\ Cardinality(Among(X, g, A)) =
                 Cardinality(Among(X, f, A)) + (IF g[x] \in A THEN 1 ELSE 0)
                                             - (IF f[x] \in A THEN 1 ELSE 0)
<1> DEFINE rest == {y \in X \ {x} : f[y] \in A}
<1>1. IsFiniteSet(rest) /\ x \notin rest
  BY FS_Subset
<1>2. Among(X, f, A) = IF f[x] \in A THEN rest \cup {x} ELSE rest
  BY DEF Among
<1>3. Among(X, g, A) = IF g[x] \in A THEN rest \cup {x} ELSE rest
  BY DEF Among
<1>4. Cardinality(rest) \in Nat /\ Cardinality(rest \cup {x}) = Cardinality(rest) + 1
  BY <1>1, FS_AddElement, FS_CardinalityType
<1> HIDE DEF rest
<1>5. /\ Cardinality(Among(X, f, A)) = Cardinality(rest) + (IF f[x] \in A THEN 1 ELSE 0)
      /\ Cardinality(Among(X, g, A)) = Cardinality(rest) + (IF g[x] \in A THEN 1 ELSE 0)
  BY <1>2, <1>3, <1>4
<1> QED
  BY <1>4, <1>5

LEMMA PostersMove ==
    ASSUME IsFiniteSet(Inserters), PoolInv, NEW c \in Inserters, NEW to \in PoolPlaces,
           caller' = [caller EXCEPT ![c] = to]
    PROVE  Posters' = Posters + (IF to \in Posting THEN 1 ELSE 0)
                              - (IF caller[c] \in Posting THEN 1 ELSE 0)
<1>1. /\ Posters = Cardinality(Among(Inserters, caller, Posting))
      /\ Posters' = Cardinality(Among(Inserters, caller', Posting))
  BY DEF Posters, Among
<1>2. caller'[c] = to /\ \A d \in Inserters : d # c => caller'[d] = caller[d]
  BY DEF PoolInv, PoolTypes
<1>3. Cardinality(Among(Inserters, caller', Posting)) =
          Cardinality(Among(Inserters, caller, Posting)) + (IF caller'[c] \in Posting THEN 1 ELSE 0)
                                                 - (IF caller[c] \in Posting THEN 1 ELSE 0)
  <2>1. IsFiniteSet(Inserters) /\ c \in Inserters
    OBVIOUS
  <2> QED
    BY ONLY ZenonT(60), <1>2, <2>1, MoveCounts
<1> QED
  BY <1>1, <1>2, <1>3

LEMMA PoppersMove ==
    ASSUME IsFiniteSet(Removers), PoolInv, NEW w \in Removers, NEW to \in PoolPlaces,
           worker' = [worker EXCEPT ![w] = to]
    PROVE  Poppers' = Poppers + (IF to \in Popping THEN 1 ELSE 0)
                              - (IF worker[w] \in Popping THEN 1 ELSE 0)
<1>1. /\ Poppers = Cardinality(Among(Removers, worker, Popping))
      /\ Poppers' = Cardinality(Among(Removers, worker', Popping))
  BY DEF Poppers, Among
<1>2. worker'[w] = to /\ \A v \in Removers : v # w => worker'[v] = worker[v]
  BY DEF PoolInv, PoolTypes
<1>3. Cardinality(Among(Removers, worker', Popping)) =
          Cardinality(Among(Removers, worker, Popping)) + (IF worker'[w] \in Popping THEN 1 ELSE 0)
                                                 - (IF worker[w] \in Popping THEN 1 ELSE 0)
  <2>1. IsFiniteSet(Removers) /\ w \in Removers
    OBVIOUS
  <2> QED
    BY ONLY ZenonT(60), <1>2, <2>1, MoveCounts
<1> QED
  BY <1>1, <1>2, <1>3

LEMMA Numbers ==
    ASSUME IsFiniteSet(Inserters), IsFiniteSet(Removers), PoolInv
    PROVE  Posters \in Nat /\ Poppers \in Nat /\ Len(m_workqueue) \in Nat
<1>1. IsFiniteSet({c \in Inserters : caller[c] \in Posting})
  BY FS_Subset
<1>2. IsFiniteSet({w \in Removers : worker[w] \in Popping})
  BY FS_Subset
<1> QED
  BY <1>1, <1>2, FS_CardinalityType DEF Posters, Poppers, PoolInv, PoolTypes

LEMMA CallerPreserves ==
    ASSUME IsFiniteSet(Inserters), IsFiniteSet(Removers), m_max_requests \in Nat,
           PoolInv, NEW c \in Inserters, Pool!Caller(c)
    PROVE  PoolInv'
<1>1. ASSUME NEW to \in PoolPlaces, caller' = [caller EXCEPT ![c] = to]
      PROVE  Posters' = Posters + (IF to \in Posting THEN 1 ELSE 0)
                                - (IF caller[c] \in Posting THEN 1 ELSE 0)
  BY <1>1, PostersMove
<1>2. Poppers' = Poppers /\ worker' = worker /\ taken' = taken
  BY DEF Pool!Caller, Poppers
<1>3. Posters \in Nat /\ Poppers \in Nat /\ Len(m_workqueue) \in Nat
  BY Numbers
<1> USE DEF Pool!goto
<1>4. CASE Pool!append(c)
  <2>1. Posters' = Posters
    BY <1>1, <1>3, <1>4 DEF Pool!append, PoolPlaces, Posting
  <2> QED
    BY <1>2, <1>4, <2>1 DEF Tokens, Pool!append, PoolInv, PoolTypes, PoolPlaces, Pool!Caller
<1>5. CASE Pool!push(c)
  <2>1. CASE Len(m_workqueue) >= m_max_requests
    <3>1. Posters' = Posters
      BY <1>1, <1>3, <1>5, <2>1 DEF Pool!push, PoolPlaces, Posting
    <3> QED
      BY <1>2, <1>5, <2>1, <3>1 DEF Tokens, Pool!push, PoolInv, PoolTypes, PoolPlaces, Pool!Caller
  <2>2. CASE ~(Len(m_workqueue) >= m_max_requests)
    <3> DEFINE q == <<c, calls[c]>>
    <3>1. Posters' = Posters + 1
      BY <1>1, <1>3, <1>5, <2>2 DEF Pool!push, PoolPlaces, Posting
    <3>2. /\ m_workqueue' = Append(m_workqueue, q) /\ appended' = Append(appended, q)
          /\ q \in Requests /\ m_queuestat' = m_queuestat
      BY <1>5, <2>2 DEF Pool!push, PoolInv, PoolTypes, Requests
    <3>3. Append(taken \o m_workqueue, q) = taken \o Append(m_workqueue, q)
      <4>1. /\ taken \in Seq(Requests) /\ m_workqueue \in Seq(Requests)
            /\ taken \o m_workqueue \in Seq(Requests) /\ <<q>> \in Seq(Requests)
        BY <3>2, ConcatProperties DEF PoolInv, PoolTypes
      <4>2. /\ Append(taken \o m_workqueue, q) = (taken \o m_workqueue) \o <<q>>
            /\ Append(m_workqueue, q) = m_workqueue \o <<q>>
        BY <3>2, <4>1, AppendIsConcat
      <4>3. (taken \o m_workqueue) \o <<q>> = taken \o (m_workqueue \o <<q>>)
        BY <4>1, ConcatAssociative
      <4> QED
        BY <4>2, <4>3
    <3>4. Len(m_workqueue') = Len(m_workqueue) + 1
      BY <3>2 DEF PoolInv, PoolTypes
    <3>5. Tokens'
      <4>1. Len(m_workqueue)' <= m_max_requests
        BY <1>3, <2>2, <3>4
      <4>2. Len(m_workqueue)' = m_queuestat' + Posters' + Poppers'
        BY <1>2, <1>3, <3>1, <3>2, <3>4 DEF Tokens, PoolInv, PoolTypes
      <4>3. appended' = taken' \o m_workqueue'
        BY <1>2, <3>2, <3>3 DEF Tokens, PoolInv
      <4> QED
        BY <4>1, <4>2, <4>3 DEF Tokens
    <3>6. PoolTypes'
      <4>1. m_workqueue' \in Seq(Requests) /\ appended' \in Seq(Requests)
        BY <3>2, AppendProperties DEF PoolInv, PoolTypes
      <4>2. caller' \in [Inserters -> PoolPlaces] /\ calls' = calls
        BY <1>5, <2>2 DEF Pool!push, PoolInv, PoolTypes, PoolPlaces
      <4> QED
        BY <1>2, <3>2, <4>1, <4>2 DEF PoolInv, PoolTypes
    <3> QED
      BY <3>5, <3>6 DEF PoolInv
  <2> QED
    BY <2>1, <2>2
<1>6. CASE Pool!pushed(c)
  <2>1. Posters' = Posters
    BY <1>1, <1>3, <1>6 DEF Pool!pushed, PoolPlaces, Posting
  <2> QED
    <3>1. Tokens'
      BY <1>2, <1>6, <2>1 DEF Tokens, Pool!pushed, PoolInv
    <3>2. calls' \in [Inserters -> Int]
      BY <1>6 DEF Pool!pushed, Pool!Returns, PoolInv, PoolTypes
    <3>3. caller' \in [Inserters -> PoolPlaces]
      BY <1>6 DEF Pool!pushed, PoolInv, PoolTypes, PoolPlaces
    <3> QED
      BY <1>2, <1>6, <3>1, <3>2, <3>3 DEF Pool!pushed, PoolInv, PoolTypes
<1>7. CASE Pool!postRequest(c)
  <2>1. Posters' = Posters - 1 /\ m_queuestat' = m_queuestat + 1
    BY <1>1, <1>3, <1>7 DEF Pool!postRequest, Pool!post, PoolPlaces, Posting
  <2>2. UNCHANGED <<m_workqueue, appended>>
    BY <1>7 DEF Pool!postRequest
  <2>4. Tokens'
    BY <1>1, <1>2, <1>3, <2>1, <2>2 DEF Tokens, PoolInv, PoolTypes
  <2> QED
    BY <1>2, <1>7, <2>1, <2>2, <2>4 DEF Pool!postRequest, Pool!Returns, PoolInv, PoolTypes, PoolPlaces
<1> QED
  BY <1>4, <1>5, <1>6, <1>7 DEF Pool!Caller

(* A worker that has taken a token finds a request (line 88).              *)
LEMMA WorkerFindsOne ==
    ASSUME IsFiniteSet(Inserters), IsFiniteSet(Removers), PoolInv,
           NEW w \in Removers, worker[w] \in Popping
    PROVE  m_workqueue # <<>>
<1>1. w \in {u \in Removers : worker[u] \in Popping}
  OBVIOUS
<1>2. IsFiniteSet({u \in Removers : worker[u] \in Popping})
      /\ IsFiniteSet({c \in Inserters : caller[c] \in Posting})
  BY FS_Subset
<1>3. Poppers \in Nat /\ Poppers # 0 /\ Posters \in Nat
  BY <1>1, <1>2, FS_CardinalityType, FS_EmptySet DEF Poppers, Posters
<1> QED
  BY <1>3 DEF Tokens, PoolInv, PoolTypes

LEMMA WorkerPreserves ==
    ASSUME IsFiniteSet(Inserters), IsFiniteSet(Removers), m_max_requests \in Nat,
           PoolInv, NEW w \in Removers, Pool!PoolWorker(w)
    PROVE  PoolInv'
<1>1. ASSUME NEW to \in PoolPlaces, worker' = [worker EXCEPT ![w] = to]
      PROVE  Poppers' = Poppers + (IF to \in Popping THEN 1 ELSE 0)
                                - (IF worker[w] \in Popping THEN 1 ELSE 0)
  BY <1>1, PoppersMove
<1>2. Posters' = Posters /\ UNCHANGED <<caller, appended, calls>>
  BY DEF Pool!PoolWorker, Posters
<1>3. Posters \in Nat /\ Poppers \in Nat /\ Len(m_workqueue) \in Nat
  BY Numbers
<1> USE DEF Pool!turns
<1>4. CASE Pool!waitRequest(w)
  <2>1. Poppers' = Poppers + 1 /\ m_queuestat' = m_queuestat - 1 /\ m_queuestat > 0
    BY <1>1, <1>3, <1>4 DEF Pool!waitRequest, Pool!wait, PoolPlaces, Popping
  <2>2. UNCHANGED <<m_workqueue, taken>>
    BY <1>4 DEF Pool!waitRequest
  <2>3. Tokens'
    BY <1>2, <1>3, <2>1, <2>2 DEF Tokens, PoolInv, PoolTypes
  <2> QED
    BY <1>2, <1>4, <2>1, <2>2, <2>3 DEF Pool!waitRequest, PoolInv, PoolTypes, PoolPlaces
<1>5. CASE Pool!lockQueue(w) \/ Pool!processed(w)
  <2>1. Poppers' = Poppers
    BY <1>1, <1>3, <1>5 DEF Pool!lockQueue, Pool!processed, PoolPlaces, Popping
  <2> QED
    BY <1>2, <1>5, <2>1 DEF Tokens, Pool!lockQueue, Pool!processed, PoolInv, PoolTypes, PoolPlaces
<1>6. CASE Pool!run(w)
  <2>1. m_workqueue # <<>>
    <3>1. worker[w] = "pop"
      BY <1>6 DEF Pool!run
    <3> QED
      BY <3>1, WorkerFindsOne DEF Popping
  <2>2. /\ worker[w] = "pop" /\ worker' = [worker EXCEPT ![w] = "process"]
        /\ m_workqueue' = Tail(m_workqueue)
        /\ taken' = Append(taken, Head(m_workqueue))
        /\ m_queuestat' = m_queuestat
    BY <1>6, <2>1 DEF Pool!run
  <2>3. Poppers' = Poppers - 1
    BY <1>1, <1>3, <2>2 DEF PoolPlaces, Popping
  <2>4. Len(m_workqueue') = Len(m_workqueue) - 1 /\ m_workqueue' \in Seq(Requests)
        /\ Head(m_workqueue) \in Requests
    BY <2>1, <2>2, HeadTailProperties DEF PoolInv, PoolTypes
  <2>5. taken' \o m_workqueue' = taken \o m_workqueue
    <3>1. m_workqueue = <<Head(m_workqueue)>> \o Tail(m_workqueue)
      BY <2>1, ConcatProperties, HeadTailProperties DEF PoolInv, PoolTypes
    <3>2. taken' = taken \o <<Head(m_workqueue)>>
      BY <2>2, <2>4, AppendIsConcat DEF PoolInv, PoolTypes
    <3> QED
      BY SMTT(60), <2>2, <2>4, <3>1, <3>2, ConcatAssociative DEF PoolInv, PoolTypes
  <2>6. Tokens'
    BY SMTT(60), <1>1, <1>2, <1>3, <2>2, <2>3, <2>4, <2>5 DEF Tokens, PoolInv, PoolTypes
  <2>7. taken' \in Seq(Requests)
    BY <2>2, <2>4 DEF PoolInv, PoolTypes
  <2> QED
    BY <1>2, <2>2, <2>4, <2>6, <2>7 DEF PoolInv, PoolTypes, PoolPlaces
<1> QED
  BY <1>4, <1>5, <1>6 DEF Pool!PoolWorker

(* Every request has one token, and none is lost or overtaken              *)
(* (3_threadpool.h:69, 86).                                                *)
THEOREM TokensAlwaysMatch ==
    ASSUME IsFiniteSet(Inserters), IsFiniteSet(Removers), m_max_requests \in Nat,
           Appends \in Int
    PROVE  Pool!Spec => []Pool!TokensMatch
<1>1. Pool!Init => PoolInv
  <2> SUFFICES ASSUME Pool!Init PROVE PoolInv
    OBVIOUS
  <2>1. {c \in Inserters : caller[c] \in Posting} = {} /\ {u \in Removers : worker[u] \in Popping} = {}
    BY DEF Pool!Init, Posting, Popping
  <2>2. Posters = 0 /\ Poppers = 0
    BY <2>1, FS_EmptySet DEF Posters, Poppers
  <2>3. Tokens
    BY <2>2 DEF Tokens, Pool!Init
  <2> QED
    BY <2>3 DEF Pool!Init, PoolInv, PoolTypes, PoolPlaces
<1>2. PoolInv /\ [Pool!Next]_Pool!vars => PoolInv'
  <2> SUFFICES ASSUME PoolInv, [Pool!Next]_Pool!vars PROVE PoolInv'
    OBVIOUS
  <2>1. CASE UNCHANGED Pool!vars
    BY <2>1 DEF Pool!vars, PoolInv, PoolTypes, Tokens, Posters, Poppers
  <2> QED
    BY <2>1, CallerPreserves, WorkerPreserves DEF Pool!Next
<1>3. PoolInv => Pool!TokensMatch
  BY PoolCardinality DEF PoolInv, PoolTypes, Tokens, Posters, Poppers, Posting, Popping, Pool!TokensMatch
<1> QED
  BY <1>1, <1>2, <1>3, PTL DEF Pool!Spec

-----------------------------------------------------------------------------
(* The small programs.  Two threads, or One of them; nobody is named like  *)
(* a value of the mutex.                                                   *)
Two == CHOOSE t \in Inserters : t # Small!One
Done(t) == loops - turnsLeft[t]

TwoThreads ==
    /\ IsFiniteSet(Inserters) /\ Cardinality(Inserters) = 2
    /\ Inserters \cap {"free", "destroyed", "main"} = {}

(* Where main is in each program.  Only the mutex of the program that      *)
(* forks is destroyed, and main joins the threads before it ends.          *)
MainIsAt ==
    /\ prog \in {"racy", "mutex"} => mpc \in {"create", "join", "exited"}
    /\ prog \in {"strerror", "static"} => mpc \in {"strerror", "create", "join", "exited"}
    /\ prog = "count" => mpc \in {"create", "lock", "wait", "exited"}
    /\ prog \in {"cancel", "cleanup"} => mpc \in {"create", "sleep", "join", "exited"}
    /\ prog = "signal" => mpc \in {"create", "sleep", "signal", "join", "exited"}
    /\ prog = "fork" => mpc \in {"create", "sleep", "fork", "infork", "waitChild",
                                 "joinFirst", "join", "exited"}
    /\ prog = "sync" => mpc \in {"create", "parent", "suspend", "exited"}
    /\ mpc = "exited" /\ prog \notin {"count", "sync"} => Small!Ended
    /\ prog \notin {"racy", "mutex", "count"} =>
          \A t \in Inserters : t # Small!One => tpc[t] = "none"
    /\ mutex = "destroyed" => prog = "fork"

SmallTypes ==
    /\ prog \in {"racy", "mutex", "count", "cancel", "cleanup", "signal", "fork", "strerror",
                 "static", "sync"}
    /\ inTime \in BOOLEAN
    /\ glob \in Int
    /\ loc \in [Inserters -> Int] /\ turnsLeft \in [Inserters -> Int]
    /\ tpc \in [Inserters -> {"none", "start", "store", "load", "unlock", "sleep", "printf",
                              "test", "toWait", "wait", "free", "end"}]
    /\ errors \in [{"main", "thread"} -> {"none", "EINVAL", "EPERM", "freed"}]

(* Without the mutex: a thread that is about to store has seen at most all *)
(* that was stored, and at least its own last store or one after it.       *)
Racy ==
    /\ \A t \in Inserters :
          /\ tpc[t] \in {"none", "start", "store", "end"}
          /\ turnsLeft[t] >= 0 /\ turnsLeft[t] <= loops
          /\ tpc[t] # "end" => turnsLeft[t] >= 1
          /\ tpc[t] = "end" => turnsLeft[t] = 0
          /\ Done(t) >= 1 => glob >= 1
          /\ tpc[t] = "store" => /\ loc[t] <= Done(Small!One) + Done(Two) + 1
                                 /\ loc[t] >= 1
                                 /\ Done(t) >= 1 => loc[t] >= 2
    /\ glob >= 0
    /\ glob <= Done(Small!One) + Done(Two)
    /\ tpc[Small!One] = "end" /\ tpc[Two] = "end" => glob >= 2

(* With it, glob is the number of stores.                                  *)
Mutexed ==
    /\ \A t \in Inserters :
          /\ tpc[t] \in {"none", "start", "load", "store", "unlock", "end"}
          /\ tpc[t] \in {"load", "store", "unlock"} => mutex = t
          /\ tpc[t] = "store" => loc[t] = glob + 1
          /\ tpc[t] = "end" => turnsLeft[t] = 0
    /\ glob = Done(Small!One) + Done(Two)

Counted ==
    /\ \A t \in Inserters :
          /\ tpc[t] \in {"none", "start", "unlock", "end"}
          /\ tpc[t] = "unlock" => mutex = t
    /\ glob = (IF tpc[Small!One] \in {"unlock", "end"} THEN 1 ELSE 0)
              + (IF tpc[Two] \in {"unlock", "end"} THEN 1 ELSE 0)
    /\ mpc = "exited" => glob = 2

(* The thread has the mutex where it looks at glob, and its block from     *)
(* there on until the handler frees it; in time, it is past the printf     *)
(* when it is canceled.                                                    *)
Cleaned ==
    /\ tpc[Small!One] \in {"none", "start", "printf", "test", "toWait", "wait", "end"}
    /\ tpc[Small!One] \in {"test", "toWait"} => mutex = Small!One
    /\ tpc[Small!One] \notin {"test", "toWait"} => mutex = "free"
    /\ tpc[Small!One] \in {"printf", "test", "toWait", "wait"} => memory = "live"
    /\ inTime /\ canceled => tpc[Small!One] \in {"test", "toWait", "wait", "end"}
    /\ inTime /\ tpc[Small!One] = "end" => memory = "freed"

(* In time, main gets the mutex before fork only when the thread has ended.*)
Forked ==
    /\ tpc[Small!One] \in {"none", "start", "sleep", "end"}
    /\ mutex = "destroyed" => mpc \in {"join", "exited"}
    /\ inTime =>
        /\ tpc[Small!One] = "sleep" => mutex = Small!One
        /\ mpc \notin {"create", "sleep"} => tpc[Small!One] = "end"

Errors ==
    /\ mpc # "strerror" => errors["main"] = "EINVAL"
    /\ tpc[Small!One] = "end" => errors["thread"] = "freed"

SmallInv ==
    /\ SmallTypes /\ MainIsAt
    /\ prog = "racy" => Racy
    /\ prog = "mutex" => Mutexed
    /\ prog = "count" => Counted
    /\ prog \in {"cleanup", "signal"} => Cleaned
    /\ prog = "fork" => Forked
    /\ prog = "strerror" => Errors

-----------------------------------------------------------------------------
LEMMA SmallCardinality == \A S : Small!Cardinality(S) = Cardinality(S)
BY Zenon DEF Small!Cardinality, Cardinality

(* There are the one and the other.                                        *)
LEMMA OneAndTwo ==
    ASSUME TwoThreads
    PROVE  /\ Small!One \in Inserters /\ Two \in Inserters /\ Small!One # Two
           /\ Inserters = {Small!One, Two}
           /\ Small!One \notin {"free", "destroyed", "main"}
           /\ Two \notin {"free", "destroyed", "main"}
<1>1. Small!One \in Inserters
  <2>1. Inserters # {}
    BY FS_EmptySet DEF TwoThreads
  <2> QED
    BY <2>1, Zenon DEF Small!One
<1>2. IsFiniteSet(Inserters \ {Small!One}) /\ Cardinality(Inserters \ {Small!One}) = 1
  BY <1>1, FS_RemoveElement DEF TwoThreads
<1>3. PICK u : Inserters \ {Small!One} = {u}
  BY <1>2, FS_Singleton
<1>4. Two \in Inserters /\ Two # Small!One
  BY <1>3, Zenon DEF Two
<1>5. Two = u
  BY <1>3, <1>4
<1> QED
  BY <1>1, <1>3, <1>4, <1>5 DEF TwoThreads

(* The values keep their types, and main its places.                       *)
LEMMA TypesKeep ==
    ASSUME TwoThreads, SmallTypes, Small!Next
    PROVE  SmallTypes' /\ UNCHANGED <<prog, inTime>>
<1> USE OneAndTwo DEF SmallTypes, Small!Goto, Small!data, Small!cond, Small!others,
        Small!forked
<1>1. CASE Small!main
  <2>1. CASE Small!create \/ Small!join \/ Small!main_count \/ Small!main_cancel
             \/ Small!main_cond \/ Small!main_fork
    <3>1. UNCHANGED <<prog, inTime, loc, turnsLeft>>
      BY <1>1, <2>1 DEF Small!main, Small!create, Small!join, Small!main_count,
         Small!main_cancel, Small!main_cond, Small!main_fork, Small!main_strerror,
         Small!main_sync
    <3>2. glob' \in Int
      BY <2>1 DEF Small!create, Small!join, Small!main_count,
         Small!main_cancel, Small!main_cond, Small!main_fork
    <3>3. tpc' \in [Inserters -> {"none", "start", "store", "load", "unlock", "sleep",
                                  "printf", "test", "toWait", "wait", "free", "end"}]
      BY <2>1 DEF Small!create, Small!join, Small!main_count,
         Small!main_cancel, Small!main_cond, Small!main_fork, Small!Threads
    <3>4. errors' \in [{"main", "thread"} -> {"none", "EINVAL", "EPERM", "freed"}]
      BY <1>1 DEF Small!main, Small!main_strerror, Small!main_sync, Small!strerror
    <3> QED
      BY <3>1, <3>2, <3>3, <3>4
  <2>2. CASE Small!main_strerror \/ Small!main_sync
    BY <1>1, <2>2 DEF Small!main, Small!main_strerror, Small!main_sync, Small!strerror,
       Small!buffer
  <2> QED
    BY <1>1, <2>1, <2>2 DEF Small!main
<1>2. CASE Small!childStep \/ Small!spuriousWakeup
  BY <1>2 DEF Small!childStep, Small!spuriousWakeup
<1>3. ASSUME NEW t \in Inserters, Small!Thread(t)
      PROVE  SmallTypes' /\ UNCHANGED <<prog, inTime>>
  <2>1. CASE /\ \/ Small!racyThread(t) \/ Small!mutexThread(t) \/ Small!countThread(t)
                \/ Small!cancelThread(t) \/ Small!condThread(t) \/ Small!another(t)
             /\ UNCHANGED Small!others
    <3>1. UNCHANGED <<prog, inTime, errors>>
      BY <1>3, <2>1 DEF Small!Thread
    <3>2. glob' \in Int /\ loc' \in [Inserters -> Int] /\ turnsLeft' \in [Inserters -> Int]
      BY <2>1 DEF Small!racyThread, Small!mutexThread, Small!countThread,
         Small!cancelThread, Small!condThread, Small!another, Small!load, Small!store
    <3>3. tpc' \in [Inserters -> {"none", "start", "store", "load", "unlock", "sleep",
                                  "printf", "test", "toWait", "wait", "free", "end"}]
      BY <2>1 DEF Small!racyThread, Small!mutexThread, Small!countThread, Small!endOfTurn,
         Small!cancelThread, Small!condThread, Small!another, Small!cleanupHandler
    <3> QED
      BY <3>1, <3>2, <3>3
  <2>2. CASE (Small!errorThread(t) \/ Small!signalChild(t))
             /\ UNCHANGED <<mutex, Small!data, Small!cond>>
    BY <1>3, <2>2 DEF Small!Thread, Small!errorThread, Small!signalChild, Small!strerror,
       Small!buffer
  <2> QED
    BY <1>3, <2>1, <2>2 DEF Small!Thread
<1> QED
  BY <1>1, <1>2, <1>3 DEF Small!Next

(* No thread goes on from its end, and threads that a program has not stay *)
(* where they are.                                                         *)
LEMMA ThreadsEnd ==
    ASSUME TwoThreads, SmallTypes, NEW t \in Inserters, Small!Thread(t)
    PROVE  /\ tpc[t] # "end" /\ tpc[t] # "none" /\ mpc' = mpc
           /\ \A u \in Inserters : u # t => tpc'[u] = tpc[u]
           /\ mutex' = "destroyed" => mutex = "destroyed"
<1> USE OneAndTwo DEF SmallTypes, Small!Goto, Small!data, Small!cond, Small!others,
        Small!forked, Small!lock, Small!unlock
<1>1. t # "destroyed"
  OBVIOUS
<1>2. CASE Small!racyThread(t)
  BY <1>2 DEF Small!racyThread, Small!endOfTurn, Small!Thread
<1>3. CASE Small!mutexThread(t)
  BY <1>1, <1>3 DEF Small!mutexThread, Small!Thread
<1>4. CASE Small!countThread(t)
  BY <1>1, <1>4 DEF Small!countThread, Small!Thread
<1>5. CASE Small!cancelThread(t)
  BY <1>5 DEF Small!cancelThread, Small!Thread
<1>6. CASE Small!condThread(t)
  BY <1>1, <1>6 DEF Small!condThread, Small!cleanupHandler, Small!Thread
<1>7. CASE Small!another(t)
  BY <1>1, <1>7 DEF Small!another, Small!Thread
<1>8. CASE (Small!errorThread(t) \/ Small!signalChild(t)) /\ UNCHANGED mutex
  BY <1>8 DEF Small!errorThread, Small!signalChild, Small!Thread
<1> QED
  BY <1>2, <1>3, <1>4, <1>5, <1>6, <1>7, <1>8 DEF Small!Thread

LEMMA MainKeeps ==
    ASSUME TwoThreads, SmallTypes, MainIsAt, Small!Next
    PROVE  MainIsAt'
<1>0. UNCHANGED prog /\ UNCHANGED Small!Threads
  BY TypesKeep DEF Small!Threads
<1>1. ASSUME NEW t \in Inserters, Small!Thread(t)
      PROVE  MainIsAt'
  BY <1>0, <1>1, ThreadsEnd, OneAndTwo DEF MainIsAt, Small!Ended, Small!Threads
<1>2. CASE Small!childStep \/ Small!spuriousWakeup
  BY <1>0, <1>2 DEF Small!childStep, Small!spuriousWakeup, Small!data, Small!cond,
     Small!others, Small!forked, MainIsAt, Small!Ended
<1>3. CASE Small!create
  <2>1. mpc = "create" /\ UNCHANGED mutex
    BY <1>3 DEF Small!create
  <2>2. PICK t \in Small!Threads : tpc[t] = "none" /\ tpc' = [tpc EXCEPT ![t] = "start"]
    BY <1>3 DEF Small!create, Small!Goto
  <2>3. /\ prog \in {"racy", "mutex", "strerror", "static"} => mpc' \in {"create", "join"}
        /\ prog = "count" => mpc' \in {"create", "lock"}
        /\ prog = "sync" => mpc' \in {"create", "parent"}
        /\ prog \in {"cancel", "cleanup", "signal", "fork"} => mpc' \in {"create", "sleep"}
    BY <1>3, <2>1, OneAndTwo DEF Small!create, SmallTypes
  <2>4. t \in Inserters /\ (prog \notin {"racy", "mutex", "count"} => t = Small!One)
    BY <2>2, OneAndTwo DEF Small!Threads
  <2>5. prog \notin {"racy", "mutex", "count"} =>
            \A u \in Inserters : u # Small!One => tpc'[u] = "none"
    BY <2>2, <2>4 DEF MainIsAt, SmallTypes
  <2>6. mpc' # "exited"
    BY <2>3 DEF SmallTypes
  <2> QED
    BY <1>0, <2>1, <2>3, <2>5, <2>6 DEF MainIsAt
<1>4. CASE Small!join
  BY <1>0, <1>4 DEF Small!join, Small!next, Small!Ended, MainIsAt, SmallTypes
<1>5. CASE Small!main_count
  BY <1>0, <1>5 DEF Small!main_count, MainIsAt, SmallTypes, Small!Ended
<1>6. CASE Small!main_cancel
  BY <1>0, <1>6 DEF Small!main_cancel, Small!next, MainIsAt, SmallTypes, Small!Ended
<1>7. CASE Small!main_cond
  BY <1>0, <1>7 DEF Small!main_cond, Small!next, MainIsAt, SmallTypes, Small!Ended
<1>8. CASE Small!main_fork
  BY <1>0, <1>8 DEF Small!main_fork, Small!next, MainIsAt, SmallTypes, Small!Ended,
     Small!prepare, Small!infork, Small!lock, Small!unlock, Small!data, Small!cond, Small!Main
<1>9. CASE Small!main_strerror \/ Small!main_sync
  BY <1>0, <1>9 DEF Small!main_strerror, Small!main_sync, Small!next, MainIsAt, SmallTypes,
     Small!Ended
<1> QED
  BY <1>1, <1>2, <1>3, <1>4, <1>5, <1>6, <1>7, <1>8, <1>9 DEF Small!Next, Small!main

(* What main does in a program that only joins the threads.                *)
LEMMA RacyKeeps ==
    ASSUME TwoThreads, loops \in Nat, loops >= 2, SmallTypes, MainIsAt, Small!Next,
           prog = "racy", Racy
    PROVE  Racy'
<1> USE OneAndTwo DEF Small!Goto
<1>0. /\ \A t \in Inserters : turnsLeft[t] \in Int /\ loc[t] \in Int
      /\ glob \in Int
  BY DEF SmallTypes
<1>1. ASSUME NEW t \in Inserters, Small!racyThread(t)
      PROVE  Racy'
  <2>1. CASE tpc[t] = "start" /\ Small!load(t) /\ Small!Goto(t, "store")
    <3>1. /\ tpc'[t] = "store" /\ \A u \in Inserters : u # t => tpc'[u] = tpc[u]
          /\ loc'[t] = glob + 1 /\ \A u \in Inserters : u # t => loc'[u] = loc[u]
          /\ UNCHANGED <<glob, turnsLeft>>
      BY <2>1 DEF Small!load, SmallTypes
    <3> QED
      BY <1>0, <2>1, <3>1 DEF Racy, Done
  <2>2. CASE tpc[t] = "store" /\ Small!store(t) /\ Small!endOfTurn(t)
    <3>1. /\ tpc'[t] = IF turnsLeft[t] = 1 THEN "end" ELSE "start"
          /\ \A u \in Inserters : u # t => tpc'[u] = tpc[u]
          /\ turnsLeft'[t] = turnsLeft[t] - 1
          /\ \A u \in Inserters : u # t => turnsLeft'[u] = turnsLeft[u]
          /\ glob' = loc[t] /\ loc' = loc
      BY <2>2 DEF Small!store, Small!endOfTurn, SmallTypes
    <3>2. Done(Small!One)' + Done(Two)' = Done(Small!One) + Done(Two) + 1
      <4>1. CASE t = Small!One
        BY <1>0, <3>1, <4>1 DEF Done
      <4>2. CASE t = Two
        BY <1>0, <3>1, <4>2 DEF Done
      <4> QED
        BY <4>1, <4>2
    <3>3. glob' >= 1 /\ glob' <= Done(Small!One)' + Done(Two)'
      BY <1>0, <2>2, <3>1, <3>2 DEF Racy
    <3>4. tpc'[t] = "end" => glob' >= 2
      BY <1>0, <2>2, <3>1 DEF Racy, Done
    <3>5. ASSUME NEW u \in Inserters
          PROVE  /\ tpc'[u] \in {"none", "start", "store", "end"}
                 /\ turnsLeft'[u] >= 0 /\ turnsLeft'[u] <= loops
                 /\ tpc'[u] # "end" => turnsLeft'[u] >= 1
                 /\ tpc'[u] = "end" => turnsLeft'[u] = 0
                 /\ tpc'[u] = "store" => /\ loc'[u] <= Done(Small!One)' + Done(Two)' + 1
                                         /\ loc'[u] >= 1
                                         /\ Done(u)' >= 1 => loc'[u] >= 2
      <4>1. CASE u = t
        BY <1>0, <2>2, <3>1, <4>1 DEF Racy
      <4>2. CASE u # t
        <5>1. /\ tpc'[u] = tpc[u] /\ turnsLeft'[u] = turnsLeft[u] /\ loc'[u] = loc[u]
              /\ Done(u)' = Done(u)
          BY <3>1, <4>2 DEF Done
        <5>2. Done(Small!One) \in Int /\ Done(Two) \in Int
          BY <1>0 DEF Done
        <5> QED
          BY <1>0, <3>2, <5>1, <5>2 DEF Racy
      <4> QED
        BY <4>1, <4>2
    <3>6. tpc'[Small!One] = "end" /\ tpc'[Two] = "end" => glob' >= 2
      BY <3>1, <3>4, <2>2
    <3> QED
      BY <1>0, <3>1, <3>3, <3>5, <3>6 DEF Racy
  <2> QED
    BY <1>1, <2>1, <2>2 DEF Small!racyThread
<1>2. CASE Small!create
  <2>1. PICK t \in Inserters : tpc[t] = "none" /\ tpc' = [tpc EXCEPT ![t] = "start"]
    BY <1>2 DEF Small!create, Small!Threads
  <2>2. UNCHANGED <<glob, loc, turnsLeft>>
    BY <1>2 DEF Small!create, Small!data
  <2>3. tpc'[t] = "start" /\ \A u \in Inserters : u # t => tpc'[u] = tpc[u]
    BY <2>1 DEF SmallTypes
  <2> QED
    BY <2>1, <2>2, <2>3 DEF Racy, Done
<1>3. CASE UNCHANGED <<glob, loc, turnsLeft, tpc>>
  BY <1>3 DEF Racy, Done
<1>4. \/ Small!create \/ \E t \in Inserters : Small!racyThread(t)
      \/ UNCHANGED <<glob, loc, turnsLeft, tpc>>
  <2>1. ASSUME NEW t \in Inserters, Small!Thread(t) PROVE Small!racyThread(t)
    BY <2>1 DEF Small!Thread, Small!mutexThread, Small!countThread, Small!cancelThread,
       Small!condThread, Small!another, Small!errorThread, Small!signalChild
  <2>2. CASE Small!main
    BY <2>2 DEF Small!main, Small!join, Small!main_count, Small!main_cancel, Small!main_cond,
       Small!main_fork, Small!main_strerror, Small!main_sync, Small!data, Small!next, MainIsAt
  <2>3. CASE Small!childStep \/ Small!spuriousWakeup
    BY <2>3 DEF Small!childStep, Small!spuriousWakeup, Small!data
  <2> QED
    BY <2>1, <2>2, <2>3 DEF Small!Next
<1> QED
  BY <1>1, <1>2, <1>3, <1>4

LEMMA MutexedKeeps ==
    ASSUME TwoThreads, loops \in Nat, SmallTypes, MainIsAt, Small!Next, prog = "mutex",
           Mutexed
    PROVE  Mutexed'
<1> USE OneAndTwo DEF Small!Goto
<1>0. /\ \A t \in Inserters : turnsLeft[t] \in Int /\ loc[t] \in Int
      /\ glob \in Int
  BY DEF SmallTypes
<1>1. ASSUME NEW t \in Inserters, Small!mutexThread(t)
      PROVE  Mutexed'
  <2>1. CASE tpc[t] = "start" /\ Small!lock(t) /\ Small!Goto(t, "load") /\ UNCHANGED Small!data
    <3>1. /\ tpc'[t] = "load" /\ \A u \in Inserters : u # t => tpc'[u] = tpc[u]
          /\ mutex = "free" /\ mutex' = t /\ UNCHANGED <<glob, loc, turnsLeft>>
      BY <2>1 DEF Small!lock, Small!data, SmallTypes
    <3> QED
      BY <1>0, <3>1 DEF Mutexed, Done
  <2>2. CASE tpc[t] = "load" /\ Small!load(t) /\ Small!Goto(t, "store") /\ UNCHANGED mutex
    <3>1. /\ tpc'[t] = "store" /\ \A u \in Inserters : u # t => tpc'[u] = tpc[u]
          /\ loc'[t] = glob + 1 /\ \A u \in Inserters : u # t => loc'[u] = loc[u]
          /\ UNCHANGED <<glob, turnsLeft, mutex>>
      BY <2>2 DEF Small!load, SmallTypes
    <3> QED
      BY <1>0, <2>2, <3>1 DEF Mutexed, Done
  <2>3. CASE tpc[t] = "store" /\ Small!store(t) /\ Small!Goto(t, "unlock") /\ UNCHANGED mutex
    <3>1. /\ tpc'[t] = "unlock" /\ \A u \in Inserters : u # t => tpc'[u] = tpc[u]
          /\ turnsLeft'[t] = turnsLeft[t] - 1
          /\ \A u \in Inserters : u # t => turnsLeft'[u] = turnsLeft[u]
          /\ glob' = loc[t] /\ loc' = loc /\ mutex' = mutex
      BY <2>3 DEF Small!store, SmallTypes
    <3>2. Done(Small!One)' + Done(Two)' = Done(Small!One) + Done(Two) + 1
      <4>1. CASE t = Small!One
        BY <1>0, <3>1, <4>1 DEF Done
      <4>2. CASE t = Two
        BY <1>0, <3>1, <4>2 DEF Done
      <4> QED
        BY <4>1, <4>2
    <3>3. glob' = Done(Small!One)' + Done(Two)'
      BY <1>0, <2>3, <3>1, <3>2 DEF Mutexed
    <3>4. \A u \in Inserters : u # t => tpc[u] \notin {"load", "store", "unlock"}
      BY <2>3 DEF Mutexed
    <3> QED
      BY <1>0, <2>3, <3>1, <3>3, <3>4 DEF Mutexed
  <2>4. CASE /\ tpc[t] = "unlock" /\ Small!unlock /\ UNCHANGED Small!data
             /\ Small!Goto(t, IF turnsLeft[t] = 0 THEN "end" ELSE "start")
    <3>1. /\ tpc'[t] = IF turnsLeft[t] = 0 THEN "end" ELSE "start"
          /\ \A u \in Inserters : u # t => tpc'[u] = tpc[u]
          /\ mutex' = "free" /\ UNCHANGED <<glob, loc, turnsLeft>>
      BY <2>4 DEF Small!unlock, Small!data, SmallTypes
    <3>2. \A u \in Inserters : u # t => tpc[u] \notin {"load", "store", "unlock"}
      BY <2>4 DEF Mutexed
    <3> QED
      BY <1>0, <3>1, <3>2 DEF Mutexed, Done
  <2> QED
    BY <1>1, <2>1, <2>2, <2>3, <2>4 DEF Small!mutexThread
<1>2. CASE Small!create
  <2>1. PICK t \in Inserters : tpc[t] = "none" /\ tpc' = [tpc EXCEPT ![t] = "start"]
    BY <1>2 DEF Small!create, Small!Threads
  <2>2. UNCHANGED <<glob, loc, turnsLeft, mutex>>
    BY <1>2 DEF Small!create, Small!data
  <2>3. tpc'[t] = "start" /\ \A u \in Inserters : u # t => tpc'[u] = tpc[u]
    BY <2>1 DEF SmallTypes
  <2> QED
    BY <2>1, <2>2, <2>3 DEF Mutexed, Done
<1>3. CASE UNCHANGED <<glob, loc, turnsLeft, tpc, mutex>>
  BY <1>3 DEF Mutexed, Done
<1>4. \/ Small!create \/ \E t \in Inserters : Small!mutexThread(t)
      \/ UNCHANGED <<glob, loc, turnsLeft, tpc, mutex>>
  <2>1. ASSUME NEW t \in Inserters, Small!Thread(t) PROVE Small!mutexThread(t)
    BY <2>1 DEF Small!Thread, Small!racyThread, Small!countThread, Small!cancelThread,
       Small!condThread, Small!another, Small!errorThread, Small!signalChild
  <2>2. CASE Small!main
    BY <2>2 DEF Small!main, Small!join, Small!main_count, Small!main_cancel, Small!main_cond,
       Small!main_fork, Small!main_strerror, Small!main_sync, Small!data, Small!next, MainIsAt
  <2>3. CASE Small!childStep \/ Small!spuriousWakeup
    BY <2>3 DEF Small!childStep, Small!spuriousWakeup, Small!data
  <2> QED
    BY <2>1, <2>2, <2>3 DEF Small!Next
<1> QED
  BY <1>1, <1>2, <1>3, <1>4

(* A thread counts itself once, and main ends when both have.              *)
LEMMA CountedKeeps ==
    ASSUME TwoThreads, SmallTypes, MainIsAt, Small!Next, prog = "count", Counted
    PROVE  Counted'
<1> USE OneAndTwo DEF Small!Goto
<1>1. ASSUME NEW t \in Inserters, Small!countThread(t), mpc' = mpc
      PROVE  Counted'
  <2>1. CASE tpc[t] = "start"
    <3>1. /\ tpc'[t] = "unlock" /\ \A u \in Inserters : u # t => tpc'[u] = tpc[u]
          /\ mutex = "free" /\ mutex' = t /\ glob' = glob + 1
      BY <1>1, <2>1 DEF Small!countThread, Small!lock, SmallTypes
    <3>2. mpc # "exited"
      BY <2>1 DEF Counted
    <3> QED
      BY <1>1, <2>1, <3>1, <3>2 DEF Counted
  <2>2. CASE tpc[t] = "unlock"
    <3>1. /\ tpc'[t] = "end" /\ \A u \in Inserters : u # t => tpc'[u] = tpc[u]
          /\ mutex' = "free" /\ glob' = glob
      BY <1>1, <2>2 DEF Small!countThread, Small!unlock, Small!data, SmallTypes
    <3>2. \A u \in Inserters : u # t => tpc[u] # "unlock"
      BY <2>2 DEF Counted
    <3> QED
      BY <1>1, <2>2, <3>1, <3>2 DEF Counted
  <2> QED
    BY <1>1, <2>1, <2>2 DEF Small!countThread
<1>2. CASE Small!create
  <2>1. PICK t \in Inserters : tpc[t] = "none" /\ tpc' = [tpc EXCEPT ![t] = "start"]
    BY <1>2 DEF Small!create, Small!Threads
  <2>2. UNCHANGED <<glob, mutex>> /\ mpc' # "exited"
    BY <1>2 DEF Small!create, Small!data
  <2>3. tpc'[t] = "start" /\ \A u \in Inserters : u # t => tpc'[u] = tpc[u]
    BY <2>1 DEF SmallTypes
  <2> QED
    BY <2>1, <2>2, <2>3 DEF Counted
<1>3. CASE Small!main_count
  <2>1. UNCHANGED <<glob, tpc, mutex>>
    BY <1>3 DEF Small!main_count, Small!data
  <2>2. mpc' = "exited" => glob = 2
    <3>1. Small!Cardinality(Small!Threads) = 2
      BY SmallCardinality DEF Small!Threads, TwoThreads
    <3> QED
      BY <1>3, <3>1 DEF Small!main_count
  <2> QED
    BY <2>1, <2>2 DEF Counted
<1>4. CASE UNCHANGED <<glob, tpc, mutex, mpc>>
  BY <1>4 DEF Counted
<1>5. \/ Small!create \/ (\E t \in Inserters : Small!countThread(t) /\ mpc' = mpc)
      \/ Small!main_count \/ UNCHANGED <<glob, tpc, mutex, mpc>>
  <2>1. ASSUME NEW t \in Inserters, Small!Thread(t) PROVE Small!countThread(t) /\ mpc' = mpc
    BY <2>1 DEF Small!Thread, Small!racyThread, Small!mutexThread, Small!cancelThread,
       Small!condThread, Small!another, Small!errorThread, Small!signalChild
  <2>2. CASE Small!main
    BY <2>2 DEF Small!main, Small!join, Small!main_cancel, Small!main_cond,
       Small!main_fork, Small!main_strerror, Small!main_sync, Small!data, Small!next, MainIsAt
  <2>3. CASE Small!childStep \/ Small!spuriousWakeup
    BY <2>3 DEF Small!childStep, Small!spuriousWakeup, Small!data
  <2> QED
    BY <2>1, <2>2, <2>3 DEF Small!Next
<1> QED
  BY <1>1, <1>2, <1>3, <1>4, <1>5

(* The thread that waits on the condition, until it is canceled or woken.  *)
LEMMA CleanedKeeps ==
    ASSUME TwoThreads, SmallTypes, MainIsAt, Small!Next, prog \in {"cleanup", "signal"},
           Cleaned
    PROVE  Cleaned'
<1> USE OneAndTwo DEF Small!Goto
<1>0. inTime' = inTime
  BY TypesKeep
<1>1. CASE Small!condThread(Small!One)
  <2>1. UNCHANGED canceled
    BY <1>1 DEF Small!condThread
  <2> QED
    BY <1>0, <1>1, <2>1 DEF Small!condThread, Small!lock, Small!unlock, Small!cleanupHandler,
       Cleaned, SmallTypes
<1>2. CASE Small!create
  <2>1. PICK t \in Small!Threads : tpc[t] = "none" /\ tpc' = [tpc EXCEPT ![t] = "start"]
    BY <1>2 DEF Small!create
  <2>2. t = Small!One
    BY <2>1 DEF Small!Threads
  <2>3. UNCHANGED <<mutex, memory, canceled>>
    BY <1>2 DEF Small!create, Small!cond
  <2>4. tpc[Small!One] = "none" /\ tpc'[Small!One] = "start"
    BY <2>1, <2>2 DEF SmallTypes
  <2> QED
    BY <1>0, <2>3, <2>4 DEF Cleaned
<1>3. CASE Small!main_cond
  <2>1. UNCHANGED <<mutex, memory, tpc>>
    BY <1>3 DEF Small!main_cond
  <2>2. inTime /\ canceled' /\ ~canceled => tpc[Small!One] = "wait"
    BY <1>3 DEF Small!main_cond, Small!Slept, Small!Reached
  <2>3. CASE canceled' = canceled
    BY <1>0, <2>1, <2>3 DEF Cleaned
  <2>4. CASE ~canceled
    BY <1>0, <2>1, <2>2, <2>4 DEF Cleaned
  <2>5. canceled' = canceled \/ ~canceled
    BY <1>3 DEF Small!main_cond
  <2> QED
    BY <2>3, <2>4, <2>5
<1>4. CASE UNCHANGED <<mutex, memory, canceled, tpc>>
  BY <1>0, <1>4 DEF Cleaned
<1>5. \/ Small!create \/ Small!condThread(Small!One) \/ Small!main_cond
      \/ UNCHANGED <<mutex, memory, canceled, tpc>>
  <2>1. ASSUME NEW t \in Inserters, Small!Thread(t) PROVE Small!condThread(t) /\ t = Small!One
    <3>1. tpc[t] # "none"
      BY <2>1, ThreadsEnd
    <3> QED
      BY <2>1, <3>1 DEF Small!Thread, Small!racyThread, Small!mutexThread, Small!countThread,
         Small!cancelThread, Small!another, Small!errorThread, Small!signalChild, MainIsAt
  <2>2. CASE Small!main
    BY <2>2 DEF Small!main, Small!join, Small!main_count, Small!main_cancel,
       Small!main_fork, Small!main_strerror, Small!main_sync, Small!cond, Small!next, MainIsAt
  <2>3. CASE Small!childStep \/ Small!spuriousWakeup
    BY <2>3 DEF Small!childStep, Small!spuriousWakeup, Small!cond
  <2> QED
    BY <2>1, <2>2, <2>3 DEF Small!Next
<1> QED
  BY <1>1, <1>2, <1>3, <1>4, <1>5

(* A thread that has locked the mutex in time is over before main forks.   *)
LEMMA ForkedKeeps ==
    ASSUME TwoThreads, SmallTypes, MainIsAt, Small!Next, prog = "fork", Forked
    PROVE  Forked'
<1> USE OneAndTwo DEF Small!Goto, Small!lock, Small!unlock
<1>0. inTime' = inTime
  BY TypesKeep
<1>1. CASE Small!another(Small!One) /\ mpc' = mpc
  BY <1>0, <1>1 DEF Small!another, Forked, SmallTypes
<1>2. CASE Small!create
  <2>1. PICK t \in Small!Threads : tpc[t] = "none" /\ tpc' = [tpc EXCEPT ![t] = "start"]
    BY <1>2 DEF Small!create
  <2>2. t = Small!One
    BY <2>1 DEF Small!Threads
  <2>3. mutex' = mutex /\ mpc = "create" /\ mpc' \in {"create", "sleep"}
    BY <1>2 DEF Small!create
  <2>4. tpc'[Small!One] = "start"
    BY <2>1, <2>2 DEF SmallTypes
  <2> QED
    BY <1>0, <2>3, <2>4 DEF Forked
<1>3. CASE Small!main_fork
  BY <1>0, <1>3 DEF Small!main_fork, Small!next, Small!prepare, Small!infork, Small!Slept,
     Small!Reached, Forked, Small!Main
<1>4. CASE Small!join
  <2>1. tpc[Small!One] = "end"
    BY <1>4 DEF Small!join, Small!Ended, Small!Threads
  <2> QED
    BY <1>0, <1>4, <2>1 DEF Small!join, Small!next, Forked
<1>5. CASE UNCHANGED <<mutex, mpc, tpc>>
  BY <1>0, <1>5 DEF Forked
<1>6. \/ Small!create \/ (Small!another(Small!One) /\ mpc' = mpc) \/ Small!main_fork
      \/ Small!join \/ UNCHANGED <<mutex, mpc, tpc>>
  <2>1. ASSUME NEW t \in Inserters, Small!Thread(t)
        PROVE  Small!another(t) /\ t = Small!One /\ mpc' = mpc
    <3>1. tpc[t] # "none" /\ mpc' = mpc
      BY <2>1, ThreadsEnd
    <3> QED
      BY <2>1, <3>1 DEF Small!Thread, Small!racyThread, Small!mutexThread, Small!countThread,
         Small!cancelThread, Small!condThread, Small!errorThread, Small!signalChild, MainIsAt
  <2>2. CASE Small!main
    BY <2>2 DEF Small!main, Small!main_count, Small!main_cancel, Small!main_cond,
       Small!main_strerror, Small!main_sync, Small!next, MainIsAt
  <2>3. CASE Small!childStep \/ Small!spuriousWakeup
    BY <2>3 DEF Small!childStep, Small!spuriousWakeup
  <2> QED
    BY <2>1, <2>2, <2>3 DEF Small!Next
<1> QED
  BY <1>1, <1>2, <1>3, <1>4, <1>5, <1>6

(* Each thread has a buffer of its own.                                    *)
LEMMA ErrorsKeep ==
    ASSUME TwoThreads, SmallTypes, MainIsAt, Small!Next, prog = "strerror", Errors
    PROVE  Errors'
<1> USE OneAndTwo DEF Small!Goto
<1>1. CASE Small!errorThread(Small!One) /\ mpc' = mpc
  BY <1>1 DEF Small!errorThread, Small!strerror, Small!buffer, Errors, SmallTypes
<1>2. CASE Small!create /\ UNCHANGED errors
  <2>1. PICK t \in Small!Threads : tpc[t] = "none" /\ tpc' = [tpc EXCEPT ![t] = "start"]
    BY <1>2 DEF Small!create
  <2>2. t = Small!One
    BY <2>1 DEF Small!Threads
  <2>3. mpc = "create" /\ tpc'[Small!One] = "start"
    BY <1>2, <2>1, <2>2 DEF SmallTypes, Small!create
  <2> QED
    BY <1>2, <2>3 DEF Errors
<1>3. CASE Small!main_strerror
  <2>1. /\ mpc = "strerror" /\ mpc' = "create" /\ tpc' = tpc
        /\ errors' = [errors EXCEPT !["main"] = "EINVAL"]
    BY <1>3 DEF Small!main_strerror, Small!next, Small!strerror, Small!buffer, Small!Main
  <2> QED
    BY <2>1 DEF Errors, SmallTypes
<1>4. CASE Small!join /\ UNCHANGED errors
  BY <1>4 DEF Small!join, Small!next, Errors
<1>5. CASE UNCHANGED <<errors, mpc, tpc>>
  BY <1>5 DEF Errors
<1>6. \/ (Small!create /\ UNCHANGED errors) \/ (Small!errorThread(Small!One) /\ mpc' = mpc)
      \/ Small!main_strerror
      \/ (Small!join /\ UNCHANGED errors) \/ UNCHANGED <<errors, mpc, tpc>>
  <2>1. ASSUME NEW t \in Inserters, Small!Thread(t)
        PROVE  Small!errorThread(t) /\ t = Small!One /\ mpc' = mpc
    <3>1. tpc[t] # "none" /\ mpc' = mpc
      BY <2>1, ThreadsEnd
    <3> QED
      BY <2>1, <3>1 DEF Small!Thread, Small!racyThread, Small!mutexThread, Small!countThread,
         Small!cancelThread, Small!condThread, Small!another, Small!signalChild, MainIsAt
  <2>2. CASE Small!main
    BY <2>2 DEF Small!main, Small!main_count, Small!main_cancel, Small!main_cond,
       Small!main_fork, Small!main_sync, Small!next, Small!others, MainIsAt
  <2>3. CASE Small!childStep \/ Small!spuriousWakeup
    BY <2>3 DEF Small!childStep, Small!spuriousWakeup, Small!others
  <2> QED
    BY <2>1, <2>2, <2>3 DEF Small!Next
<1> QED
  BY <1>1, <1>2, <1>3, <1>4, <1>5, <1>6

LEMMA SmallStarts ==
    ASSUME TwoThreads, loops \in Nat, loops >= 2, Small!Init
    PROVE  SmallInv
<1> USE OneAndTwo DEF Small!Init
<1>1. \A t \in Inserters : tpc[t] = "none" /\ turnsLeft[t] = loops /\ loc[t] = 0
  OBVIOUS
<1>2. SmallTypes
  BY DEF SmallTypes
<1>3. MainIsAt
  BY <1>1 DEF MainIsAt
<1>4. Done(Small!One) = 0 /\ Done(Two) = 0 /\ \A t \in Inserters : Done(t) = 0
  BY <1>1 DEF Done
<1>5. Racy
  BY <1>1, <1>4 DEF Racy
<1>6. Mutexed /\ Counted
  BY <1>1, <1>4 DEF Mutexed, Counted
<1>7. Cleaned /\ (prog = "fork" => Forked) /\ (prog = "strerror" => Errors)
  BY <1>1 DEF Cleaned, Forked, Errors
<1> QED
  BY <1>2, <1>3, <1>5, <1>6, <1>7 DEF SmallInv

LEMMA SmallKeeps ==
    ASSUME TwoThreads, loops \in Nat, loops >= 2, SmallInv, Small!Next
    PROVE  SmallInv'
<1>1. SmallTypes /\ MainIsAt
  BY DEF SmallInv
<1>2. SmallTypes' /\ MainIsAt' /\ UNCHANGED prog
  BY <1>1, TypesKeep, MainKeeps
<1> QED
  BY <1>1, <1>2, RacyKeeps, MutexedKeeps, CountedKeeps, CleanedKeeps, ForkedKeeps, ErrorsKeep
     DEF SmallInv

LEMMA SmallEnds ==
    ASSUME TwoThreads, loops \in Nat, loops >= 2, SmallInv
    PROVE  Small!EndsRight
<1> USE OneAndTwo DEF SmallInv
<1>1. mpc = "exited" /\ prog \notin {"count", "sync"} => tpc[Small!One] = "end"
  BY DEF MainIsAt, Small!Ended, Small!Threads
<1>2. mpc = "exited" /\ prog \in {"racy", "mutex"} => tpc[Two] = "end"
  BY DEF MainIsAt, Small!Ended, Small!Threads
<1>3. /\ \A t \in Inserters : turnsLeft[t] \in Int
      /\ glob \in Int
  BY DEF SmallTypes
<1>4. mpc = "exited" /\ prog = "racy" => glob \in 2 .. 2 * loops
  BY <1>1, <1>2, <1>3 DEF Racy, Done
<1>5. mpc = "exited" /\ prog = "mutex" => glob = 2 * loops
  BY <1>1, <1>2, <1>3 DEF Mutexed, Done
<1>6. mpc = "exited" /\ prog = "count" => glob = 2
  BY DEF Counted
<1>7. mpc = "exited" /\ prog \in {"cleanup", "signal"} =>
          mutex = "free" /\ (inTime => memory = "freed")
  BY <1>1 DEF Cleaned
<1>8. mpc = "exited" /\ prog = "strerror" =>
          errors["main"] = "EINVAL" /\ errors["thread"] = "freed"
  BY <1>1 DEF Errors
<1>9. mutex = "destroyed" /\ inTime => tpc[Small!One] = "end"
  BY DEF MainIsAt, Forked
<1> QED
  BY <1>4, <1>5, <1>6, <1>7, <1>8, <1>9 DEF Small!EndsRight

-----------------------------------------------------------------------------
(* The modules of the run together.                                        *)

(* Nobody is blocked on a condition of the queue that already holds        *)
(* (ThreadSafeBoundedQueue_CV.cpp:38, 49, 60, 69).                         *)
THEOREM NobodyIsStranded == MCSpec => []NobodyStranded
<1>1. MCInit => CV!Init
  BY DEF MCInit
<1>2. [MCNext]_allVars => [CV!Next]_CV!vars
  BY DEF MCNext, allVars, cvVars, InQueue, InCV, InRound, InPool, InSmall, CV!vars
<1> QED
  BY <1>1, <1>2, NoThreadForgotten, PTL DEF MCSpec, CV!Spec, NobodyStranded

(* The ring of the queue with two conditions implements a bounded FIFO     *)
(* queue (ThreadSafeBoundedQueue_CV.cpp:46, 67).                           *)
THEOREM CVQueueRefines == MCSpec => CVIsQueue
<1>1. MCInit => CV!Init
  BY DEF MCInit
<1>2. [MCNext]_allVars => [CV!Next]_CV!vars
  BY DEF MCNext, allVars, cvVars, InQueue, InCV, InRound, InPool, InSmall, CV!vars
<1> QED
  BY <1>1, <1>2, CVRefinement, PTL DEF MCSpec, CV!Spec, CVIsQueue

(* No thread is let through a round of the barrier before all have come    *)
(* to it (Barrier.cpp:31, 46).                                             *)
THEOREM NobodyIsAhead ==
    ASSUME IsFiniteSet(Threads), Threads # {}
    PROVE  MCSpec => []NobodyAhead
<1>1. MCInit => Round!Init
  BY DEF MCInit
<1>2. [MCNext]_allVars => [Round!Next]_Round!vars
  BY DEF MCNext, allVars, roundVars, InQueue, InCV, InRound, InPool, InSmall, Round!vars
<1> QED
  BY <1>1, <1>2, RoundsApart, PTL DEF MCSpec, Round!Spec, NobodyAhead

(* Requests and tokens of the pool are the same number, and what the       *)
(* threads of the small programs have counted, locked and allocated is     *)
(* right at the end (3_threadpool.h:69, 86; 30/1:11, 32/2:35, 14/3:63).    *)
THEOREM CountsAreRight ==
    ASSUME TwoThreads, IsFiniteSet(Removers), m_max_requests \in Nat, Appends \in Int,
           loops \in Nat, loops >= 2
    PROVE  MCSpec => []CountsRight
<1>1. MCSpec => []Pool!TokensMatch
  <2>1. MCInit => Pool!Init
    BY DEF MCInit
  <2>2. [MCNext]_allVars => [Pool!Next]_Pool!vars
    BY DEF MCNext, allVars, poolVars, InQueue, InCV, InRound, InPool, InSmall, Pool!vars
  <2>3. Pool!Spec => []Pool!TokensMatch
    BY TokensAlwaysMatch DEF TwoThreads
  <2> QED
    BY <2>1, <2>2, <2>3, PTL DEF MCSpec, Pool!Spec
<1>2. MCSpec => []SmallInv
  <2>1. MCInit => SmallInv
    BY SmallStarts DEF MCInit
  <2>2. SmallInv /\ [MCNext]_allVars => SmallInv'
    <3> SUFFICES ASSUME SmallInv, [MCNext]_allVars PROVE SmallInv'
      OBVIOUS
    <3>1. CASE Small!Next
      BY <3>1, SmallKeeps
    <3>2. CASE UNCHANGED smallVars
      BY <3>2 DEF smallVars, SmallInv, SmallTypes, MainIsAt, Racy, Mutexed, Counted, Cleaned,
         Forked, Errors, Done, Small!Ended, Small!Threads
    <3> QED
      BY <3>1, <3>2 DEF MCNext, allVars, InQueue, InCV, InRound, InPool, InSmall
  <2> QED
    BY <2>1, <2>2, PTL DEF MCSpec
<1>3. SmallInv /\ Pool!TokensMatch => CountsRight
  BY SmallEnds DEF CountsRight
<1> QED
  BY <1>1, <1>2, <1>3, PTL
=============================================================================
