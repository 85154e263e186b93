-------------------------------- MODULE BBQ --------------------------------
(***************************************************************************)
(* The blocking bounded queue of OSPP/lib/ThreadSafeBoundedQueue_CV.cpp,   *)
(* called the way OSPP/src/5/4_3_ThreadSafeBoundedQueue_CV.cpp calls it:   *)
(* every thread makes a number of calls of tryInsert or of tryRemove.      *)
(* The source names the two conditions after the other event: inserters    *)
(* wait on itemAddedCond, removers on itemRemovedCond.                     *)
(***************************************************************************)
EXTENDS Integers, PthreadCond

CONSTANTS
    Inserters, Removers,    \* the threads, by what they call
    Calls,                  \* how many calls a thread makes
    Items,                  \* what the inserters insert
    MAX,                    \* the slots of the ring
    NoItem                  \* what an unwritten slot or variable holds

Threads == Inserters \cup Removers

VARIABLES
    items,              \* the ring
    front, nextEmpty,   \* how many items were ever removed and inserted
    itemAddedCond,      \* the threads blocked on each condition
    itemRemovedCond,
    left,               \* how many calls each thread has still to make
    item,               \* the parameter of tryInsert during a call
    pc,                 \* "out", or inside a call of "tryInsert" or "tryRemove"
    remove_n            \* the item each thread removed last

vars == <<items, front, nextEmpty, itemAddedCond, itemRemovedCond,
          left, item, pc, remove_n>>

Slots == 0..(MAX - 1)

Init ==
    /\ items = [i \in Slots |-> NoItem]
    /\ front = 0
    /\ nextEmpty = 0
    /\ itemAddedCond = {}
    /\ itemRemovedCond = {}
    /\ left = [t \in Threads |-> Calls]
    /\ item = [t \in Threads |-> NoItem]
    /\ pc = [t \in Threads |-> "out"]
    /\ remove_n = [t \in Threads |-> NoItem]

-----------------------------------------------------------------------------
(* The thread enters its next call; it still has to get the mutex.         *)
call(t) ==
    /\ pc[t] = "out" /\ left[t] > 0
    /\ left' = [left EXCEPT ![t] = @ - 1]
    /\ \/ /\ t \in Inserters
          /\ \E x \in Items : item' = [item EXCEPT ![t] = x]
          /\ pc' = [pc EXCEPT ![t] = "tryInsert"]
       \/ /\ t \in Removers
          /\ pc' = [pc EXCEPT ![t] = "tryRemove"]
          /\ UNCHANGED item
    /\ UNCHANGED <<items, front, nextEmpty, itemAddedCond, itemRemovedCond, remove_n>>

\* Mutation: off by one, the ring takes one item too many.
full_offByOne == nextEmpty - front > MAX

full == nextEmpty - front = MAX

(* tryInsert once the mutex is held, on entry or after a wait: the loop    *)
(* test, then either the wait or the rest of the function.                 *)
tryInsert(t) ==
    /\ pc[t] = "tryInsert" /\ t \notin itemAddedCond
    /\ \/ /\ full
          /\ itemAddedCond' = itemAddedCond \cup {t}
          /\ UNCHANGED <<items, nextEmpty, itemRemovedCond, pc, item>>
       \/ /\ ~full
          /\ items' = [items EXCEPT ![nextEmpty % MAX] = item[t]]
          /\ nextEmpty' = nextEmpty + 1
          /\ itemRemovedCond' = AfterBroadcast
          /\ pc' = [pc EXCEPT ![t] = "out"]
          /\ item' = [item EXCEPT ![t] = NoItem]
          /\ UNCHANGED itemAddedCond
    /\ UNCHANGED <<front, left, remove_n>>

\* Mutation: remove wakes the threads that wait for an item, not for room.
tryRemove_wrongCond(t) ==
    /\ pc[t] = "tryRemove" /\ t \notin itemRemovedCond
    /\ \/ /\ nextEmpty - front = 0
          /\ itemRemovedCond' = itemRemovedCond \cup {t}
          /\ UNCHANGED <<front, itemAddedCond, pc, remove_n>>
       \/ /\ nextEmpty - front # 0
          /\ remove_n' = [remove_n EXCEPT ![t] = items[front % MAX]]
          /\ front' = front + 1
          /\ itemRemovedCond' = AfterBroadcast
          /\ pc' = [pc EXCEPT ![t] = "out"]
          /\ UNCHANGED itemAddedCond
    /\ UNCHANGED <<items, nextEmpty, left, item>>

tryRemove(t) ==
    /\ pc[t] = "tryRemove" /\ t \notin itemRemovedCond
    /\ \/ /\ nextEmpty - front = 0
          /\ itemRemovedCond' = itemRemovedCond \cup {t}
          /\ UNCHANGED <<front, itemAddedCond, pc, remove_n>>
       \/ /\ nextEmpty - front # 0
          /\ remove_n' = [remove_n EXCEPT ![t] = items[front % MAX]]
          /\ front' = front + 1
          /\ itemAddedCond' = AfterBroadcast
          /\ pc' = [pc EXCEPT ![t] = "out"]
          /\ UNCHANGED itemRemovedCond
    /\ UNCHANGED <<items, nextEmpty, left, item>>

spuriousWakeup(t) ==
    /\ t \in itemAddedCond \cup itemRemovedCond
    /\ itemAddedCond' = itemAddedCond \ {t}
    /\ itemRemovedCond' = itemRemovedCond \ {t}
    /\ UNCHANGED <<items, front, nextEmpty, left, item, pc, remove_n>>

-----------------------------------------------------------------------------
Finished == \A t \in Threads : pc[t] = "out" /\ left[t] = 0

(* Every thread has returned.                                              *)
exited == Finished /\ UNCHANGED vars

threadStep(t) == call(t) \/ tryInsert(t) \/ tryRemove(t)

Next == (\E t \in Threads : threadStep(t) \/ spuriousWakeup(t)) \/ exited

Spec == Init /\ [][Next]_vars

(* A thread that can run does; the calls are finitely many, so the mutex   *)
(* is not contended for for ever.                                          *)
FairSpec == Spec /\ \A t \in Threads : WF_vars(threadStep(t))

-----------------------------------------------------------------------------
TypeOK ==
    /\ items \in [Slots -> Items \cup {NoItem}]
    /\ front \in Nat /\ nextEmpty \in Nat
    /\ nextEmpty - front \in 0..MAX
    /\ itemAddedCond \subseteq Inserters
    /\ itemRemovedCond \subseteq Removers
    /\ left \in [Threads -> Nat]
    /\ item \in [Threads -> Items \cup {NoItem}]
    /\ pc \in [Threads -> {"out", "tryInsert", "tryRemove"}]
    /\ remove_n \in [Threads -> Items \cup {NoItem}]

(* An inserter is blocked only while the ring is full and a remover only   *)
(* while it is empty: the broadcasts leave nobody asleep who could go on.  *)
NoLostWakeup ==
    /\ itemAddedCond # {} => full
    /\ itemRemovedCond # {} => nextEmpty = front

(* Through the ring and its two counters, each call acts on a bounded FIFO *)
(* queue at one instant: no item is lost, overwritten, returned twice or   *)
(* read from a slot that was never written.                                *)
pending == [i \in 1..(nextEmpty - front) |-> items[(front + i - 1) % MAX]]

BQ == INSTANCE BoundedQueue WITH queue <- pending, arg <- item, got <- remove_n

ImplementsBoundedQueue == BQ!Spec

(* The threads of the test program all return when they insert as many     *)
(* items as they remove: they never wait for each other in a circle.       *)
AllCallsReturn == <>Finished
=============================================================================
