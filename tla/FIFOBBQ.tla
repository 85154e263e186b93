------------------------------ MODULE FIFOBBQ ------------------------------
(***************************************************************************)
(* The queue of OSPP/lib/ThreadSafeBoundedQueue_FIFO.cpp, which serves     *)
(* inserters, and removers, in the order of their calls.  Each call has a  *)
(* position and, when it must wait, a condition variable of its own; the   *)
(* call of position p is the owner of the p-th condition, so the lists of  *)
(* conditions are modelled as sequences of positions.  Two things in the   *)
(* code are undefined behaviour, and end the model's behaviour too:        *)
(* front() of an empty list when it yields garbage, and a broadcast on a   *)
(* condition that its owner has already deleted.                           *)
(***************************************************************************)
EXTENDS Integers, Sequences

CONSTANTS
    Inserters, Removers,    \* the threads, by what they call
    Programs,               \* the programs, each with what may happen to it:
                            \*   calls     how many calls each thread makes
                            \*   spurious  a wait may return with no signal
                            \*   front     what front() of an empty list may
                            \*             yield, "null" or "garbage"
    Items,                  \* what the inserters insert
    MAX,                    \* the slots of the ring
    NoItem                  \* what an unwritten slot or variable holds

Threads == Inserters \cup Removers

ASSUME FIFOBBQAssumption ==
    /\ Inserters \cap Removers = {}
    /\ \A p \in Programs : /\ p.calls \in [Threads -> Nat]
                           /\ p.spurious \in BOOLEAN
                           /\ p.front \subseteq {"null", "garbage"}
    /\ MAX \in Nat \ {0}
    /\ NoItem \notin Items

VARIABLES
    program,                            \* the one of Programs that runs
    items, front, nextEmpty,            \* the ring
    insert_list, remove_list,           \* conditions to broadcast, oldest first
    numInsertCalled, numRemoveCalled,   \* positions given out
    myPosition,     \* the position of each thread's call
    blocked,        \* the threads blocked on the condition of their call
    left,           \* how many calls each thread has still to make
    item,           \* the parameter of tryInsert during a call
    pc, remove_n,
    undefined       \* undefined behaviour has occurred

ring == <<items, front, nextEmpty>>
conds == <<insert_list, remove_list, blocked, undefined>>
positions == <<numInsertCalled, numRemoveCalled, myPosition>>
vars == <<program, ring, conds, positions, left, item, pc, remove_n>>

Init ==
    /\ program \in Programs
    /\ items = [i \in 0..(MAX - 1) |-> NoItem]
    /\ front = 0 /\ nextEmpty = 0
    /\ insert_list = <<>> /\ remove_list = <<>>
    /\ numInsertCalled = 0 /\ numRemoveCalled = 0
    /\ myPosition = [t \in Threads |-> 0]
    /\ blocked = {}
    /\ left = program.calls
    /\ item = [t \in Threads |-> NoItem]
    /\ pc = [t \in Threads |-> "out"]
    /\ remove_n = [t \in Threads |-> NoItem]
    /\ undefined = FALSE

Goto(t, l) == pc' = [pc EXCEPT ![t] = l]

(* The calls in the wait loop of op that have position p: at most one, and *)
(* none once the condition is deleted.                                     *)
owner(op, p) == {t \in Threads : pc[t] = op /\ myPosition[t] = p}

(* The first condition of a list is broadcast, if there is one.            *)
broadcastFirst(list, op) ==
    \/ /\ list = <<>>
       /\ \E r \in program.front : undefined' = (r = "garbage")
       /\ UNCHANGED blocked
    \/ /\ list # <<>>
       /\ blocked' = blocked \ owner(op, Head(list))
       /\ undefined' = (owner(op, Head(list)) = {})

\* Mutation: the list is read but the condition stays in it.
popped_keep(list) == list

popped(list) == IF list = <<>> THEN <<>> ELSE Tail(list)

-----------------------------------------------------------------------------
(* The thread enters its next call; it still has to get the mutex.         *)
call(t) ==
    /\ ~undefined
    /\ pc[t] = "out" /\ left[t] > 0
    /\ left' = [left EXCEPT ![t] = @ - 1]
    /\ \/ /\ t \in Inserters
          /\ \E x \in Items : item' = [item EXCEPT ![t] = x]
          /\ Goto(t, "callInsert")
       \/ /\ t \in Removers
          /\ Goto(t, "callRemove")
          /\ UNCHANGED item
    /\ UNCHANGED <<program, ring, conds, positions, remove_n>>

\* Mutation: the order of the calls is not looked at.
insertMustWait_anyOrder(p) == nextEmpty - front = MAX

insertMustWait(p) == nextEmpty - front = MAX \/ p > nextEmpty

(* The end of tryInsert, from delCond on.                                  *)
insertItem(t) ==
    /\ items' = [items EXCEPT ![nextEmpty % MAX] = item[t]]
    /\ nextEmpty' = nextEmpty + 1
    /\ broadcastFirst(remove_list, "tryRemove")
    /\ remove_list' = popped(remove_list)
    /\ item' = [item EXCEPT ![t] = NoItem]
    /\ Goto(t, "out")
    /\ UNCHANGED <<front, insert_list>>

(* tryInsert from the lock to the first wait or to the end.                *)
tryInsert(t) ==
    /\ ~undefined /\ pc[t] = "callInsert"
    /\ myPosition' = [myPosition EXCEPT ![t] = numInsertCalled]
    /\ numInsertCalled' = numInsertCalled + 1
    /\ \/ /\ insertMustWait(numInsertCalled)
          /\ insert_list' = Append(insert_list, numInsertCalled)
          /\ blocked' = blocked \cup {t}
          /\ Goto(t, "tryInsert")
          /\ UNCHANGED <<ring, remove_list, undefined, item>>
       \/ ~insertMustWait(numInsertCalled) /\ insertItem(t)
    /\ UNCHANGED <<program, numRemoveCalled, left, remove_n>>

(* A woken inserter goes round the loop; its condition is not put back     *)
(* into the list when it waits again.                                      *)
resumeInsert(t) ==
    /\ ~undefined /\ pc[t] = "tryInsert" /\ t \notin blocked
    /\ \/ /\ insertMustWait(myPosition[t])
          /\ blocked' = blocked \cup {t}
          /\ UNCHANGED <<ring, insert_list, remove_list, undefined, item, pc>>
       \/ ~insertMustWait(myPosition[t]) /\ insertItem(t)
    /\ UNCHANGED <<program, positions, left, remove_n>>

-----------------------------------------------------------------------------
\* Mutation: a remover does not wait for an item, only for its turn.
removeMustWait_anyItem(p) == p > front

removeMustWait(p) == nextEmpty - front = 0 \/ p > front

(* The end of tryRemove, from delCond on.                                  *)
removeItem(t) ==
    /\ remove_n' = [remove_n EXCEPT ![t] = items[front % MAX]]
    /\ front' = front + 1
    /\ broadcastFirst(insert_list, "tryInsert")
    /\ insert_list' = popped(insert_list)
    /\ Goto(t, "out")
    /\ UNCHANGED <<items, nextEmpty, remove_list>>

tryRemove(t) ==
    /\ ~undefined /\ pc[t] = "callRemove"
    /\ myPosition' = [myPosition EXCEPT ![t] = numRemoveCalled]
    /\ numRemoveCalled' = numRemoveCalled + 1
    /\ \/ /\ removeMustWait(numRemoveCalled)
          /\ remove_list' = Append(remove_list, numRemoveCalled)
          /\ blocked' = blocked \cup {t}
          /\ Goto(t, "tryRemove")
          /\ UNCHANGED <<ring, insert_list, undefined, remove_n>>
       \/ ~removeMustWait(numRemoveCalled) /\ removeItem(t)
    /\ UNCHANGED <<program, numInsertCalled, left, item>>

resumeRemove(t) ==
    /\ ~undefined /\ pc[t] = "tryRemove" /\ t \notin blocked
    /\ \/ /\ removeMustWait(myPosition[t])
          /\ blocked' = blocked \cup {t}
          /\ UNCHANGED <<ring, insert_list, remove_list, undefined, remove_n, pc>>
       \/ ~removeMustWait(myPosition[t]) /\ removeItem(t)
    /\ UNCHANGED <<program, positions, left, item>>

-----------------------------------------------------------------------------
spuriousWakeup(t) ==
    /\ program.spurious /\ ~undefined /\ t \in blocked
    /\ blocked' = blocked \ {t}
    /\ UNCHANGED <<program, ring, insert_list, remove_list, undefined, positions,
                   left, item, pc, remove_n>>

Finished == \A t \in Threads : pc[t] = "out" /\ left[t] = 0

(* Every thread has returned, or nothing can be said any more.             *)
exited == (Finished \/ undefined) /\ UNCHANGED vars

threadStep(t) == \/ call(t)
                 \/ tryInsert(t) \/ resumeInsert(t)
                 \/ tryRemove(t) \/ resumeRemove(t)

Next == (\E t \in Threads : threadStep(t) \/ spuriousWakeup(t)) \/ exited

Spec == Init /\ [][Next]_vars

(* A thread that can run does; the calls are finitely many, so the mutex   *)
(* is not contended for for ever.                                          *)
FairSpec == Spec /\ \A t \in Threads : WF_vars(threadStep(t))

-----------------------------------------------------------------------------
TypeOK ==
    /\ program \in Programs
    /\ items \in [0..(MAX - 1) -> Items \cup {NoItem}]
    /\ front \in Nat /\ nextEmpty \in Nat
    /\ nextEmpty - front \in 0..MAX
    /\ insert_list \in Seq(Nat) /\ remove_list \in Seq(Nat)
    /\ numInsertCalled \in Nat /\ numRemoveCalled \in Nat
    /\ myPosition \in [Threads -> Nat]
    /\ blocked \subseteq {t \in Threads : pc[t] \in {"tryInsert", "tryRemove"}}
    /\ left \in [Threads -> Nat]
    /\ item \in [Threads -> Items \cup {NoItem}]
    /\ pc \in [Threads -> {"out", "callInsert", "tryInsert", "callRemove", "tryRemove"}]
    /\ remove_n \in [Threads -> Items \cup {NoItem}]
    /\ undefined \in BOOLEAN

(* The calls still waiting hold exactly the positions given out and not    *)
(* used yet, so calls of tryInsert take effect in the order in which they  *)
(* got the mutex, and so do those of tryRemove, however they are woken.    *)
waitingAt(op) == {myPosition[t] : t \in {u \in Threads : pc[u] = op}}

CallOrder ==
    /\ waitingAt("tryInsert") = nextEmpty..(numInsertCalled - 1)
    /\ waitingAt("tryRemove") = front..(numRemoveCalled - 1)
    /\ \A t, u \in Threads :
         t # u /\ pc[t] = pc[u] /\ pc[t] \in {"tryInsert", "tryRemove"}
           => myPosition[t] # myPosition[u]

(* As for the other bounded queue: each call acts at one instant on a      *)
(* bounded FIFO queue, up to the first undefined behaviour.                *)
pending == [i \in 1..(nextEmpty - front) |-> items[(front + i - 1) % MAX]]

BQ == INSTANCE BoundedQueue WITH queue <- pending, arg <- item, got <- remove_n

ImplementsBoundedQueue == BQ!Spec

(* A condition in a list belongs to a call that is still waiting, so no    *)
(* broadcast reaches a deleted one.  Only a wait that returns with no      *)
(* signal could get a call out of its loop with its condition still        *)
(* listed: without those the pointers of the lists never dangle.           *)
NoDanglingCond ==
    ~program.spurious =>
        /\ \A i \in DOMAIN insert_list : owner("tryInsert", insert_list[i]) # {}
        /\ \A i \in DOMAIN remove_list : owner("tryRemove", remove_list[i]) # {}

(* When as many items are inserted as removed, every call returns (the     *)
(* joins of main, lines 70 and 71, for any number of threads).             *)
AllCallsReturn == <>Finished

(* With two inserters that fails: when two removers have each popped a     *)
(* waiting inserter and the later one runs first, it finds that it is not  *)
(* its turn and waits again on a condition that no list holds any more.    *)
(* With one thread on each side, as in the test program, main does return, *)
(* though a condition is broadcast only once.                              *)
OnePair ==
    /\ ~program.spurious /\ program.front = {"null"}
    /\ \E i \in Inserters, r \in Removers :
          /\ \A t \in Threads \ {i, r} : program.calls[t] = 0
          /\ program.calls[i] = program.calls[r]

PairReturns == OnePair ~> Finished
=============================================================================
