---------------------------- MODULE BoundedQueue ----------------------------
(***************************************************************************)
(* What a bounded FIFO queue promises: an insert takes effect at one       *)
(* instant, at the back and only while there is room; a remove takes       *)
(* effect at one instant, at the front and only while there is an item,    *)
(* which is the one it returns.                                            *)
(***************************************************************************)
EXTENDS Integers, Sequences

CONSTANTS Threads, Items, MAX, NoItem

VARIABLES
    queue,      \* the items inserted and not yet removed, oldest first
    arg,        \* the item each calling inserter has not inserted yet
    got         \* the item each remove returned last

Init ==
    /\ queue = <<>>
    /\ arg = [t \in Threads |-> NoItem]
    /\ got = [t \in Threads |-> NoItem]

Call(t) ==
    /\ arg[t] = NoItem
    /\ \E x \in Items : arg' = [arg EXCEPT ![t] = x]
    /\ UNCHANGED <<queue, got>>

Insert(t) ==
    /\ arg[t] # NoItem /\ Len(queue) < MAX
    /\ queue' = Append(queue, arg[t])
    /\ arg' = [arg EXCEPT ![t] = NoItem]
    /\ UNCHANGED got

Remove(t) ==
    /\ queue # <<>>
    /\ got' = [got EXCEPT ![t] = Head(queue)]
    /\ queue' = Tail(queue)
    /\ UNCHANGED arg

Next == \E t \in Threads : Call(t) \/ Insert(t) \/ Remove(t)

Spec == Init /\ [][Next]_<<queue, arg, got>>
=============================================================================
