-------------------------------- MODULE MyVec --------------------------------
(***************************************************************************)
(* MyVec of rust_pg/src/my_vec: a vector over raw memory and the iterator  *)
(* it is turned into.  Elements are moved by copying cells, so a cell keeps*)
(* its bits after its element has gone; the compiler drops what the caller *)
(* holds, the destructors of vec.rs and intoiter.rs what is inside.        *)
(*                                                                         *)
(* next_back moves end back but reads the cell at start.  Unless that is   *)
(* the only element left, the element at start then has two owners, which  *)
(* is undefined: the behavior ends there.                                  *)
(***************************************************************************)
EXTENDS Integers, Sequences

CONSTANTS
    Elements,       \* the values of T, each of which has one owner
    Garbage         \* what a cell holds before it is written, no element

VARIABLES
    mode,           \* "vec", "iter", "gone", "undefined"
    cap, cells,     \* RawVec: the memory, cells 0 .. cap - 1
    len,            \* of the vector
    start, end,     \* of the iterator, as numbers of cells
    held, dropped   \* by the caller

owners == <<held, dropped>>
vars == <<mode, cap, cells, len, start, end, owners>>

Init ==
    /\ mode = "vec"
    /\ cap = 0 /\ cells = <<>>
    /\ len = 0
    /\ start = 0 /\ end = 0
    /\ held = Elements /\ dropped = {}

-----------------------------------------------------------------------------
(* RawVec: realloc keeps what was there.                                   *)

newCap == IF len < cap THEN cap ELSE IF cap = 0 THEN 1 ELSE 2 * cap

grown == [c \in 0 .. newCap - 1 |-> IF c < cap THEN cells[c] ELSE Garbage]

\* ptr::copy of n cells, as if by way of a second memory.
copied(mem, src, dst, n) ==
    [c \in DOMAIN mem |-> IF dst <= c /\ c < dst + n THEN mem[c - dst + src] ELSE mem[c]]

Owns(e) == mode = "vec" /\ e \in held

-----------------------------------------------------------------------------
push(e) ==
    /\ Owns(e)
    /\ cap' = newCap
    /\ cells' = [grown EXCEPT ![len] = e]
    /\ len' = len + 1
    /\ held' = held \ {e}
    /\ UNCHANGED <<mode, start, end, dropped>>

pop ==
    /\ mode = "vec" /\ len > 0
    /\ len' = len - 1
    /\ held' = held \cup {cells[len - 1]}
    /\ UNCHANGED <<mode, cap, cells, start, end, dropped>>

\* Mutation: the last element is not moved.
movedUp_tooFew(index) == IF index < len THEN len - index - 1 ELSE 0

\* How many elements make room for one at index.
movedUp(index) == len - index

insert(e, index) ==
    /\ Owns(e) /\ index <= len
    /\ cap' = newCap
    /\ cells' = [copied(grown, index, index + 1, movedUp(index)) EXCEPT ![index] = e]
    /\ len' = len + 1
    /\ held' = held \ {e}
    /\ UNCHANGED <<mode, start, end, dropped>>

\* The assertion fails: the panic drops the element that was to be inserted.
insertPanics(e) ==
    /\ Owns(e)
    /\ held' = held \ {e}
    /\ dropped' = dropped \cup {e}
    /\ UNCHANGED <<mode, cap, cells, len, start, end>>

remove(index) ==
    /\ mode = "vec" /\ index < len
    /\ held' = held \cup {cells[index]}
    /\ cells' = copied(cells, index + 1, index, len - index - 1)
    /\ len' = len - 1
    /\ UNCHANGED <<mode, cap, start, end, dropped>>

\* Vec's destructor pops every element, RawVec's frees the memory.
dropVec ==
    /\ mode = "vec"
    /\ mode' = "gone"
    /\ dropped' = dropped \cup {cells[c] : c \in 0 .. len - 1}
    /\ len' = 0
    /\ UNCHANGED <<cap, cells, start, end, held>>

into_iter ==
    /\ mode = "vec"
    /\ mode' = "iter"
    /\ start' = 0
    /\ end' = IF cap = 0 THEN 0 ELSE len
    /\ UNCHANGED <<cap, cells, len, owners>>

next ==
    /\ mode = "iter" /\ start # end
    /\ held' = held \cup {cells[start]}
    /\ start' = start + 1
    /\ UNCHANGED <<mode, cap, cells, len, end, dropped>>

next_back ==
    /\ mode = "iter" /\ start # end
    /\ end' = end - 1
    /\ held' = held \cup {cells[start]}
    /\ mode' = IF start = end - 1 THEN "iter" ELSE "undefined"
    /\ UNCHANGED <<cap, cells, len, start, dropped>>

\* The iterator's destructor takes every element that is left.
dropIter ==
    /\ mode = "iter"
    /\ mode' = "gone"
    /\ dropped' = dropped \cup {cells[c] : c \in start .. end - 1}
    /\ start' = end
    /\ UNCHANGED <<cap, cells, len, end, held>>

Next ==
    \/ \E e \in Elements : push(e) \/ insertPanics(e)
    \/ \E e \in Elements : \E index \in 0 .. len : insert(e, index)
    \/ \E index \in 0 .. len - 1 : remove(index)
    \/ pop \/ dropVec \/ into_iter \/ next \/ next_back \/ dropIter

Spec == Init /\ [][Next]_vars

-----------------------------------------------------------------------------
(* What is inside, by the memory and the bounds in use.                    *)
first == IF mode = "vec" THEN 0 ELSE start
behind == IF mode = "vec" THEN len ELSE end
inside == [k \in 1 .. behind - first |-> cells[first + k - 1]]

Sequence == INSTANCE OwnedSequence WITH seq <- inside

(* Through every reallocation and every shift of cells the vector, and the *)
(* iterator after it, are a sequence whose elements have one owner each:   *)
(* none is lost, handed out twice or dropped twice (vec.rs, intoiter.rs).  *)
(* This ends with a next_back that finds more than one element (line 42).  *)
ImplementsSequence ==
    Sequence!Init /\ [][mode' = "undefined" \/ Sequence!Next]_<<inside, held, dropped>>
=============================================================================
