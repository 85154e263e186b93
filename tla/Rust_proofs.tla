----------------------------- MODULE Rust_proofs -----------------------------
(***************************************************************************)
(* Proofs about the programs of rust_pg: MyVec, for any elements, as many  *)
(* as there may be; mini_tokio, for any program of tasks that are spawned  *)
(* once each; the DNS server, for any zones, questions and clients.        *)
(***************************************************************************)
EXTENDS MCRust, NaturalsInduction, WellFoundedInduction, TLAPS

Memory == [0 .. cap - 1 -> Elements \cup {Garbage}]

(* The bounds of the vector and of the iterator stay inside the memory.    *)
Bounds ==
    /\ mode \in {"vec", "iter", "gone", "undefined"}
    /\ cap \in Nat /\ len \in Nat /\ start \in Nat /\ end \in Nat
    /\ mode = "vec" => len <= cap
    /\ mode # "vec" => start <= end /\ end <= cap
    /\ mode = "vec" => start = 0 /\ end = 0

(* What is within the bounds has been written.                             *)
Written == \A c \in first .. behind - 1 : cells[c] \in Elements

IInv == Bounds /\ cells \in Memory /\ Written /\ held \subseteq Elements

Abstract == <<inside, held, dropped>>

-----------------------------------------------------------------------------
LEMMA InitIInv == Init => IInv
BY DEF Init, IInv, Bounds, Memory, Written, first, behind

(* Growing keeps what is inside and makes room for one more.               *)
LEMMA Grown ==
    ASSUME IInv, mode = "vec"
    PROVE  /\ newCap \in Nat /\ newCap > len /\ newCap >= cap
           /\ grown \in [0 .. newCap - 1 -> Elements \cup {Garbage}]
           /\ \A c \in 0 .. len - 1 : grown[c] = cells[c]
<1>1. newCap \in Nat /\ newCap > len /\ newCap >= cap
  BY DEF IInv, Bounds, newCap
<1>2. grown \in [0 .. newCap - 1 -> Elements \cup {Garbage}]
  BY <1>1 DEF IInv, Bounds, Memory, grown
<1>3. \A c \in 0 .. len - 1 : grown[c] = cells[c]
  BY <1>1 DEF IInv, Bounds, grown
<1> QED
  BY <1>1, <1>2, <1>3

LEMMA PushPuts ==
    ASSUME IInv, NEW e \in Elements, push(e)
    PROVE  IInv' /\ Sequence!Put(e, Len(inside) + 1)
<1>1. mode = "vec" /\ mode' = "vec" /\ e \in held
  BY DEF push, Owns
<1>2. /\ newCap \in Nat /\ newCap > len /\ newCap >= cap
      /\ grown \in [0 .. newCap - 1 -> Elements \cup {Garbage}]
      /\ \A c \in 0 .. len - 1 : grown[c] = cells[c]
  BY <1>1, Grown
<1>3. cells' \in Memory' /\ cells'[len] = e
  BY <1>2 DEF push, Memory, IInv, Bounds
<1>4. \A c \in 0 .. len - 1 : cells'[c] = cells[c]
  BY <1>2 DEF push, IInv, Bounds
<1>5. Bounds'
  BY <1>1, <1>2 DEF IInv, Bounds, push
<1>6. \A c \in 0 .. len : cells'[c] \in Elements
  BY <1>1, <1>3, <1>4 DEF IInv, Bounds, Written, first, behind
<1>7. IInv'
  BY <1>1, <1>3, <1>5, <1>6 DEF IInv, Bounds, Written, first, behind, push
<1>8. inside = [k \in 1 .. len |-> cells[k - 1]] /\ Len(inside) = len
  BY <1>1 DEF inside, first, behind, IInv, Bounds
<1>9. inside' = [k \in 1 .. len + 1 |-> cells'[k - 1]]
  BY <1>1 DEF inside, first, behind, IInv, Bounds, push
<1>10. inside' = [j \in 1 .. len + 1 |->
                    IF j < len + 1 THEN inside[j]
                    ELSE IF j = len + 1 THEN e ELSE inside[j - 1]]
  BY <1>3, <1>4, <1>8, <1>9 DEF IInv, Bounds
<1>11. Len(inside) = len /\ held' = held \ {e} /\ dropped' = dropped
  BY <1>8 DEF push
<1> QED
  BY <1>1, <1>7, <1>10, <1>11 DEF Sequence!Put

LEMMA InsertPuts ==
    ASSUME IInv, NEW e \in Elements, NEW index \in 0 .. len, insert(e, index)
    PROVE  IInv' /\ Sequence!Put(e, index + 1)
<1>1. mode = "vec" /\ mode' = "vec" /\ e \in held
  BY DEF insert, Owns
<1>2. /\ newCap \in Nat /\ newCap > len /\ newCap >= cap
      /\ grown \in [0 .. newCap - 1 -> Elements \cup {Garbage}]
      /\ \A c \in 0 .. len - 1 : grown[c] = cells[c]
  BY <1>1, Grown
<1>3. len \in Nat /\ index \in Nat /\ index <= len
  BY DEF IInv, Bounds
<1> DEFINE moved == copied(grown, index, index + 1, len - index)
<1>4. cells' = [moved EXCEPT ![index] = e]
  BY DEF insert, movedUp
<1>5. moved = [c \in 0 .. newCap - 1 |->
                 IF index + 1 <= c /\ c < index + 1 + (len - index)
                 THEN grown[c - (index + 1) + index] ELSE grown[c]]
  BY <1>2 DEF copied
<1>6. \A c \in 0 .. newCap - 1 :
        moved[c] = IF index + 1 <= c /\ c < len + 1 THEN grown[c - 1] ELSE grown[c]
  BY <1>2, <1>3, <1>5
<1>7. moved \in [0 .. newCap - 1 -> Elements \cup {Garbage}]
  <2>1. \A c \in 0 .. newCap - 1 : moved[c] \in Elements \cup {Garbage}
    BY <1>2, <1>3, <1>6
  <2> QED
    BY <1>5, <2>1
<1>8. cells' \in Memory' /\ cells'[index] = e
  <2>1. cap' = newCap
    BY DEF insert
  <2>2. cells' \in [0 .. newCap - 1 -> Elements \cup {Garbage}] /\ cells'[index] = e
    BY <1>2, <1>3, <1>4, <1>7
  <2> QED
    BY <2>1, <2>2 DEF Memory
<1>9. /\ \A c \in 0 .. index - 1 : cells'[c] = cells[c]
      /\ \A c \in index + 1 .. len : cells'[c] = cells[c - 1]
  BY <1>2, <1>3, <1>4, <1>6, <1>7
<1>10. Bounds'
  BY <1>1, <1>2 DEF IInv, Bounds, insert
<1>11. \A c \in 0 .. len - 1 : cells[c] \in Elements
  BY <1>1 DEF IInv, Bounds, Written, first, behind
<1>12. \A c \in 0 .. len : cells'[c] \in Elements
  <2> SUFFICES ASSUME NEW c \in 0 .. len PROVE cells'[c] \in Elements
    OBVIOUS
  <2>1. CASE c < index
    BY <1>3, <1>9, <1>11, <2>1
  <2>2. CASE c = index
    BY <1>8, <2>2
  <2>3. CASE c > index
    BY <1>3, <1>9, <1>11, <2>3
  <2> QED
    BY <1>3, <2>1, <2>2, <2>3
<1>13. IInv'
  BY <1>1, <1>8, <1>10, <1>12 DEF IInv, Bounds, Written, first, behind, insert
<1>14. inside = [k \in 1 .. len |-> cells[k - 1]] /\ Len(inside) = len
  BY <1>1 DEF inside, first, behind, IInv, Bounds
<1>15. inside' = [k \in 1 .. len + 1 |-> cells'[k - 1]]
  BY <1>1 DEF inside, first, behind, IInv, Bounds, insert
<1>16. \A k \in 1 .. len + 1 :
         cells'[k - 1] = IF k < index + 1 THEN inside[k]
                         ELSE IF k = index + 1 THEN e ELSE inside[k - 1]
  BY <1>3, <1>8, <1>9, <1>14
<1>17. inside' = [j \in 1 .. len + 1 |->
                    IF j < index + 1 THEN inside[j]
                    ELSE IF j = index + 1 THEN e ELSE inside[j - 1]]
  BY <1>15, <1>16
<1>18. Len(inside) = len /\ held' = held \ {e} /\ dropped' = dropped
  BY <1>14 DEF insert
<1> QED
  BY <1>1, <1>13, <1>17, <1>18 DEF Sequence!Put

(* The three ways to take one element out: its place is place.             *)
LEMMA PopTakes == ASSUME IInv, pop PROVE IInv' /\ Sequence!Take(Len(inside))
<1>1. mode = "vec" /\ mode' = "vec" /\ len > 0 /\ len' = len - 1 /\ cells' = cells
  BY DEF pop
<1>2. inside = [k \in 1 .. len |-> cells[k - 1]] /\ Len(inside) = len
  BY <1>1 DEF inside, first, behind, IInv, Bounds
<1>3. inside' = [k \in 1 .. len - 1 |-> cells[k - 1]]
  BY <1>1 DEF inside, first, behind, IInv, Bounds, pop
<1>4. inside[len] = cells[len - 1] /\ cells[len - 1] \in Elements
  BY <1>1, <1>2 DEF IInv, Bounds, Written, first, behind
<1>5. held' = held \cup {inside[len]} /\ dropped' = dropped
  BY <1>4 DEF pop
<1>6. IInv'
  BY <1>1, <1>4, <1>5 DEF IInv, Bounds, Memory, Written, first, behind, pop
<1>7. inside' = [j \in 1 .. len - 1 |-> IF j < len THEN inside[j] ELSE inside[j + 1]]
  BY <1>1, <1>2, <1>3 DEF IInv, Bounds
<1>8. Len(inside) = len
  BY <1>2
<1> QED
  BY <1>5, <1>6, <1>7, <1>8 DEF Sequence!Take

LEMMA RemoveTakes ==
    ASSUME IInv, NEW index \in 0 .. len - 1, remove(index)
    PROVE  IInv' /\ index + 1 \in 1 .. Len(inside) /\ Sequence!Take(index + 1)
<1>1. /\ mode = "vec" /\ mode' = "vec" /\ len' = len - 1
      /\ len \in Nat /\ index \in Nat /\ index < len /\ len <= cap /\ cap \in Nat
      /\ cap' = cap
  BY DEF remove, IInv, Bounds
<1>2. cells' = [c \in 0 .. cap - 1 |->
                  IF index <= c /\ c < index + (len - index - 1)
                  THEN cells[c - index + (index + 1)] ELSE cells[c]]
  BY DEF remove, copied, IInv, Memory
<1>3. \A c \in 0 .. cap - 1 :
        cells'[c] = IF index <= c /\ c < len - 1 THEN cells[c + 1] ELSE cells[c]
  BY <1>1, <1>2
<1>4. \A c \in 0 .. cap - 1 : cells'[c] \in Elements \cup {Garbage}
  BY <1>1, <1>3 DEF IInv, Memory
<1>5. cells' \in Memory'
  BY <1>1, <1>2, <1>4 DEF Memory
<1>6. \A c \in 0 .. len - 1 : cells[c] \in Elements
  BY <1>1 DEF IInv, Written, first, behind
<1>7. \A c \in 0 .. len - 2 : cells'[c] \in Elements
  BY <1>1, <1>3, <1>6
<1>8. held' = held \cup {cells[index]} /\ dropped' = dropped
  BY DEF remove
<1>9. IInv'
  BY <1>1, <1>5, <1>6, <1>7, <1>8 DEF IInv, Bounds, Written, first, behind, remove
<1>10. inside = [k \in 1 .. len |-> cells[k - 1]] /\ Len(inside) = len
  BY <1>1 DEF inside, first, behind
<1>11. inside' = [k \in 1 .. len - 1 |-> cells'[k - 1]]
  BY <1>1 DEF inside, first, behind
<1>12. \A k \in 1 .. len - 1 :
         cells'[k - 1] = IF k < index + 1 THEN inside[k] ELSE inside[k + 1]
  <2>1. SUFFICES ASSUME NEW k \in 1 .. len - 1
                 PROVE  cells'[k - 1] = IF k < index + 1 THEN inside[k] ELSE inside[k + 1]
    OBVIOUS
  <2>2. /\ k - 1 \in 0 .. cap - 1 /\ k - 1 < len - 1 /\ (k - 1) + 1 = k
        /\ index <= k - 1 <=> ~(k < index + 1)
    BY <1>1
  <2>3. inside[k] = cells[k - 1] /\ inside[k + 1] = cells[k]
    BY <1>1, <1>10
  <2> QED
    BY <1>3, <2>2, <2>3
<1>13. inside' = [j \in 1 .. len - 1 |->
                    IF j < index + 1 THEN inside[j] ELSE inside[j + 1]]
  BY <1>11, <1>12
<1>14. Len(inside) = len /\ inside[index + 1] = cells[index]
  BY <1>1, <1>10
<1> QED
  BY <1>1, <1>8, <1>9, <1>13, <1>14 DEF Sequence!Take

(* From the front of the iterator, also by next_back when one is left.     *)
LEMMA NextTakes ==
    ASSUME IInv, next \/ (next_back /\ mode' # "undefined")
    PROVE  IInv' /\ Len(inside) \in Nat \ {0} /\ Sequence!Take(1)
<1>1. /\ mode = "iter" /\ mode' = "iter" /\ cells' = cells /\ cap' = cap
      /\ start \in Nat /\ end \in Nat /\ start < end /\ end <= cap /\ cap \in Nat
      /\ len' = len /\ len \in Nat
      /\ held' = held \cup {cells[start]} /\ dropped' = dropped
  BY DEF next, next_back, IInv, Bounds
<1>2. \/ start' = start + 1 /\ end' = end
      \/ start' = start /\ end' = end - 1 /\ start = end - 1
  BY <1>1 DEF next, next_back
<1>3. \A c \in start .. end - 1 : cells[c] \in Elements
  BY <1>1 DEF IInv, Written, first, behind
<1>4. IInv'
  BY <1>1, <1>2, <1>3 DEF IInv, Bounds, Memory, Written, first, behind
<1>5. inside = [k \in 1 .. end - start |-> cells[start + k - 1]]
  BY <1>1 DEF inside, first, behind
<1>6. Len(inside) = end - start /\ inside[1] = cells[start]
  BY <1>1, <1>5
<1>7. inside' = [k \in 1 .. end - start - 1 |-> cells[start + k]]
  <2>1. CASE start' = start + 1 /\ end' = end
    BY <1>1, <2>1 DEF inside, first, behind
  <2>2. CASE start' = start /\ end' = end - 1 /\ start = end - 1
    BY <1>1, <2>2 DEF inside, first, behind
  <2> QED
    BY <1>2, <2>1, <2>2
<1>8. inside' = [j \in 1 .. end - start - 1 |->
                   IF j < 1 THEN inside[j] ELSE inside[j + 1]]
  BY <1>1, <1>5, <1>7
<1> QED
  BY <1>1, <1>4, <1>6, <1>8 DEF Sequence!Take

(* A destructor drops what is inside and leaves nothing there.             *)
LEMMA DropsAll ==
    ASSUME IInv, dropVec \/ dropIter
    PROVE  IInv' /\ Sequence!DropAll
<1>1. /\ mode' = "gone" /\ cells' = cells /\ cap' = cap /\ held' = held
      /\ start \in Nat /\ end \in Nat /\ len \in Nat /\ cap \in Nat
      /\ start' = end' /\ end' = end /\ len' \in Nat /\ end <= cap
      /\ first \in Nat /\ behind \in Nat /\ first <= behind
  BY DEF dropVec, dropIter, IInv, Bounds, first, behind
<1>2. dropped' = dropped \cup {cells[c] : c \in first .. behind - 1}
  BY DEF dropVec, dropIter, first, behind
<1>3. IInv'
  BY <1>1 DEF IInv, Bounds, Memory, Written, first, behind
<1>4. inside' = <<>>
  BY <1>1 DEF inside, first, behind
<1>5. /\ Len(inside) = behind - first
      /\ \A k \in 1 .. behind - first : inside[k] = cells[first + k - 1]
  BY <1>1 DEF inside
<1>6. {inside[k] : k \in 1 .. Len(inside)} = {cells[c] : c \in first .. behind - 1}
  <2>1. ASSUME NEW c \in first .. behind - 1
        PROVE  cells[c] \in {inside[k] : k \in 1 .. Len(inside)}
    <3>1. c - first + 1 \in 1 .. Len(inside) /\ inside[c - first + 1] = cells[c]
      BY <1>1, <1>5
    <3> QED
      BY <3>1
  <2>2. ASSUME NEW k \in 1 .. Len(inside)
        PROVE  inside[k] \in {cells[c] : c \in first .. behind - 1}
    <3>1. first + k - 1 \in first .. behind - 1 /\ inside[k] = cells[first + k - 1]
      BY <1>1, <1>5
    <3> QED
      BY <3>1
  <2> QED
    BY <2>1, <2>2
<1> QED
  BY <1>1, <1>2, <1>3, <1>4, <1>6 DEF Sequence!DropAll

(* A panic drops what the caller had held.                                 *)
LEMMA PanicDrops ==
    ASSUME IInv, NEW e \in Elements, insertPanics(e)
    PROVE  IInv' /\ Sequence!DropHeld(e)
<1>1. inside' = inside
  BY DEF insertPanics, inside, first, behind
<1> QED
  BY <1>1 DEF insertPanics, Owns, IInv, Bounds, Memory, Written, first, behind,
              Sequence!DropHeld

(* Turning the vector into its iterator moves nothing.                     *)
LEMMA IntoIterKeeps == ASSUME IInv, into_iter PROVE IInv' /\ UNCHANGED Abstract
<1>1. /\ mode = "vec" /\ mode' = "iter" /\ cells' = cells /\ cap' = cap /\ len' = len
      /\ start' = 0 /\ end' = len /\ held' = held /\ dropped' = dropped
      /\ len \in Nat /\ cap \in Nat /\ len <= cap
  <2>1. len \in Nat /\ cap \in Nat /\ len <= cap
    BY DEF into_iter, IInv, Bounds
  <2>2. end' = len
    BY <2>1 DEF into_iter
  <2> QED
    BY <2>1, <2>2 DEF into_iter, owners
<1>2. first' = first /\ behind' = behind
  BY <1>1 DEF first, behind
<1>3. inside' = inside
  BY <1>1, <1>2 DEF inside
<1>4. IInv'
  BY <1>1, <1>2 DEF IInv, Bounds, Memory, Written
<1> QED
  BY <1>1, <1>3, <1>4 DEF Abstract

(* The behavior ends with the bounds still inside the memory.              *)
LEMMA TwiceOwned == ASSUME IInv, next_back PROVE IInv'
<1>1. /\ mode = "iter" /\ mode' \in {"iter", "undefined"}
      /\ cells' = cells /\ cap' = cap /\ len' = len /\ start' = start /\ end' = end - 1
      /\ start \in Nat /\ end \in Nat /\ start < end /\ end <= cap
      /\ len \in Nat /\ cap \in Nat /\ held' = held \cup {cells[start]}
  BY DEF next_back, IInv, Bounds
<1>2. \A c \in start .. end - 1 : cells[c] \in Elements
  BY <1>1 DEF IInv, Written, first, behind
<1>3. first' = start /\ behind' = end - 1
  BY <1>1 DEF first, behind
<1> QED
  BY <1>1, <1>2, <1>3 DEF IInv, Bounds, Memory, Written

(* Every step of the code is a step of the sequence or none.               *)
LEMMA StepsRefine ==
    ASSUME IInv, [Next]_vars
    PROVE  IInv' /\ (mode' = "undefined" \/ [Sequence!Next]_Abstract)
<1> SUFFICES IInv' /\ (mode' = "undefined" \/ Sequence!Next \/ UNCHANGED Abstract)
  OBVIOUS
<1>1. Len(inside) = behind - first /\ Len(inside) \in Nat
  BY DEF IInv, Bounds, inside, first, behind
<1>2. ASSUME NEW e \in Elements, push(e) PROVE IInv' /\ Sequence!Next
  BY <1>1, <1>2, PushPuts DEF Sequence!Next
<1>3. ASSUME NEW e \in Elements, NEW index \in 0 .. len, insert(e, index)
      PROVE  IInv' /\ Sequence!Next
  <2>1. IInv' /\ Sequence!Put(e, index + 1)
    BY <1>3, InsertPuts
  <2>2. index + 1 \in 1 .. Len(inside) + 1
    BY <1>1, <1>3 DEF insert, Owns, IInv, Bounds, first, behind
  <2> QED
    BY <2>1, <2>2 DEF Sequence!Next
<1>4. ASSUME NEW e \in Elements, insertPanics(e) PROVE IInv' /\ Sequence!Next
  BY <1>4, PanicDrops DEF Sequence!Next
<1>5. ASSUME NEW index \in 0 .. len - 1, remove(index) PROVE IInv' /\ Sequence!Next
  BY <1>5, RemoveTakes DEF Sequence!Next
<1>6. CASE pop
  <2>1. behind - first > 0
    BY <1>6 DEF pop, IInv, Bounds, first, behind
  <2>2. Len(inside) \in 1 .. Len(inside)
    BY <1>1, <2>1
  <2> QED
    BY <1>6, <2>2, PopTakes DEF Sequence!Next
<1>7. CASE dropVec \/ dropIter
  BY <1>7, DropsAll DEF Sequence!Next
<1>8. CASE into_iter
  BY <1>8, IntoIterKeeps
<1>9. CASE next \/ (next_back /\ mode' # "undefined")
  <2>1. 1 \in 1 .. Len(inside)
    BY <1>9, NextTakes
  <2> QED
    BY <1>9, <2>1, NextTakes DEF Sequence!Next
<1>10. CASE next_back /\ mode' = "undefined"
  BY <1>10, TwiceOwned
<1>11. CASE UNCHANGED vars
  <2>1. inside' = inside /\ first' = first /\ behind' = behind
    BY <1>11 DEF vars, owners, inside, first, behind
  <2> QED
    BY <1>11, <2>1 DEF vars, owners, IInv, Bounds, Memory, Written, Abstract
<1> QED
  BY <1>2, <1>3, <1>4, <1>5, <1>6, <1>7, <1>8, <1>9, <1>10, <1>11 DEF Next

-----------------------------------------------------------------------------
(* No operation leaves the bounds of the memory or reads a cell that was   *)
(* not written, however often the memory has grown (vec.rs, raw_vec.rs).   *)
THEOREM MemorySafe == Spec => []IInv
<1>1. Init => IInv
  BY InitIInv
<1>2. IInv /\ [Next]_vars => IInv'
  BY StepsRefine
<1> QED
  BY <1>1, <1>2, PTL DEF Spec

(* The vector and its iterator are a sequence whose elements have one      *)
(* owner each, until a next_back that finds more than one (intoiter.rs:42).*)
THEOREM Refinement == Spec => ImplementsSequence
<1>1. Init => Sequence!Init
  <2>1. ASSUME Init PROVE inside = <<>>
    BY <2>1 DEF Init, inside, first, behind
  <2> QED
    BY <2>1 DEF Init, Sequence!Init
<1>2. IInv /\ [Next]_vars => [mode' = "undefined" \/ Sequence!Next]_<<inside, held, dropped>>
  BY StepsRefine DEF Abstract
<1> QED
  BY <1>1, <1>2, MemorySafe, PTL DEF Spec, ImplementsSequence

-----------------------------------------------------------------------------
(* The executor.  A delay that has a waker has a timer thread until its    *)
(* time has come, and only the task that is polled has a delay without one.*)
Shape ==
    /\ now \in Nat /\ task \in Tasks
    /\ epc \in {"recv", "run", "poll", "check"}
    /\ scheduled \in Seq(Tasks)
    /\ at \in [Tasks -> Nat]
    /\ delay \in [Tasks -> [when : Int, waker : BOOLEAN]]
    /\ timers \subseteq [task : Tasks, when : Int]
    /\ \A t \in Tasks : at[t] = 0 =>
          /\ t \notin Mini!ToSet(scheduled) /\ (epc # "recv" => task # t)
          /\ \A tm \in timers : tm.task # t
WakeInv ==
    /\ Shape
    /\ status = "running" =>
          /\ epc = "run" => delay[task] = Mini!NoDelay
          /\ epc \in {"poll", "check"} => delay[task] # Mini!NoDelay
          /\ epc = "check" => delay[task].waker
          /\ \A t \in Tasks : delay[t].waker /\ now < delay[t].when =>
                [task |-> t, when |-> delay[t].when] \in timers
    /\ Mini!NoLostWakeup

LEMMA QueueFacts ==
    ASSUME NEW q \in Seq(Tasks)
    PROVE  /\ Len(q) \in Nat /\ DOMAIN q = 1 .. Len(q) /\ \A k \in 1 .. Len(q) : q[k] \in Tasks
           /\ Mini!ToSet(q) = {q[k] : k \in 1 .. Len(q)}
BY DEF Mini!ToSet

LEMMA QueueTakes ==
    ASSUME NEW q \in Seq(Tasks), q # <<>>
    PROVE  /\ Head(q) \in Tasks /\ Tail(q) \in Seq(Tasks)
           /\ Head(q) = q[1] /\ Len(Tail(q)) = Len(q) - 1
           /\ \A k \in 1 .. Len(q) - 1 : Tail(q)[k] = q[k + 1]
           /\ \A t \in Mini!ToSet(q) : t = Head(q) \/ t \in Mini!ToSet(Tail(q))
           /\ Head(q) \in Mini!ToSet(q) /\ Mini!ToSet(Tail(q)) \subseteq Mini!ToSet(q)
<1>1. /\ Head(q) \in Tasks /\ Tail(q) \in Seq(Tasks)
      /\ Head(q) = q[1] /\ Len(Tail(q)) = Len(q) - 1
      /\ \A k \in 1 .. Len(q) - 1 : Tail(q)[k] = q[k + 1]
  OBVIOUS
<1>2. ASSUME NEW k \in 1 .. Len(q), k # 1 PROVE q[k] \in Mini!ToSet(Tail(q))
  <2>1. k - 1 \in 1 .. Len(q) - 1 /\ Tail(q)[k - 1] = q[k]
    BY <1>1, <1>2, QueueFacts
  <2> QED
    BY <1>1, <2>1, QueueFacts
<1>3. Len(q) \in Nat /\ Len(q) > 0 /\ Mini!ToSet(q) = {q[k] : k \in 1 .. Len(q)}
  <2>1. Len(q) \in Nat /\ Len(q) > 0
    OBVIOUS
  <2> QED
    BY <2>1, QueueFacts
<1>4. Mini!ToSet(Tail(q)) = {Tail(q)[k] : k \in 1 .. Len(q) - 1}
  BY <1>1, QueueFacts
<1>5. 1 \in 1 .. Len(q) /\ \A k \in 1 .. Len(q) - 1 : k + 1 \in 1 .. Len(q)
  BY <1>3
<1>6. ASSUME NEW k \in 1 .. Len(q) - 1 PROVE Tail(q)[k] \in Mini!ToSet(q)
  <2>1. Tail(q)[k] = q[k + 1] /\ k + 1 \in 1 .. Len(q)
    BY <1>1, <1>5
  <2> QED
    BY <1>3, <2>1
<1>7. Head(q) \in Mini!ToSet(q) /\ Mini!ToSet(Tail(q)) \subseteq Mini!ToSet(q)
  BY <1>1, <1>3, <1>4, <1>5, <1>6
<1>8. ASSUME NEW k \in 1 .. Len(q) PROVE q[k] = Head(q) \/ q[k] \in Mini!ToSet(Tail(q))
  BY <1>1, <1>2
<1> QED
  BY <1>1, <1>3, <1>7, <1>8

LEMMA QueueAdds ==
    ASSUME NEW q \in Seq(Tasks), NEW t \in Tasks
    PROVE  /\ Append(q, t) \in Seq(Tasks) /\ Len(Append(q, t)) = Len(q) + 1
           /\ Append(q, t)[Len(q) + 1] = t
           /\ \A k \in 1 .. Len(q) : Append(q, t)[k] = q[k]
           /\ Mini!ToSet(Append(q, t)) = Mini!ToSet(q) \cup {t}
<1>1. /\ Append(q, t) \in Seq(Tasks) /\ Len(Append(q, t)) = Len(q) + 1
      /\ Append(q, t)[Len(q) + 1] = t
      /\ \A k \in 1 .. Len(q) : Append(q, t)[k] = q[k]
  OBVIOUS
<1>2. Len(q) \in Nat /\ 1 .. Len(q) + 1 = 1 .. Len(q) \cup {Len(q) + 1}
  OBVIOUS
<1>3. {Append(q, t)[k] : k \in 1 .. Len(q) + 1} = {q[k] : k \in 1 .. Len(q)} \cup {t}
  BY <1>1, <1>2
<1>4. /\ Mini!ToSet(Append(q, t)) = {Append(q, t)[k] : k \in 1 .. Len(q) + 1}
      /\ Mini!ToSet(q) = {q[k] : k \in 1 .. Len(q)}
  BY <1>1, QueueFacts
<1> QED
  BY <1>1, <1>3, <1>4

\* What the statements of the program are.
LEMMA StatementFacts ==
    ASSUME WakeInv, NEW op, Mini!AtStatement(op)
    PROVE  /\ status = "running" /\ epc = "run"
           /\ at[task] \in DOMAIN Program[task]
           /\ op = "spawn" => Mini!Statement.task \in Tasks
           /\ op = "delay" => Mini!Statement.dur \in Nat
BY ProgramFits DEF WakeInv, Shape, Mini!AtStatement, Mini!Completed, Mini!Statement, Mini!TokioAssumption

LEMMA WakeKeeps ==
    ASSUME WakeInv, Mini!Next
    PROVE  WakeInv'
<1> USE DEF WakeInv, Shape
<1>1. CASE Mini!tick
  <2>1. /\ now' = now + 1
        /\ UNCHANGED <<scheduled, status, epc, task, at, delay, timers>>
    BY <1>1 DEF Mini!tick
  <2>2. \A t \in Tasks : delay[t].when \in Int
    OBVIOUS
  <2> QED
    BY <2>1, <2>2 DEF Mini!NoLostWakeup
<1>2. CASE Mini!recv
  <2>1. /\ status = "running" /\ epc = "recv" /\ scheduled # <<>>
        /\ task' = Head(scheduled) /\ scheduled' = Tail(scheduled)
        /\ UNCHANGED <<now, at, delay, timers>>
    BY <1>2 DEF Mini!recv
  <2>2. /\ task' \in Tasks /\ scheduled' \in Seq(Tasks)
        /\ Mini!ToSet(scheduled') \subseteq Mini!ToSet(scheduled)
        /\ task' \in Mini!ToSet(scheduled)
        /\ \A t \in Mini!ToSet(scheduled) : t = task' \/ t \in Mini!ToSet(scheduled')
    BY <2>1, QueueTakes
  <2>3. \/ status' = "panicked" /\ epc' = epc
        \/ /\ status' = "running"
           /\ epc' = IF delay[task'] = Mini!NoDelay THEN "run" ELSE "poll"
    BY <1>2 DEF Mini!recv
  <2> QED
    BY <2>1, <2>2, <2>3 DEF Mini!NoLostWakeup
<1>3. CASE Mini!task_spawn
  <2>1. PICK u \in Tasks :
            /\ status = "running" /\ epc = "run"
            /\ scheduled' = Append(scheduled, u)
            /\ at' = [at EXCEPT ![task] = @ + 1, ![u] = 1]
            /\ UNCHANGED <<now, status, epc, task, delay, timers>>
    BY <1>3, StatementFacts DEF Mini!task_spawn
  <2>2. scheduled' \in Seq(Tasks) /\ Mini!ToSet(scheduled') = Mini!ToSet(scheduled) \cup {u}
    BY <2>1, QueueAdds
  <2>3. at' \in [Tasks -> Nat] /\ \A t \in Tasks : at'[t] = 0 => at[t] = 0 /\ t # u
    BY <2>1
  <2> QED
    BY <2>1, <2>2, <2>3 DEF Mini!NoLostWakeup
<1>4. CASE Mini!println \/ Mini!exit
  <2>1. /\ UNCHANGED <<now, scheduled, epc, task, delay, timers>>
        /\ status' = status \/ status' = "exited"
        /\ at' = at \/ at' = [at EXCEPT ![task] = @ + 1]
    BY <1>4 DEF Mini!println, Mini!exit
  <2>2. at' \in [Tasks -> Nat] /\ \A t \in Tasks : at'[t] = 0 => at[t] = 0
    BY <2>1
  <2> QED
    BY <2>1, <2>2 DEF Mini!NoLostWakeup
<1>5. CASE Mini!delay__
  <2>1. PICK d \in Nat :
            /\ status = "running" /\ epc = "run" /\ epc' = "poll"
            /\ delay' = [delay EXCEPT ![task] = [when |-> now + d, waker |-> FALSE]]
            /\ UNCHANGED <<now, status, scheduled, task, at, timers>>
    BY <1>5, StatementFacts DEF Mini!delay__
  <2>2. [when |-> now + d, waker |-> FALSE] # Mini!NoDelay
    BY DEF Mini!NoDelay
  <2>3. /\ delay' \in [Tasks -> [when : Int, waker : BOOLEAN]]
        /\ delay'[task] = [when |-> now + d, waker |-> FALSE]
        /\ \A t \in Tasks : t # task => delay'[t] = delay[t]
    BY <2>1
  <2> QED
    BY <2>1, <2>2, <2>3 DEF Mini!NoLostWakeup
<1>6. CASE Mini!complete
  <2>1. /\ status = "running" /\ epc = "run" /\ epc' = "recv"
        /\ UNCHANGED <<now, status, scheduled, task, at, delay, timers>>
    BY <1>6 DEF Mini!complete
  <2> QED
    BY <2>1 DEF Mini!NoLostWakeup
<1>7. CASE Mini!poll
  <2>1. /\ status = "running" /\ epc = "poll" /\ epc' = "check"
        /\ UNCHANGED <<now, status, scheduled, task, at>>
    BY <1>7 DEF Mini!poll
  <2>2. CASE delay[task].waker /\ UNCHANGED <<delay, timers>>
    BY <2>1, <2>2 DEF Mini!NoLostWakeup
  <2>3. CASE /\ delay' = [delay EXCEPT ![task].waker = TRUE]
             /\ timers' = timers \cup {[task |-> task, when |-> delay[task].when]}
    <3>1. /\ delay' \in [Tasks -> [when : Int, waker : BOOLEAN]]
          /\ delay'[task].when = delay[task].when /\ delay'[task].waker
          /\ \A t \in Tasks : t # task => delay'[t] = delay[t]
      BY <2>3
    <3>2. delay'[task] # Mini!NoDelay
      BY <3>1 DEF Mini!NoDelay
    <3>3. timers' \subseteq [task : Tasks, when : Int]
      BY <2>3
    <3> QED
      BY <2>1, <2>3, <3>1, <3>2, <3>3 DEF Mini!NoLostWakeup
  <2> QED
    BY <1>7, <2>2, <2>3 DEF Mini!poll
<1>8. CASE Mini!check
  <2>1. /\ status = "running" /\ epc = "check"
        /\ UNCHANGED <<now, status, scheduled, task, timers>>
    BY <1>8 DEF Mini!check
  <2>2. CASE /\ delay' = [delay EXCEPT ![task] = Mini!NoDelay]
             /\ at' = [at EXCEPT ![task] = @ + 1] /\ epc' = "run"
    <3>1. /\ delay' \in [Tasks -> [when : Int, waker : BOOLEAN]]
          /\ delay'[task] = Mini!NoDelay /\ ~delay'[task].waker
          /\ \A t \in Tasks : t # task => delay'[t] = delay[t]
      BY <2>2 DEF Mini!NoDelay
    <3>2. at' \in [Tasks -> Nat] /\ \A t \in Tasks : at'[t] = 0 => at[t] = 0
      BY <2>2
    <3> QED
      BY <2>1, <2>2, <3>1, <3>2 DEF Mini!NoLostWakeup
  <2>3. CASE now < delay[task].when /\ epc' = "recv" /\ UNCHANGED <<delay, at>>
    BY <2>1, <2>3 DEF Mini!NoLostWakeup
  <2> QED
    BY <1>8, <2>2, <2>3 DEF Mini!check
<1>9. ASSUME NEW tm \in timers, Mini!wake_by_ref(tm) PROVE WakeInv'
  <2>1. /\ status = "running" /\ now >= tm.when /\ tm \in [task : Tasks, when : Int]
        /\ timers' = timers \ {tm} /\ scheduled' = Append(scheduled, tm.task)
        /\ UNCHANGED <<now, status, epc, task, at, delay>>
    BY <1>9 DEF Mini!wake_by_ref
  <2>2. /\ scheduled' \in Seq(Tasks)
        /\ Mini!ToSet(scheduled') = Mini!ToSet(scheduled) \cup {tm.task}
    BY <2>1, QueueAdds
  <2>3. \A t \in Tasks : now < delay[t].when /\ [task |-> t, when |-> delay[t].when] \in timers
                          => [task |-> t, when |-> delay[t].when] \in timers'
    BY <2>1
  <2>4. \A t \in Tasks : [task |-> t, when |-> delay[t].when] \in timers
                          => \/ [task |-> t, when |-> delay[t].when] \in timers'
                             \/ t = tm.task
    BY <2>1
  <2> QED
    BY <2>1, <2>2, <2>3, <2>4 DEF Mini!NoLostWakeup
<1>10. CASE UNCHANGED Mini!vars
  BY <1>10 DEF Mini!vars, Mini!NoLostWakeup
<1> QED
  BY <1>1, <1>2, <1>3, <1>4, <1>5, <1>6, <1>7, <1>8, <1>9, <1>10
     DEF Mini!Next, Mini!ExecutorStep, Mini!ended

(* As long as the executor has been on time, a task is in one place at     *)
(* most: in the channel, with a timer, or polled; its timer cannot fire    *)
(* while it is polled; and in the channel it is ready to make progress.    *)
Polled(t) == epc # "recv" /\ task = t
Ahead(t) == at[t] \in 1 .. Len(Program[t])
NoTwice(q) == \A j, k \in DOMAIN q : q[j] = q[k] => j = k
Places ==
    /\ NoTwice(scheduled)
    /\ \A tm, other \in timers : tm.task = other.task => tm = other
    /\ \A t \in Mini!ToSet(scheduled) : /\ Ahead(t) /\ ~Polled(t)
                                        /\ \A tm \in timers : tm.task # t
    /\ \A tm \in timers : Ahead(tm.task)
    /\ epc # "recv" => at[task] > 0
    /\ epc \in {"poll", "check"} => Ahead(task)
Times ==
    /\ \A t \in Mini!ToSet(scheduled) : delay[t] # Mini!NoDelay =>
          delay[t].waker /\ now >= delay[t].when
    /\ \A tm \in timers : /\ delay[tm.task] = [when |-> tm.when, waker |-> TRUE]
                          /\ Polled(tm.task) => epc = "check" /\ now < tm.when
    /\ epc = "poll" => (delay[task].waker <=> now >= delay[task].when)
Unborn ==
    /\ \A t \in Tasks : at[t] = 0 => delay[t] = Mini!NoDelay
    /\ \A t \in Tasks : \A k \in DOMAIN Program[t] :
          Program[t][k].op = "spawn" /\ at[t] <= k => at[Program[t][k].task] = 0
OnTime ==
    /\ status # "panicked"
    /\ status = "running" => Places /\ Times /\ Unborn
PromptInv == late \in Nat /\ (late = 0 => OnTime)

LEMMA TakesOnce ==
    ASSUME NEW q \in Seq(Tasks), q # <<>>, NoTwice(q)
    PROVE  NoTwice(Tail(q)) /\ Head(q) \notin Mini!ToSet(Tail(q))
<1>1. /\ Tail(q) \in Seq(Tasks) /\ Head(q) = q[1] /\ Len(Tail(q)) = Len(q) - 1
      /\ \A k \in 1 .. Len(q) - 1 : Tail(q)[k] = q[k + 1]
  BY QueueTakes
<1>2. /\ Len(q) \in Nat /\ Len(q) > 0 /\ DOMAIN q = 1 .. Len(q)
      /\ DOMAIN Tail(q) = 1 .. Len(q) - 1
  OBVIOUS
<1>3. \A k \in 1 .. Len(q) - 1 : k + 1 \in DOMAIN q /\ k + 1 # 1 /\ k \in Int
  BY <1>2
<1>4. 1 \in DOMAIN q
  BY <1>2
<1>5. ASSUME NEW j \in 1 .. Len(q) - 1, NEW k \in 1 .. Len(q) - 1, Tail(q)[j] = Tail(q)[k]
      PROVE  j = k
  <2>1. j + 1 = k + 1
    BY <1>1, <1>3, <1>5 DEF NoTwice
  <2> QED
    BY <1>3, <2>1
<1>6. ASSUME NEW k \in 1 .. Len(q) - 1 PROVE Tail(q)[k] # Head(q)
  BY <1>1, <1>3, <1>4 DEF NoTwice
<1>7. Mini!ToSet(Tail(q)) = {Tail(q)[k] : k \in 1 .. Len(q) - 1}
  BY <1>1, QueueFacts
<1> QED
  BY <1>2, <1>5, <1>6, <1>7 DEF NoTwice

LEMMA AddsOnce ==
    ASSUME NEW q \in Seq(Tasks), NEW t \in Tasks, t \notin Mini!ToSet(q), NoTwice(q)
    PROVE  NoTwice(Append(q, t))
<1>1. /\ Len(Append(q, t)) = Len(q) + 1 /\ Append(q, t)[Len(q) + 1] = t
      /\ \A k \in 1 .. Len(q) : Append(q, t)[k] = q[k]
  BY QueueAdds
<1>2. /\ Len(q) \in Nat /\ DOMAIN q = 1 .. Len(q) /\ DOMAIN Append(q, t) = 1 .. Len(q) + 1
  OBVIOUS
<1>3. \A k \in 1 .. Len(q) : q[k] # t
  BY QueueFacts
<1>4. \A k \in 1 .. Len(q) + 1 : k \in 1 .. Len(q) \/ k = Len(q) + 1
  BY <1>2
<1> QED
  BY <1>1, <1>2, <1>3, <1>4 DEF NoTwice

LEMMA ProgramFacts ==
    ASSUME NEW t \in Tasks
    PROVE  /\ Len(Program[t]) \in Nat /\ Len(Program[t]) > 0
           /\ DOMAIN Program[t] = 1 .. Len(Program[t])
           /\ \A k \in DOMAIN Program[t] :
                 /\ Program[t][k].op = "spawn" => Program[t][k].task \in Tasks
                 /\ Program[t][k].op = "delay" => /\ Program[t][k].dur \in Nat
                                                  /\ Program[t][k].dur > 0
BY ProgramFits DEF Mini!TokioAssumption, Mini!DelayAssumption

LEMMA PromptKeeps ==
    ASSUME WakeInv, PromptInv, Mini!Next
    PROVE  PromptInv'
<1>1. late' \in Nat /\ (late' = 0 => late = 0)
  BY DEF PromptInv, Mini!Next, Mini!tick, Mini!ExecutorStep, Mini!recv, Mini!task_spawn,
         Mini!println, Mini!exit, Mini!delay__, Mini!complete, Mini!poll, Mini!check,
         Mini!wake_by_ref, Mini!ended, Mini!vars
<1>2. SUFFICES ASSUME OnTime, late = 0, late' = 0 PROVE OnTime'
  BY <1>1 DEF PromptInv
<1>3. CASE UNCHANGED Mini!vars
  BY <1>2, <1>3 DEF Mini!vars, OnTime, Places, Times, Unborn, Polled, Ahead
<1>4. CASE status # "running"
  BY <1>2, <1>3, <1>4 DEF Mini!Next, Mini!tick, Mini!ExecutorStep, Mini!recv, Mini!AtStatement,
         Mini!task_spawn, Mini!println, Mini!exit, Mini!delay__, Mini!complete, Mini!poll,
         Mini!check, Mini!wake_by_ref, Mini!ended
<1>5. SUFFICES ASSUME status = "running", Places, Times, Unborn PROVE OnTime'
  BY <1>2, <1>4 DEF OnTime
<1>t. Shape
  BY DEF WakeInv
<1> USE <1>t DEF Shape, OnTime
<1>6. CASE Mini!tick
  <2>1. /\ epc = "recv" /\ scheduled = <<>> /\ now' = now + 1
        /\ UNCHANGED <<scheduled, status, epc, task, at, delay, timers>>
    BY <1>2, <1>6 DEF Mini!tick, Mini!Idle
  <2>2. Mini!ToSet(scheduled) = {}
    <3>1. Len(scheduled) = 0 /\ 1 .. 0 = {}
      BY <2>1
    <3> QED
      BY <3>1, QueueFacts
  <2> QED
    BY <1>5, <2>1, <2>2 DEF Places, Times, Unborn, Polled, Ahead
<1>7. CASE Mini!recv
  <2>1. /\ epc = "recv" /\ scheduled # <<>>
        /\ task' = Head(scheduled) /\ scheduled' = Tail(scheduled)
        /\ UNCHANGED <<now, at, delay, timers>>
        /\ \/ Mini!Completed(task')
           \/ /\ status' = status
              /\ epc' = IF delay[task'] = Mini!NoDelay THEN "run" ELSE "poll"
    BY <1>7 DEF Mini!recv
  <2>2. /\ task' \in Tasks /\ scheduled' \in Seq(Tasks) /\ task' = scheduled[1]
        /\ Len(scheduled') = Len(scheduled) - 1
        /\ \A k \in 1 .. Len(scheduled) - 1 : scheduled'[k] = scheduled[k + 1]
        /\ task' \in Mini!ToSet(scheduled) /\ Mini!ToSet(scheduled') \subseteq Mini!ToSet(scheduled)
    BY <2>1, QueueTakes
  <2>3. ~Mini!Completed(task')
    <3>1. at[task'] \in 1 .. Len(Program[task'])
      BY <1>5, <2>2 DEF Places, Ahead
    <3> QED
      BY <2>1, <2>2, <3>1, ProgramFacts DEF Mini!Completed
  <2>4. NoTwice(scheduled') /\ task' \notin Mini!ToSet(scheduled')
    BY <1>5, <2>1, TakesOnce DEF Places
  <2>7. Places'
    BY <1>5, <2>1, <2>2, <2>3, <2>4, ProgramFacts DEF Places, Polled, Ahead
  <2>8. Times'
    BY <1>5, <2>1, <2>2, <2>3, <2>4 DEF Places, Times, Polled, Mini!NoDelay
  <2> QED
    BY <1>5, <2>1, <2>3, <2>7, <2>8 DEF Unborn
<1>8. CASE Mini!task_spawn
  <2>1. /\ epc = "run" /\ at[task] \in DOMAIN Program[task]
        /\ Program[task][at[task]].op = "spawn"
    BY <1>8, StatementFacts DEF Mini!task_spawn, Mini!AtStatement, Mini!Statement
  <2>2. PICK u : u = Program[task][at[task]].task
    OBVIOUS
  <2>3. /\ scheduled' = Append(scheduled, u)
        /\ at' = [at EXCEPT ![task] = @ + 1, ![u] = 1]
        /\ UNCHANGED <<now, status, epc, task, delay, timers>>
    BY <1>8, <2>2 DEF Mini!task_spawn, Mini!Statement
  <2>4. u \in Tasks /\ at[u] = 0 /\ at[task] # 0
    BY <1>5, <2>1, <2>2, ProgramFacts DEF Unborn
  <2>5. /\ u # task /\ u \notin Mini!ToSet(scheduled) /\ \A tm \in timers : tm.task # u
        /\ delay[u] = Mini!NoDelay
    BY <1>5, <2>4 DEF Unborn
  <2>6. /\ scheduled' \in Seq(Tasks) /\ Len(scheduled') = Len(scheduled) + 1
        /\ scheduled'[Len(scheduled) + 1] = u
        /\ \A k \in 1 .. Len(scheduled) : scheduled'[k] = scheduled[k]
        /\ Mini!ToSet(scheduled') = Mini!ToSet(scheduled) \cup {u}
    BY <2>3, <2>4, QueueAdds
  <2>7. /\ at'[u] = 1 /\ at'[task] = at[task] + 1 /\ at[task] \in Nat
        /\ \A t \in Tasks : t # u /\ t # task => at'[t] = at[t]
    BY <2>3, <2>4, <2>5
  <2>8. NoTwice(scheduled')
    BY <1>5, <2>3, <2>4, <2>5, AddsOnce DEF Places
  <2>9. Places'
    <3>1. Ahead(u)'
      BY <2>4, <2>7, ProgramFacts DEF Ahead
    <3>2. \A t \in Tasks : t # u /\ t # task => (Ahead(t)' <=> Ahead(t))
      BY <2>7 DEF Ahead
    <3>3. \A t \in Tasks : Polled(t)' <=> Polled(t)
      BY <2>3 DEF Polled
    <3>4. Mini!ToSet(scheduled) \subseteq Tasks
      BY QueueFacts
    <3>5. \A t \in Mini!ToSet(scheduled) : t # task /\ t # u
      BY <1>5, <2>1, <2>5 DEF Places, Polled
    <3>6. \A tm \in timers : tm.task \in Tasks /\ tm.task # task /\ tm.task # u
      BY <1>5, <2>1, <2>5 DEF Times, Polled
    <3>7. ~Polled(u)
      BY <2>5 DEF Polled
    <3> QED
      BY <1>5, <2>1, <2>3, <2>4, <2>5, <2>6, <2>7, <2>8, <3>1, <3>2, <3>3, <3>4, <3>5,
         <3>6, <3>7 DEF Places
  <2>10. Times'
    BY <1>5, <2>1, <2>3, <2>5, <2>6 DEF Times, Polled
  <2>11. Unborn'
    <3>1. ASSUME NEW t \in Tasks, at'[t] = 0 PROVE at[t] = 0
      <4>1. t # u /\ t # task
        BY <2>7, <3>1
      <4> QED
        BY <2>7, <3>1, <4>1
    <3>2. ASSUME NEW t \in Tasks, NEW k \in DOMAIN Program[t],
                 Program[t][k].op = "spawn", at'[t] <= k
          PROVE  at'[Program[t][k].task] = 0
      <4>1. k \in Nat /\ k > 0 /\ at[t] \in Nat /\ Program[t][k].task \in Tasks
        BY <3>2, ProgramFacts
      <4>2. at[t] <= k /\ ~(t = task /\ k = at[task])
        <5>1. CASE t = task
          BY <2>7, <3>2, <4>1, <5>1
        <5>2. CASE t = u
          BY <2>4, <2>5, <3>2, <4>1, <5>2
        <5>3. CASE t # task /\ t # u
          BY <2>7, <3>2, <5>3
        <5> QED
          BY <5>1, <5>2, <5>3
      <4>3. at[Program[t][k].task] = 0
        BY <1>5, <3>2, <4>2 DEF Unborn
      <4>4. Program[t][k].task # u
        BY <2>1, <2>2, <3>2, <4>2, ProgramFits DEF Mini!SpawnAssumption
      <4>5. Program[t][k].task # task
        BY <2>4, <4>3
      <4> QED
        BY <2>7, <4>1, <4>3, <4>4, <4>5
    <3> QED
      BY <1>5, <2>3, <3>1, <3>2 DEF Unborn
  <2> QED
    BY <1>5, <2>3, <2>9, <2>10, <2>11
<1>9. CASE Mini!println
  <2>1. /\ epc = "run" /\ at[task] \in DOMAIN Program[task]
        /\ Program[task][at[task]].op = "print"
        /\ at' = [at EXCEPT ![task] = @ + 1]
        /\ UNCHANGED <<now, status, scheduled, epc, task, delay, timers>>
    BY <1>9, StatementFacts DEF Mini!println, Mini!AtStatement, Mini!Statement
  <2>2. at'[task] = at[task] + 1 /\ \A t \in Tasks : t # task => at'[t] = at[t]
    BY <2>1
  <2>3. Places'
    <3>1. \A t \in Mini!ToSet(scheduled) : t \in Tasks /\ t # task
      BY <1>5, <2>1, QueueFacts DEF Places, Polled
    <3>2. \A tm \in timers : tm.task \in Tasks /\ tm.task # task
      BY <1>5, <2>1 DEF Times, Polled
    <3> QED
      BY <1>5, <2>1, <2>2, <3>1, <3>2 DEF Places, Polled, Ahead
  <2>4. Times'
    BY <1>5, <2>1 DEF Times, Polled
  <2>5. Unborn'
    <3>1. \A t \in Tasks : at[t] \in Nat /\ (at'[t] = 0 <=> at[t] = 0) /\ at'[t] >= at[t]
      BY <2>1, <2>2, ProgramFacts
    <3>2. \A t \in Tasks : \A k \in DOMAIN Program[t] :
             k \in Nat /\ (Program[t][k].op = "spawn" => Program[t][k].task \in Tasks)
      BY ProgramFacts
    <3>3. at' \in [Tasks -> Nat]
      BY <2>1
    <3> QED
      BY <1>5, <2>1, <3>1, <3>2, <3>3 DEF Unborn
  <2> QED
    BY <1>5, <2>1, <2>3, <2>4, <2>5
<1>10. CASE Mini!exit
  BY <1>10 DEF Mini!exit
<1>11. CASE Mini!delay__
  <2>1. /\ epc = "run" /\ at[task] \in DOMAIN Program[task]
        /\ Program[task][at[task]].op = "delay"
    BY <1>11, StatementFacts DEF Mini!delay__, Mini!AtStatement, Mini!Statement
  <2>2. PICK d : d = Program[task][at[task]].dur
    OBVIOUS
  <2>3. d \in Nat /\ d > 0
    BY <2>1, <2>2, ProgramFacts
  <2>4. /\ epc' = "poll"
        /\ delay' = [delay EXCEPT ![task] = [when |-> now + d, waker |-> FALSE]]
        /\ UNCHANGED <<now, status, scheduled, task, at, timers>>
    BY <1>11, <2>2 DEF Mini!delay__, Mini!Statement
  <2>5. /\ delay'[task] = [when |-> now + d, waker |-> FALSE]
        /\ \A t \in Tasks : t # task => delay'[t] = delay[t]
    BY <2>4
  <2>6. Ahead(task)
    BY <2>1, ProgramFacts DEF Ahead
  <2>7. Places'
    BY <1>5, <2>1, <2>4, <2>6 DEF Places, Polled, Ahead
  <2>8. \A t \in Mini!ToSet(scheduled) : t \in Tasks /\ t # task
    BY <1>5, <2>1, QueueFacts DEF Places, Polled
  <2>9. \A tm \in timers : tm.task \in Tasks /\ tm.task # task
    BY <1>5, <2>1 DEF Times, Polled
  <2>10. Times'
    BY <1>5, <2>1, <2>3, <2>4, <2>5, <2>8, <2>9 DEF Times, Polled
  <2>11. Unborn'
    BY <1>5, <2>4, <2>5, <2>6, ProgramFacts DEF Unborn, Ahead
  <2> QED
    BY <1>5, <2>4, <2>7, <2>10, <2>11
<1>12. CASE Mini!complete
  <2>1. /\ epc = "run" /\ epc' = "recv"
        /\ UNCHANGED <<now, status, scheduled, task, at, delay, timers>>
    BY <1>12 DEF Mini!complete
  <2> QED
    BY <1>5, <2>1 DEF Places, Times, Unborn, Polled, Ahead
<1>13. CASE Mini!poll
  <2>1. /\ epc = "poll" /\ epc' = "check"
        /\ UNCHANGED <<now, status, scheduled, task, at>>
    BY <1>13 DEF Mini!poll
  <2>2. \A t \in Mini!ToSet(scheduled) : t \in Tasks /\ t # task
    BY <1>5, <2>1, QueueFacts DEF Places, Polled
  <2>3. \A tm \in timers : tm.task \in Tasks /\ tm.task # task
    BY <1>5, <2>1 DEF Times, Polled
  <2>4. CASE delay[task].waker /\ UNCHANGED <<delay, timers>>
    BY <1>5, <2>1, <2>3, <2>4 DEF Places, Times, Unborn, Polled, Ahead
  <2>5. CASE /\ ~delay[task].waker /\ delay' = [delay EXCEPT ![task].waker = TRUE]
             /\ timers' = timers \cup {[task |-> task, when |-> delay[task].when]}
    <3>1. /\ delay'[task] = [when |-> delay[task].when, waker |-> TRUE]
          /\ \A t \in Tasks : t # task => delay'[t] = delay[t]
      BY <2>5
    <3>2. delay[task].when \in Int /\ now < delay[task].when
      BY <1>5, <2>1, <2>5 DEF Times
    <3>3. Places'
      BY <1>5, <2>1, <2>2, <2>3, <2>5 DEF Places, Polled, Ahead
    <3>4. Times'
      <4>1. \A t \in Mini!ToSet(scheduled') : delay'[t] # Mini!NoDelay =>
               delay'[t].waker /\ now' >= delay'[t].when
        BY <1>5, <2>1, <2>2, <3>1 DEF Times
      <4>2. \A tm \in timers : /\ delay'[tm.task] = [when |-> tm.when, waker |-> TRUE]
                                /\ ~Polled(tm.task)'
        BY <1>5, <2>1, <2>3, <3>1 DEF Times, Polled
      <4>3. PICK new : /\ new = [task |-> task, when |-> delay[task].when]
                       /\ timers' = timers \cup {new}
        BY <2>5
      <4>4. /\ delay'[new.task] = [when |-> new.when, waker |-> TRUE]
            /\ epc' = "check" /\ now' < new.when
        BY <2>1, <3>1, <3>2, <4>3
      <4> QED
        BY <2>1, <4>1, <4>2, <4>3, <4>4 DEF Times
    <3>5. Unborn'
      BY <1>5, <2>1, <3>1 DEF Unborn, Places
    <3> QED
      BY <1>5, <2>1, <3>3, <3>4, <3>5
  <2> QED
    BY <1>13, <2>4, <2>5 DEF Mini!poll
<1>14. CASE Mini!check
  <2>1. /\ epc = "check" /\ UNCHANGED <<now, status, scheduled, task, timers>>
    BY <1>14 DEF Mini!check
  <2>2. \A t \in Mini!ToSet(scheduled) : t \in Tasks /\ t # task
    BY <1>5, <2>1, QueueFacts DEF Places, Polled
  <2>3. CASE /\ now >= delay[task].when
             /\ delay' = [delay EXCEPT ![task] = Mini!NoDelay]
             /\ at' = [at EXCEPT ![task] = @ + 1] /\ epc' = "run"
    <3>0. now \in Int /\ delay[task].when \in Int
      OBVIOUS
    <3>1. ASSUME NEW tm \in timers PROVE tm.task \in Tasks /\ tm.task # task
      <4>1. tm.task \in Tasks /\ tm.when \in Int
        OBVIOUS
      <4>2. delay[tm.task] = [when |-> tm.when, waker |-> TRUE] /\ (Polled(tm.task) => now < tm.when)
        BY <1>5 DEF Times
      <4>3. delay[tm.task].when = tm.when
        BY <4>2
      <4>4. Polled(tm.task) => delay[task].when = tm.when
        BY <4>3 DEF Polled
      <4>5. ~Polled(tm.task)
        BY <2>3, <3>0, <4>1, <4>2, <4>4
      <4> QED
        BY <2>1, <4>1, <4>5 DEF Polled
    <3>2. /\ at'[task] = at[task] + 1 /\ at[task] > 0
          /\ \A t \in Tasks : t # task => at'[t] = at[t] /\ delay'[t] = delay[t]
      BY <1>5, <2>1, <2>3 DEF Places
    <3>3. Places'
      BY <1>5, <2>1, <2>2, <2>3, <3>1, <3>2 DEF Places, Polled, Ahead
    <3>4. Times'
      BY <1>5, <2>1, <2>2, <2>3, <3>1, <3>2 DEF Times, Polled
    <3>5. Unborn'
      <4>1. \A t \in Tasks : at[t] \in Nat /\ (at'[t] = 0 <=> at[t] = 0) /\ at'[t] >= at[t]
        BY <3>2
      <4>2. \A t \in Tasks : \A k \in DOMAIN Program[t] :
               k \in Nat /\ (Program[t][k].op = "spawn" => Program[t][k].task \in Tasks)
        BY ProgramFacts
      <4>3. at' \in [Tasks -> Nat]
        BY <2>3
      <4>4. \A t \in Tasks : at'[t] = 0 => delay'[t] = Mini!NoDelay
        BY <1>5, <3>2, <4>1 DEF Unborn
      <4> QED
        BY <1>5, <4>1, <4>2, <4>3, <4>4 DEF Unborn
    <3> QED
      BY <1>5, <2>1, <3>3, <3>4, <3>5
  <2>4. CASE now < delay[task].when /\ epc' = "recv" /\ UNCHANGED <<delay, at>>
    <3>1. \A t \in Mini!ToSet(scheduled) : ~Polled(t)'
      BY <2>1, <2>4 DEF Polled
    <3> QED
      BY <1>5, <2>1, <2>4, <3>1 DEF Places, Times, Unborn, Polled, Ahead
  <2> QED
    BY <1>14, <2>3, <2>4 DEF Mini!check
<1>15. ASSUME NEW tm \in timers, Mini!wake_by_ref(tm) PROVE OnTime'
  <2>1. /\ now >= tm.when /\ tm \in [task : Tasks, when : Int]
        /\ timers' = timers \ {tm} /\ scheduled' = Append(scheduled, tm.task)
        /\ UNCHANGED <<now, status, epc, task, at, delay>>
    BY <1>15 DEF Mini!wake_by_ref
  <2>2. PICK u \in Tasks : u = tm.task
    BY <2>1
  <2>3. /\ ~Polled(u) /\ Ahead(u) /\ u \notin Mini!ToSet(scheduled)
        /\ delay[u].waker /\ now >= delay[u].when
        /\ \A other \in timers' : other.task # u
    <3>1. delay[u] = [when |-> tm.when, waker |-> TRUE]
      BY <1>5, <2>2 DEF Times
    <3>2. ~(now < tm.when) /\ now \in Int /\ tm.when \in Int
      BY <2>1
    <3>3. ~Polled(u)
      BY <1>5, <2>2, <3>2 DEF Times
    <3>4. Ahead(u) /\ u \notin Mini!ToSet(scheduled)
      BY <1>5, <2>2 DEF Places
    <3>5. \A other \in timers' : other.task # u
      BY <1>5, <2>1, <2>2 DEF Places
    <3>6. delay[u].waker /\ now >= delay[u].when
      BY <2>1, <3>1
    <3> QED
      BY <3>3, <3>4, <3>5, <3>6
  <2>4. /\ scheduled' \in Seq(Tasks) /\ Len(scheduled') = Len(scheduled) + 1
        /\ scheduled'[Len(scheduled) + 1] = u
        /\ \A k \in 1 .. Len(scheduled) : scheduled'[k] = scheduled[k]
        /\ Mini!ToSet(scheduled') = Mini!ToSet(scheduled) \cup {u}
    BY <2>1, <2>2, QueueAdds
  <2>5. NoTwice(scheduled')
    BY <1>5, <2>1, <2>2, <2>3, AddsOnce DEF Places
  <2>6. \A t : (Polled(t)' <=> Polled(t)) /\ (Ahead(t)' <=> Ahead(t))
    BY <2>1 DEF Polled, Ahead
  <2>7. Places'
    BY <1>5, <2>1, <2>3, <2>4, <2>5, <2>6 DEF Places
  <2>8. Times'
    BY <1>5, <2>1, <2>3, <2>4, <2>6 DEF Times
  <2> QED
    BY <1>5, <2>1, <2>7, <2>8 DEF Unborn
<1> QED
  BY <1>3, <1>6, <1>7, <1>8, <1>9, <1>10, <1>11, <1>12, <1>13, <1>14, <1>15
     DEF Mini!Next, Mini!ExecutorStep, Mini!ended

-----------------------------------------------------------------------------
LEMMA TokioStarts ==
    ASSUME MCInit
    PROVE  WakeInv /\ PromptInv
<1>1. /\ now = 0 /\ late = 0 /\ scheduled = <<Root>> /\ status = "running"
      /\ epc = "recv" /\ task = Root /\ timers = {}
      /\ at = [t \in Tasks |-> IF t = Root THEN 1 ELSE 0]
      /\ delay = [t \in Tasks |-> Mini!NoDelay]
  BY DEF MCInit, Mini!Init
<1>2. Root \in Tasks
  BY ProgramFits DEF Mini!TokioAssumption
<1>3. scheduled \in Seq(Tasks) /\ DOMAIN scheduled = {1} /\ scheduled[1] = Root
  BY <1>1, <1>2
<1>4. Mini!ToSet(scheduled) = {Root}
  <2>1. Len(scheduled) = 1
    BY <1>1
  <2> QED
    BY <1>3, <2>1, QueueFacts
<1>5. /\ Mini!NoDelay \in [when : Int, waker : BOOLEAN] /\ Mini!NoDelay.waker = FALSE
  BY DEF Mini!NoDelay
<1>6. Shape
  BY <1>1, <1>2, <1>3, <1>4, <1>5 DEF Shape
<1>7. WakeInv
  BY <1>1, <1>5, <1>6 DEF WakeInv, Mini!NoLostWakeup
<1>8. Places
  BY <1>1, <1>2, <1>3, <1>4, ProgramFacts DEF Places, NoTwice, Polled, Ahead
<1>9. Times
  BY <1>1, <1>2, <1>4 DEF Times
<1>10. Unborn
  BY <1>1, <1>2, ProgramFits, ProgramFacts DEF Unborn, Mini!SpawnAssumption
<1> QED
  BY <1>1, <1>7, <1>8, <1>9, <1>10 DEF PromptInv, OnTime

LEMMA TokioInvariant == MCSpec => [](WakeInv /\ PromptInv)
<1>1. MCInit => WakeInv /\ PromptInv
  BY TokioStarts
<1>2. WakeInv /\ PromptInv /\ [MCNext]_allVars => (WakeInv /\ PromptInv)'
  <2> SUFFICES ASSUME WakeInv, PromptInv, [MCNext]_allVars PROVE WakeInv' /\ PromptInv'
    OBVIOUS
  <2>1. CASE Mini!Next
    BY <2>1, WakeKeeps, PromptKeeps
  <2>2. CASE UNCHANGED tokioVars
    <3>1. UNCHANGED <<now, late, scheduled, status, epc, task, at, delay, timers>>
      BY <2>2 DEF tokioVars
    <3>2. WakeInv'
      BY <3>1 DEF WakeInv, Shape, Mini!NoLostWakeup
    <3>3. PromptInv'
      BY <3>1 DEF PromptInv, OnTime, Places, NoTwice, Times, Unborn, Polled, Ahead
    <3> QED
      BY <3>2, <3>3
  <2>3. Mini!Next \/ UNCHANGED tokioVars
    BY DEF MCNext, InVec, Tokio, Resolving, allVars
  <2> QED
    BY <2>1, <2>2, <2>3
<1> QED
  BY <1>1, <1>2, PTL DEF MCSpec

\* A task of mini_tokio that awaits a delay will be polled again: its timer is
\* running, or it is in the channel, or it is polled (mini_tokio.rs:268).
THEOREM NoTaskHangs == MCSpec => []NoLostWakeup
<1>1. WakeInv /\ PromptInv => NoLostWakeup
  BY DEF WakeInv, NoLostWakeup
<1> QED
  BY <1>1, TokioInvariant, PTL

\* As long as the clock has not gone on while the executor had work, no task
\* is polled that has completed, however late the timer threads are
\* (mini_tokio.rs:224, 242).
THEOREM PromptIsSafe == MCSpec => []PromptNeverPanics
<1>1. WakeInv /\ PromptInv => PromptNeverPanics
  BY DEF PromptInv, OnTime, PromptNeverPanics, Mini!PromptNeverPanics,
         Mini!NeverPolledAfterCompletion
<1> QED
  BY <1>1, TokioInvariant, PTL

-----------------------------------------------------------------------------
(* The resolver.  What its data is made of.                                *)
Codes == {"garbage", "REFUSED", "NXDOMAIN", "NOERROR"}
Names == Questions \cup UNION {UNION {w.ns[d] : d \in DOMAIN w.ns} : w \in Worlds}
Served == UNION {DOMAIN w.ns : w \in Worlds}
Addrs == {<<"root">>, NoAddr} \cup UNION {{w.addr[h] : h \in DOMAIN w.addr} : w \in Worlds}
Packets == [rescode : Codes, addr : Addrs, ns : SUBSET (Served \X Names), glue : SUBSET Names]
Calls == [qname : Names, ns : Addrs, r : Packets \cup {<<>>}]

DnsShape ==
    /\ zones \in Worlds
    /\ asked \in [Clients -> Questions \cup {<<>>}]
    /\ queue \in Seq(Clients) /\ \A k \in 1 .. Len(queue) : asked[queue[k]] # <<>>
    /\ answers \in [Clients -> Packets \cup {<<>>}]
    /\ \A c \in Clients : answers[c] # <<>> => asked[c] # <<>>
    /\ stack \in Seq(Calls)
    /\ pc \in {"wait", "send", "recv", "return", "ended"}
    /\ pc = "wait" => stack = <<>>
    /\ pc \in {"send", "recv", "return"} =>
          stack # <<>> /\ queue # <<>> /\ stack[1].qname = asked[queue[1]]
    /\ \A i \in 1 .. Len(stack) - 1 : stack[i].r \in Packets
    /\ pc = "return" => packet \in Packets

(* As long as no datagram came twice there is one at most, the query of    *)
(* the call at the top or the reply to it.                                 *)
NetTrue ==
    \/ net = Dns!EmptyBag
    \/ /\ pc = "recv"
       /\ \/ net = Dns!SetToBag({Dns!Query(Dns!Top.qname, Dns!Top.ns)})
          \/ net = Dns!SetToBag({Dns!Response(Dns!Reply(zones, Dns!Top.ns, Dns!Top.qname))})

(* A packet says of a name what its host has, or neither; a caller has had *)
(* neither.                                                                *)
Speaks(n, p) ==
    /\ p.addr # NoAddr => n \in DOMAIN zones.addr /\ p.addr = zones.addr[n]
    /\ p.rescode = "NXDOMAIN" => n \notin DOMAIN zones.addr
Settled(p) == p.addr # NoAddr \/ p.rescode = "NXDOMAIN"
CallsTrue ==
    /\ \A i \in 1 .. Len(stack) - 1 : ~Settled(stack[i].r)
    /\ pc = "return" => Speaks(Dns!Top.qname, packet)
    /\ \A c \in Clients : answers[c] # <<>> => Speaks(asked[c], answers[c])

(* Names that lead to one another: each zone above one has servers, and if *)
(* none of these is glued, their names are among them and have addresses.  *)
Leads(names) ==
    \A n \in names : \A d \in Dns!Above(zones, n) :
        /\ zones.ns[d] # {}
        /\ \A h \in zones.ns[d] \cap zones.glue : h \in DOMAIN zones.addr
        /\ zones.ns[d] \cap zones.glue = {} =>
              zones.ns[d] \subseteq names /\ zones.ns[d] \subseteq DOMAIN zones.addr

(* Of such a name a server is always asked that has a zone above it, and   *)
(* if its address must be looked up, that call is of such a name too.      *)
AsksServer(call) ==
    \E d \in Dns!ZonesOf(zones, call.ns) : Dns!Within(call.qname, d)
LooksUp(caller, callee) ==
    /\ callee.qname \in DOMAIN zones.addr
    /\ \E d \in Dns!Above(zones, caller.qname) : callee.qname \in zones.ns[d]
CallsLead(names) ==
    /\ \A i \in 1 .. Len(stack) : stack[i].qname \in names => AsksServer(stack[i])
    /\ \A i \in 1 .. Len(stack) - 1 : stack[i].qname \in names =>
          stack[i + 1].qname \in names /\ LooksUp(stack[i], stack[i + 1])
    /\ pc = "return" /\ Dns!Top.qname \in names => Settled(packet)
    /\ \A c \in Clients : answers[c] # <<>> /\ asked[c] \in names => Settled(answers[c])

DnsNow(names) ==
    DnsShape /\ NetTrue /\ CallsTrue /\ (Leads(names) => CallsLead(names))
DnsInv == copies \in Nat /\ (copies = 0 => \A names : DnsNow(names))

LEMMA LeastNatural ==
    ASSUME NEW S \in SUBSET Nat, S # {}
    PROVE  \E x \in S : \A y \in S : x <= y
<1>1. PICK x \in S : \A y \in S : ~ (<<y, x>> \in OpToRel(<, Nat))
  BY NatLessThanWellFounded, WFMin
<1>2. \A y \in S : ~(y < x)
  BY <1>1 DEF OpToRel
<1> QED
  BY <1>2

\* A function of a set to itself can be applied again and again.
Applied(g, x, n, f) ==
    DOMAIN f = 0 .. n /\ f[0] = x /\ \A k \in 1 .. n : f[k] = g[f[k - 1]]

LEMMA AppliedOften ==
    ASSUME NEW g, NEW x, NEW n \in Nat
    PROVE  \E f : Applied(g, x, n, f)
<1> DEFINE Bad == {m \in Nat : ~ \E f : Applied(g, x, m, f)}
<1>1. SUFFICES ASSUME Bad # {} PROVE FALSE
  OBVIOUS
<1>2. PICK m \in Bad : \A l \in Bad : m <= l
  BY <1>1, LeastNatural
<1>3. m # 0
  <2> DEFINE f0 == [k \in 0 .. 0 |-> x]
  <2>1. Applied(g, x, 0, f0)
    BY DEF Applied
  <2> QED
    BY <2>1
<1>4. m - 1 \in Nat /\ m - 1 \notin Bad
  BY <1>2, <1>3
<1>5. PICK f : Applied(g, x, m - 1, f)
  BY <1>4
<1> DEFINE h == [k \in 0 .. m |-> IF k = m THEN g[f[m - 1]] ELSE f[k]]
<1>6. Applied(g, x, m, h)
  <2>1. DOMAIN h = 0 .. m /\ h[0] = x
    BY <1>3, <1>4, <1>5 DEF Applied
  <2>2. ASSUME NEW k \in 1 .. m PROVE h[k] = g[h[k - 1]]
    <3>1. h[k - 1] = f[k - 1]
      BY <1>4
    <3>2. CASE k = m
      BY <3>1, <3>2
    <3>3. CASE k # m
      BY <1>4, <1>5, <3>1, <3>3 DEF Applied
    <3> QED
      BY <3>2, <3>3
  <2> QED
    BY <2>1, <2>2 DEF Applied
<1> QED
  BY <1>2, <1>6

LEMMA AppliedAlike ==
    ASSUME NEW g, NEW x, NEW m \in Nat, NEW n \in Nat, NEW f, NEW h,
           Applied(g, x, m, f), Applied(g, x, n, h), NEW k \in Nat, k <= m, k <= n
    PROVE  f[k] = h[k]
<1> DEFINE Bad == {l \in Nat : l <= m /\ l <= n /\ f[l] # h[l]}
<1>1. SUFFICES ASSUME Bad # {} PROVE FALSE
  OBVIOUS
<1>2. PICK l \in Bad : \A j \in Bad : l <= j
  BY <1>1, LeastNatural
<1>3. l # 0
  BY <1>2 DEF Applied
<1>4. l - 1 \in Nat /\ l - 1 \notin Bad /\ l \in 1 .. m /\ l \in 1 .. n
  BY <1>2, <1>3
<1>5. f[l] = g[f[l - 1]] /\ h[l] = g[h[l - 1]]
  BY <1>4 DEF Applied
<1>6. f[l - 1] = h[l - 1]
  BY <1>4
<1> QED
  BY <1>2, <1>5, <1>6

Iterated(g, x, F) ==
    /\ F = [k \in Nat |-> F[k]]
    /\ \A k \in Nat : F[k] = IF k = 0 THEN x ELSE g[F[k - 1]]

LEMMA Iterates ==
    ASSUME NEW g, NEW x
    PROVE  \E F : Iterated(g, x, F)
<1> DEFINE A == [n \in Nat |-> CHOOSE f : Applied(g, x, n, f)]
           F == [n \in Nat |-> A[n][n]]
<1>1. \A n \in Nat : Applied(g, x, n, A[n])
  BY AppliedOften
<1>2. F[0] = x
  BY <1>1 DEF Applied
<1>3. ASSUME NEW k \in Nat, k # 0 PROVE F[k] = g[F[k - 1]]
  <2>1. k - 1 \in Nat /\ k \in 1 .. k /\ k - 1 <= k
    BY <1>3
  <2>2. A[k][k] = g[A[k][k - 1]]
    BY <1>1, <2>1 DEF Applied
  <2>3. A[k][k - 1] = A[k - 1][k - 1]
    BY <1>1, <2>1, AppliedAlike
  <2> QED
    BY <2>1, <2>2, <2>3
<1> HIDE DEF A
<1>4. F = [k \in Nat |-> F[k]]
  OBVIOUS
<1> HIDE DEF F
<1>5. Iterated(g, x, F)
  BY <1>2, <1>3, <1>4 DEF Iterated
<1> QED
  BY <1>5

LEMMA FoundUnfolds ==
    ASSUME NEW k \in Nat
    PROVE  Dns!FoundIn[k] =
              IF k = 0 THEN {}
              ELSE {n \in Dns!AllNames :
                      \A d \in Dns!Above(zones, n) : Dns!ZoneFound(d, Dns!FoundIn[k - 1])}
<1> DEFINE Next1(S) == {n \in Dns!AllNames :
                          \A d \in Dns!Above(zones, n) : Dns!ZoneFound(d, S)}
           g == [S \in SUBSET Dns!AllNames |-> Next1(S)]
           Is(F) == F = [j \in Nat |-> IF j = 0 THEN {} ELSE Next1(F[j - 1])]
<1> HIDE DEF g
<1>0. PICK F : Iterated(g, {}, F)
  BY Iterates
<1>1. /\ F = [j \in Nat |-> F[j]]
      /\ \A j \in Nat : F[j] = IF j = 0 THEN {} ELSE g[F[j - 1]]
  BY <1>0 DEF Iterated
<1>2. \A j \in Nat : F[j] \in SUBSET Dns!AllNames
  <2>1. \A S \in SUBSET Dns!AllNames : g[S] = Next1(S) /\ g[S] \in SUBSET Dns!AllNames
    BY DEF g
  <2> DEFINE Bad == {j \in Nat : F[j] \notin SUBSET Dns!AllNames}
  <2>2. SUFFICES ASSUME Bad # {} PROVE FALSE
    OBVIOUS
  <2>3. PICK l \in Bad : \A j \in Bad : l <= j
    BY <2>2, LeastNatural
  <2>4. l # 0
    BY <1>1, <2>3
  <2>5. l - 1 \in Nat /\ l - 1 \notin Bad
    BY <2>3, <2>4
  <2>6. F[l] = g[F[l - 1]]
    BY <1>1, <2>4
  <2> QED
    BY <2>1, <2>3, <2>5, <2>6
<1>3. Is(F)
  <2>1. ASSUME NEW j \in Nat, j # 0 PROVE g[F[j - 1]] = Next1(F[j - 1])
    <3>1. F[j - 1] \in SUBSET Dns!AllNames
      BY <1>2, <2>1
    <3> QED
      BY <3>1 DEF g
  <2> DEFINE G == [j \in Nat |-> IF j = 0 THEN {} ELSE Next1(F[j - 1])]
  <2> HIDE DEF Next1
  <2>2. \A j \in Nat : F[j] = G[j]
    BY <1>1, <2>1
  <2>3. F = [j \in Nat |-> F[j]] /\ G = [j \in Nat |-> G[j]]
    BY <1>1
  <2> HIDE DEF G
  <2>4. F = G
    BY <2>2, <2>3
  <2> QED
    BY <2>4 DEF G
<1>4. Dns!FoundIn = CHOOSE f : Is(f)
  BY DEF Dns!FoundIn
<1>5. Is(Dns!FoundIn)
  <2> HIDE DEF Is
  <2> QED
    BY <1>3, <1>4
<1> HIDE DEF Next1
<1>6. Dns!FoundIn[k] = IF k = 0 THEN {} ELSE Next1(Dns!FoundIn[k - 1])
  BY <1>5
<1> QED
  BY <1>6 DEF Next1

FoundNames == UNION {Dns!FoundIn[k] : k \in Nat}

LEMMA FoundLeads == Leads(FoundNames) /\ Dns!Found \subseteq FoundNames
<1>1. Dns!Found \subseteq FoundNames
  BY DEF FoundNames, Dns!Found
<1>2. ASSUME NEW n \in FoundNames, NEW d \in Dns!Above(zones, n)
      PROVE  /\ zones.ns[d] # {}
             /\ \A h \in zones.ns[d] \cap zones.glue : h \in DOMAIN zones.addr
             /\ zones.ns[d] \cap zones.glue = {} =>
                   zones.ns[d] \subseteq FoundNames /\ zones.ns[d] \subseteq DOMAIN zones.addr
  <2>1. PICK k \in Nat : n \in Dns!FoundIn[k]
    BY DEF FoundNames
  <2>2. k # 0 /\ k - 1 \in Nat
    <3>1. Dns!FoundIn[0] = {}
      BY FoundUnfolds
    <3>2. k # 0
      BY <2>1, <3>1
    <3> QED
      BY <3>2
  <2>3. Dns!ZoneFound(d, Dns!FoundIn[k - 1])
    BY <2>1, <2>2, FoundUnfolds
  <2>4. Dns!FoundIn[k - 1] \subseteq FoundNames
    BY <2>2 DEF FoundNames
  <2> QED
    BY <2>3, <2>4 DEF Dns!ZoneFound
<1> QED
  BY <1>1, <1>2 DEF Leads

LEMMA NamesMeasured ==
    /\ \A n \in Names : Len(n) \in Nat
    /\ \A w \in Worlds : /\ \A d \in DOMAIN w.ns : Len(d) \in Nat /\ w.ns[d] \subseteq Names
                         /\ \A h \in DOMAIN w.addr : w.addr[h] # NoAddr /\ w.addr[h] \in Addrs
                         /\ w.glue \subseteq DOMAIN w.addr
    /\ <<>> \notin Questions /\ Questions \subseteq Names /\ NoAddr \in Addrs /\ <<"root">> \in Addrs
BY ZonesFit DEF Dns!ZonesAssumption, Names, Addrs

\* What a name server says.
RefersTo(p, w, d) == p.ns = {<<d, h>> : h \in w.ns[d]} /\ p.glue = w.ns[d] \cap w.glue
LEMMA ReplyFacts ==
    ASSUME NEW w \in Worlds, NEW a, NEW n \in Names, NEW p, p = Dns!Reply(w, a, n)
    PROVE  /\ p \in Packets
           /\ p.addr # NoAddr => n \in DOMAIN w.addr /\ p.addr = w.addr[n]
           /\ p.rescode = "NXDOMAIN" => n \notin DOMAIN w.addr
           /\ \/ p.rescode = "garbage"
              \/ p.rescode = "NXDOMAIN"
              \/ p.rescode = "NOERROR" /\ p.addr # NoAddr
              \/ /\ ~Settled(p) /\ p.rescode = "NOERROR"
                 /\ \E d \in Dns!Above(w, n) : RefersTo(p, w, d)
              \/ /\ ~Settled(p) /\ p.rescode = "REFUSED" /\ p.ns = {}
                 /\ ~ \E d \in Dns!ZonesOf(w, a) : Dns!Within(n, d)
<1> DEFINE Mine == {d \in Dns!ZonesOf(w, a) : Dns!Within(n, d)}
           Below == {d \in Dns!Above(w, n) : \A m \in Mine : Len(d) > Len(m)}
           Least == CHOOSE d \in Below : \A e \in Below : Len(d) <= Len(e)
<1>1. CASE a \in w.garbled
  <2>1. p = Dns!Packet("garbage", NoAddr, {}, {})
    BY <1>1 DEF Dns!Reply
  <2> QED
    BY <2>1, NamesMeasured DEF Dns!Packet, Packets, Codes
<1>2. CASE a \notin w.garbled /\ Mine = {}
  <2>1. p = Dns!Packet("REFUSED", NoAddr, {}, {})
    BY <1>2 DEF Dns!Reply
  <2> QED
    BY <1>2, <2>1, NamesMeasured DEF Dns!Packet, Packets, Codes, Settled
<1>3. CASE a \notin w.garbled /\ Mine # {} /\ Below # {}
  <2>1. p = Dns!Referral(w, Least)
    BY <1>3 DEF Dns!Reply
  <2>2. Least \in Below
    <3>1. \A d \in Below : Len(d) \in Nat
      BY NamesMeasured DEF Dns!Above
    <3>2. PICK l \in {Len(d) : d \in Below} : \A j \in {Len(d) : d \in Below} : l <= j
      BY <1>3, <3>1, LeastNatural
    <3>3. \E d \in Below : \A e \in Below : Len(d) <= Len(e)
      BY <3>2
    <3> QED
      BY <3>3
  <2>3. PICK d \in Dns!Above(w, n) : d = Least
    BY <2>2
  <2>4. d \in DOMAIN w.ns /\ d \in Served
    BY <2>3 DEF Dns!Above, Served
  <2>5. p = [rescode |-> "NOERROR", addr |-> NoAddr, ns |-> {<<d, h>> : h \in w.ns[d]},
             glue |-> w.ns[d] \cap w.glue]
    BY <2>1, <2>3 DEF Dns!Referral, Dns!Packet
  <2>6. {<<d, h>> : h \in w.ns[d]} \in SUBSET (Served \X Names) /\ w.ns[d] \cap w.glue \in SUBSET Names
    BY <2>4, NamesMeasured
  <2>7. p \in Packets
    BY <2>5, <2>6, NamesMeasured DEF Packets, Codes
  <2>8. p.rescode = "NOERROR" /\ p.addr = NoAddr /\ RefersTo(p, w, d)
    BY <2>5 DEF RefersTo
  <2> QED
    BY <2>3, <2>7, <2>8 DEF Settled
<1>4. CASE a \notin w.garbled /\ Mine # {} /\ Below = {}
  <2>1. p = IF n \in DOMAIN w.addr THEN Dns!Packet("NOERROR", w.addr[n], {}, {})
                                  ELSE Dns!Packet("NXDOMAIN", NoAddr, {}, {})
    BY <1>4 DEF Dns!Reply
  <2> QED
    BY <2>1, NamesMeasured DEF Dns!Packet, Packets, Codes
<1> QED
  BY <1>1, <1>2, <1>3, <1>4

LEMMA BagFacts ==
    ASSUME NEW m
    PROVE  /\ Dns!BagToSet(Dns!SetToBag({m})) = {m} /\ Dns!BagToSet(Dns!EmptyBag) = {}
           /\ Dns!\oplus(Dns!EmptyBag, Dns!SetToBag({m})) = Dns!SetToBag({m})
           /\ Dns!\ominus(Dns!SetToBag({m}), Dns!SetToBag({m})) = Dns!EmptyBag
<1>1. Dns!BagToSet(Dns!SetToBag({m})) = {m} /\ Dns!BagToSet(Dns!EmptyBag) = {}
  BY DEF Dns!BagToSet, Dns!SetToBag, Dns!EmptyBag
<1>2. Dns!\oplus(Dns!EmptyBag, Dns!SetToBag({m})) = Dns!SetToBag({m})
  BY DEF Dns!EmptyBag, Dns!SetToBag, Dns!\oplus
<1>3. Dns!\ominus(Dns!SetToBag({m}), Dns!SetToBag({m})) = Dns!EmptyBag
  BY DEF Dns!EmptyBag, Dns!SetToBag, Dns!\ominus
<1> QED
  BY <1>1, <1>2, <1>3

\* Every name ends with the empty one, whose servers the root servers are.
LEMMA RootServes ==
    ASSUME NEW call, Len(call.qname) \in Nat, call.ns = <<"root">>
    PROVE  AsksServer(call)
<1>1. <<>> \in Dns!ZonesOf(zones, call.ns)
  BY DEF Dns!ZonesOf
<1>2. SubSeq(call.qname, Len(call.qname) + 1, Len(call.qname)) = <<>>
  OBVIOUS
<1>3. Len(<<>>) = 0
  OBVIOUS
<1>4. Dns!Within(call.qname, <<>>)
  BY <1>2, <1>3 DEF Dns!Within
<1> QED
  BY <1>1, <1>4 DEF AsksServer

LEMMA StackSet ==
    ASSUME NEW s \in Seq(Calls), s # <<>>, NEW call \in Calls,
           NEW t, t = [s EXCEPT ![Len(s)] = call]
    PROVE  /\ t \in Seq(Calls) /\ Len(t) = Len(s) /\ t # <<>>
           /\ t[Len(s)] = call
           /\ \A i \in 1 .. Len(s) - 1 : t[i] = s[i]
<1>1. Len(s) \in Nat /\ Len(s) > 0 /\ DOMAIN s = 1 .. Len(s)
  OBVIOUS
<1>2. Len(s) \in 1 .. Len(s)
  BY <1>1
<1>3. t \in Seq(Calls) /\ Len(t) = Len(s)
  OBVIOUS
<1>4. t[Len(s)] = call
  BY <1>1, <1>2
<1>5. \A n \in Nat : \A k \in 1 .. n - 1 : k \in 1 .. n /\ k # n
  OBVIOUS
<1>6. ASSUME NEW i \in 1 .. Len(s) - 1 PROVE t[i] = s[i]
  <2>1. i \in DOMAIN s /\ i # Len(s)
    BY <1>1, <1>5
  <2> QED
    BY <2>1
<1>7. t # <<>>
  BY <1>1, <1>3
<1> QED
  BY <1>3, <1>4, <1>6, <1>7

LEMMA StackTop ==
    ASSUME NEW s \in Seq(Calls), s # <<>>
    PROVE  /\ Len(s) \in Nat /\ Len(s) > 0 /\ s[Len(s)] \in Calls /\ Len(s) \in 1 .. Len(s)
           /\ \A i \in 1 .. Len(s) : s[i] \in Calls
<1>1. Len(s) \in Nat /\ Len(s) > 0 /\ \A i \in 1 .. Len(s) : s[i] \in Calls
  OBVIOUS
<1>2. Len(s) \in 1 .. Len(s)
  BY <1>1
<1> QED
  BY <1>1, <1>2

LEMMA StackAdds ==
    ASSUME NEW s \in Seq(Calls), NEW call \in Calls
    PROVE  /\ Append(s, call) \in Seq(Calls) /\ Len(Append(s, call)) = Len(s) + 1
           /\ Append(s, call) # <<>> /\ Append(s, call)[Len(s) + 1] = call
           /\ \A i \in 1 .. Len(s) : Append(s, call)[i] = s[i]
<1>1. /\ Append(s, call) \in Seq(Calls) /\ Len(Append(s, call)) = Len(s) + 1
      /\ Append(s, call)[Len(s) + 1] = call
      /\ \A i \in 1 .. Len(s) : Append(s, call)[i] = s[i]
  OBVIOUS
<1>2. Append(s, call) # <<>>
  <2>1. Len(s) \in Nat /\ Len(<<>>) = 0
    OBVIOUS
  <2>2. Len(Append(s, call)) # 0
    BY <1>1, <2>1
  <2> QED
    BY <2>1, <2>2
<1> QED
  BY <1>1, <1>2

LEMMA LeadsStay ==
    ASSUME zones' = zones, NEW names
    PROVE  /\ Leads(names)' <=> Leads(names)
           /\ \A n, p : Speaks(n, p)' <=> Speaks(n, p)
           /\ \A call : AsksServer(call)' <=> AsksServer(call)
           /\ \A caller, callee : LooksUp(caller, callee)' <=> LooksUp(caller, callee)
<1>1. Leads(names)' <=> Leads(names)
  BY DEF Leads
<1>2. \A n, p : Speaks(n, p)' <=> Speaks(n, p)
  BY DEF Speaks
<1>3. \A call : AsksServer(call)' <=> AsksServer(call)
  BY DEF AsksServer
<1>4. \A caller, callee : LooksUp(caller, callee)' <=> LooksUp(caller, callee)
  BY DEF LooksUp
<1> QED
  BY <1>1, <1>2, <1>3, <1>4

\* Datagrams come and go while the calls stay as they are.
LEMMA NetKeeps ==
    ASSUME NEW names, DnsNow(names), zones' = zones, UNCHANGED <<asked, queue, stack, pc, packet, answers>>,
           Dns!respond \/ Dns!lose \/ Dns!unreachable
    PROVE  DnsNow(names)'
<1> DEFINE query == Dns!Query(Dns!Top.qname, Dns!Top.ns)
           reply == Dns!Response(Dns!Reply(zones, Dns!Top.ns, Dns!Top.qname))
<1>1. Dns!Top' = Dns!Top
  BY DEF Dns!Top
<1>2. query' = query /\ reply' = reply
  BY <1>1 DEF Dns!Query, Dns!Response
<1>a. NetTrue
  BY DEF DnsNow
<1>3. net = Dns!EmptyBag \/ (pc = "recv" /\ (net = Dns!SetToBag({query}) \/ net = Dns!SetToBag({reply})))
  BY <1>a DEF NetTrue
<1> HIDE DEF query, reply
<1>4. net' = Dns!EmptyBag \/ (pc = "recv" /\ net' = Dns!SetToBag({reply}))
  <2>1. PICK m \in Dns!BagToSet(net) :
            \/ /\ m.kind = "query"
               /\ net' = Dns!\oplus(Dns!Without(m),
                            Dns!SetToBag({Dns!Response(Dns!Reply(zones, m.to, m.body))}))
            \/ net' = Dns!Without(m)
    BY DEF Dns!respond, Dns!lose, Dns!unreachable
  <2>2. pc = "recv" /\ net = Dns!SetToBag({m}) /\ m \in {query, reply}
    <3>1. net # Dns!EmptyBag
      BY <2>1, BagFacts
    <3>2. ASSUME NEW sent, net = Dns!SetToBag({sent}) PROVE m = sent
      BY <2>1, <3>2, BagFacts
    <3>3. pc = "recv" /\ (net = Dns!SetToBag({query}) \/ net = Dns!SetToBag({reply}))
      BY <1>3, <3>1
    <3> QED
      BY <3>2, <3>3
  <2>3. Dns!Without(m) = Dns!EmptyBag
    BY <2>2, BagFacts DEF Dns!Without
  <2>4. CASE net' = Dns!Without(m)
    BY <2>3, <2>4
  <2>5. CASE /\ m.kind = "query"
             /\ net' = Dns!\oplus(Dns!Without(m),
                          Dns!SetToBag({Dns!Response(Dns!Reply(zones, m.to, m.body))}))
    <3>1. m = query
      BY <2>2, <2>5 DEF reply, Dns!Response
    <3>2. m.to = Dns!Top.ns /\ m.body = Dns!Top.qname
      BY <3>1 DEF query, Dns!Query
    <3>3. net' = Dns!SetToBag({reply})
      BY <2>3, <2>5, <3>2, BagFacts DEF reply
    <3> QED
      BY <2>2, <3>3
  <2> QED
    BY <2>1, <2>4, <2>5
<1>5. NetTrue'
  BY <1>2, <1>4 DEF NetTrue, query, reply
<1>6. DnsShape'
  BY DEF DnsNow, DnsShape
<1>7. CallsTrue'
  BY <1>1, LeadsStay DEF DnsNow, CallsTrue
<1>8. Leads(names)' => CallsLead(names)'
  BY <1>1, LeadsStay DEF DnsNow, CallsLead
<1> QED
  BY <1>5, <1>6, <1>7, <1>8 DEF DnsNow

LEMMA AskKeeps ==
    ASSUME NEW names, DnsNow(names), zones' = zones, NEW c \in Clients, Dns!ask(c)
    PROVE  DnsNow(names)'
<1>1. PICK n \in Questions : asked' = [asked EXCEPT ![c] = n]
  BY DEF Dns!ask
<1>2. /\ asked[c] = <<>> /\ queue' = Append(queue, c) /\ n # <<>>
      /\ UNCHANGED <<stack, pc, packet, net, answers>>
  BY NamesMeasured DEF Dns!ask
<1>3. /\ asked \in [Clients -> Questions \cup {<<>>}] /\ queue \in Seq(Clients)
      /\ \A k \in 1 .. Len(queue) : asked[queue[k]] # <<>>
  BY DEF DnsNow, DnsShape
<1>4. /\ asked' \in [Clients -> Questions \cup {<<>>}] /\ asked'[c] = n
      /\ \A b \in Clients : asked[b] # <<>> => asked'[b] = asked[b]
  BY <1>1, <1>2, <1>3
<1>5. /\ queue' \in Seq(Clients) /\ Len(queue') = Len(queue) + 1 /\ Len(queue) \in Nat
      /\ queue'[Len(queue) + 1] = c
      /\ \A k \in 1 .. Len(queue) : queue'[k] = queue[k] /\ queue[k] \in Clients
  BY <1>2, <1>3
<1>6. \A k \in 1 .. Len(queue') : asked'[queue'[k]] # <<>>
  <2> SUFFICES ASSUME NEW k \in 1 .. Len(queue') PROVE asked'[queue'[k]] # <<>>
    OBVIOUS
  <2>1. CASE k = Len(queue) + 1
    BY <1>2, <1>4, <1>5, <2>1
  <2>2. CASE k \in 1 .. Len(queue)
    BY <1>3, <1>4, <1>5, <2>2
  <2> QED
    BY <1>5, <2>1, <2>2
<1>7. pc \in {"send", "recv", "return"} =>
         stack # <<>> /\ queue' # <<>> /\ stack[1].qname = asked'[queue'[1]]
  <2> SUFFICES ASSUME pc \in {"send", "recv", "return"}
               PROVE  stack # <<>> /\ queue' # <<>> /\ stack[1].qname = asked'[queue'[1]]
    OBVIOUS
  <2>1. stack # <<>> /\ queue # <<>> /\ stack[1].qname = asked[queue[1]]
    BY DEF DnsNow, DnsShape
  <2>2. 1 \in 1 .. Len(queue)
    BY <1>3, <2>1
  <2>3. asked'[queue'[1]] = asked[queue[1]]
    BY <1>3, <1>4, <1>5, <2>2
  <2>4. queue' # <<>>
    BY <1>2, <1>3
  <2> QED
    BY <2>1, <2>3, <2>4
<1>8. DnsShape'
  BY <1>2, <1>4, <1>5, <1>6, <1>7 DEF DnsNow, DnsShape
<1>9. Dns!Top' = Dns!Top
  BY <1>2 DEF Dns!Top
<1>10. \A b \in Clients : answers[b] # <<>> => asked'[b] = asked[b]
  BY <1>4 DEF DnsNow, DnsShape
<1>11. NetTrue'
  BY <1>2, <1>9 DEF DnsNow, NetTrue
<1>12. CallsTrue'
  BY <1>2, <1>9, <1>10, LeadsStay DEF DnsNow, CallsTrue
<1>13. Leads(names)' => CallsLead(names)'
  BY <1>2, <1>9, <1>10, LeadsStay DEF DnsNow, CallsLead
<1> QED
  BY <1>8, <1>11, <1>12, <1>13 DEF DnsNow

LEMMA QueryKeeps ==
    ASSUME NEW names, DnsNow(names), zones' = zones,
           Dns!handle_query \/ Dns!send, UNCHANGED asked
    PROVE  DnsNow(names)'
<1>1. CASE Dns!handle_query
  <2>1. /\ pc = "wait" /\ queue # <<>> /\ pc' = "send"
        /\ stack' = <<Dns!Call(asked[Head(queue)])>>
        /\ UNCHANGED <<asked, queue, packet, net, answers>>
    BY <1>1 DEF Dns!handle_query
  <2>2. /\ queue \in Seq(Clients) /\ asked \in [Clients -> Questions \cup {<<>>}]
        /\ \A k \in 1 .. Len(queue) : asked[queue[k]] # <<>>
    BY DEF DnsNow, DnsShape
  <2>3. Head(queue) = queue[1] /\ 1 \in 1 .. Len(queue) /\ queue[1] \in Clients
    BY <2>1, <2>2
  <2>4. PICK n \in Questions : n = asked[queue[1]]
    BY <2>2, <2>3
  <2>5. PICK call : call = [qname |-> n, ns |-> <<"root">>, r |-> <<>>]
    OBVIOUS
  <2>6. call \in Calls /\ Len(n) \in Nat
    BY <2>5, NamesMeasured DEF Calls
  <2>7. stack' = <<call>>
    BY <2>1, <2>3, <2>4, <2>5 DEF Dns!Call
  <2>8. /\ stack' \in Seq(Calls) /\ Len(stack') = 1 /\ stack'[1] = call /\ stack' # <<>>
        /\ 1 .. Len(stack') - 1 = {} /\ 1 .. Len(stack') = {1}
    BY <2>6, <2>7
  <2>9. DnsShape'
    BY <2>1, <2>4, <2>5, <2>8 DEF DnsNow, DnsShape
  <2>10. NetTrue'
    BY <2>1 DEF DnsNow, NetTrue
  <2>11. CallsTrue'
    BY <2>1, <2>8, LeadsStay DEF DnsNow, CallsTrue
  <2>12. AsksServer(call)
    BY <2>5, <2>6, RootServes
  <2>13. Leads(names)' => CallsLead(names)'
    BY <2>1, <2>8, <2>12, LeadsStay DEF DnsNow, CallsLead
  <2> QED
    BY <2>9, <2>10, <2>11, <2>13 DEF DnsNow
<1>2. CASE Dns!send
  <2>1. /\ pc = "send" /\ pc' = "recv" /\ net' = Dns!Sent(Dns!Query(Dns!Top.qname, Dns!Top.ns))
        /\ UNCHANGED <<asked, queue, stack, packet, answers>>
    BY <1>2 DEF Dns!send
  <2>2. Dns!Top' = Dns!Top
    BY <2>1 DEF Dns!Top
  <2>3. DnsShape'
    BY <2>1 DEF DnsNow, DnsShape
  <2>4. net' = Dns!SetToBag({Dns!Query(Dns!Top.qname, Dns!Top.ns)})
    <3>1. net = Dns!EmptyBag
      BY <2>1 DEF DnsNow, NetTrue
    <3> QED
      BY <2>1, <3>1, BagFacts DEF Dns!Sent
  <2>5. NetTrue'
    BY <2>1, <2>2, <2>4 DEF NetTrue
  <2>6. CallsTrue'
    BY <2>1, LeadsStay DEF DnsNow, CallsTrue
  <2>7. Leads(names)' => CallsLead(names)'
    BY <2>1, LeadsStay DEF DnsNow, CallsLead
  <2> QED
    BY <2>3, <2>5, <2>6, <2>7 DEF DnsNow
<1> QED
  BY <1>1, <1>2

LEMMA AnswerKeeps ==
    ASSUME NEW names, DnsNow(names), zones' = zones, Dns!answer, UNCHANGED asked
    PROVE  DnsNow(names)'
<1>1. /\ pc = "return" /\ Len(stack) = 1 /\ pc' = "wait" /\ stack' = <<>>
      /\ answers' = [answers EXCEPT ![Head(queue)] = packet]
      /\ queue' = Tail(queue) /\ UNCHANGED <<asked, net>>
  BY DEF Dns!answer
<1>2. /\ queue \in Seq(Clients) /\ queue # <<>> /\ asked \in [Clients -> Questions \cup {<<>>}]
      /\ \A k \in 1 .. Len(queue) : asked[queue[k]] # <<>>
      /\ answers \in [Clients -> Packets \cup {<<>>}] /\ packet \in Packets
      /\ stack[1].qname = asked[queue[1]]
  BY <1>1 DEF DnsNow, DnsShape
<1>3. /\ Head(queue) = queue[1] /\ queue[1] \in Clients /\ Tail(queue) \in Seq(Clients)
      /\ Len(Tail(queue)) = Len(queue) - 1 /\ Len(queue) \in Nat /\ Len(queue) > 0
      /\ \A k \in 1 .. Len(queue) - 1 : Tail(queue)[k] = queue[k + 1]
  BY <1>2
<1>4. PICK c \in Clients : c = queue[1]
  BY <1>3
<1>5. asked[c] # <<>>
  BY <1>2, <1>3, <1>4
<1>6. Dns!Top.qname = asked[c]
  BY <1>1, <1>2, <1>4 DEF Dns!Top
<1>7. /\ answers' \in [Clients -> Packets \cup {<<>>}] /\ answers'[c] = packet
      /\ \A b \in Clients : b # c => answers'[b] = answers[b]
  BY <1>1, <1>2, <1>3, <1>4
<1>8. \A k \in 1 .. Len(queue') : asked'[queue'[k]] # <<>>
  BY <1>1, <1>2, <1>3
<1>9. 1 .. Len(stack') = {} /\ 1 .. Len(stack') - 1 = {} /\ stack' \in Seq(Calls)
  BY <1>1
<1>10. DnsShape'
  BY <1>1, <1>3, <1>5, <1>7, <1>8, <1>9 DEF DnsNow, DnsShape
<1>11. NetTrue'
  BY <1>1 DEF DnsNow, NetTrue
<1>12. CallsTrue'
  BY <1>1, <1>6, <1>7, <1>9, LeadsStay DEF DnsNow, CallsTrue
<1>13. Leads(names)' => CallsLead(names)'
  BY <1>1, <1>6, <1>7, <1>9, LeadsStay DEF DnsNow, CallsLead
<1> QED
  BY <1>10, <1>11, <1>12, <1>13 DEF DnsNow

LEMMA ReturnKeeps ==
    ASSUME NEW names, DnsNow(names), zones' = zones, Dns!get_random_a, UNCHANGED asked
    PROVE  DnsNow(names)'
<1>1. /\ stack \in Seq(Calls) /\ stack # <<>> /\ packet \in Packets /\ zones \in Worlds
      /\ \A i \in 1 .. Len(stack) - 1 : stack[i].r \in Packets /\ ~Settled(stack[i].r)
      /\ Speaks(Dns!Top.qname, packet)
  BY DEF Dns!get_random_a, DnsNow, DnsShape, CallsTrue
<1>2. PICK m \in Nat : m = Len(stack) - 1 /\ m > 0
  BY <1>1 DEF Dns!get_random_a
<1>3. PICK callers : callers = SubSeq(stack, 1, m)
  OBVIOUS
<1>4. /\ callers \in Seq(Calls) /\ Len(callers) = m /\ callers # <<>>
      /\ \A i \in 1 .. m : callers[i] = stack[i] /\ stack[i] \in Calls
      /\ Len(stack) = m + 1
  <2>1. Len(stack) = m + 1 /\ \A i \in 1 .. m + 1 : stack[i] \in Calls
    BY <1>1, <1>2
  <2>2. /\ \A i \in 1 .. m : i \in 1 .. m + 1 /\ 1 + i - 1 = i
        /\ m - 1 + 1 = m
    BY <1>2
  <2>3. callers = [i \in 1 .. m |-> stack[i]]
    BY <1>2, <1>3, <2>2
  <2>4. callers \in Seq(Calls) /\ Len(callers) = m
    BY <1>2, <2>1, <2>2, <2>3
  <2>5. callers # <<>>
    BY <1>2, <2>4
  <2> QED
    BY <2>1, <2>2, <2>3, <2>4, <2>5
<1>5. /\ pc = "return" /\ UNCHANGED <<asked, queue, net, answers>>
      /\ \/ /\ packet.addr # NoAddr
            /\ stack' = [callers EXCEPT ![Len(callers)] = [stack[m] EXCEPT !.ns = packet.addr]]
            /\ pc' = "send" /\ UNCHANGED packet
         \/ /\ packet.addr = NoAddr
            /\ stack' = callers /\ packet' = stack[m].r /\ pc' = pc
  BY <1>2, <1>3 DEF Dns!get_random_a
<1>6. 1 \in 1 .. m /\ m \in 1 .. m /\ 1 .. m - 1 \subseteq 1 .. m
  BY <1>2
<1>7. Dns!Top = stack[m + 1]
  BY <1>4 DEF Dns!Top
<1>8. Leads(names) /\ stack[m].qname \in names =>
         /\ stack[m + 1].qname \in names /\ LooksUp(stack[m], stack[m + 1])
  BY <1>2, <1>4, <1>6 DEF DnsNow, CallsLead
<1>9. NetTrue'
  BY <1>5 DEF DnsNow, NetTrue
<1>10. CASE packet.addr # NoAddr
  <2>1. PICK call : call = [stack[m] EXCEPT !.ns = packet.addr]
    OBVIOUS
  <2>2. stack[m] \in Calls /\ packet.addr \in Addrs
    BY <1>1, <1>4, <1>6 DEF Packets
  <2>3. /\ call \in Calls /\ call.qname = stack[m].qname /\ call.ns = packet.addr
        /\ call.r = stack[m].r
    BY <2>1, <2>2 DEF Calls
  <2>4. /\ stack' \in Seq(Calls) /\ Len(stack') = m /\ stack' # <<>>
        /\ stack'[m] = call /\ \A i \in 1 .. m - 1 : stack'[i] = stack[i]
    <3>1. stack' = [callers EXCEPT ![Len(callers)] = call]
      BY <1>5, <1>10, <2>1
    <3>2. /\ stack' \in Seq(Calls) /\ Len(stack') = Len(callers) /\ stack' # <<>>
          /\ stack'[Len(callers)] = call
          /\ \A i \in 1 .. Len(callers) - 1 : stack'[i] = callers[i]
      BY <1>4, <2>3, <3>1, StackSet
    <3> QED
      BY <1>4, <1>6, <3>2
  <2>5. stack'[1].qname = stack[1].qname
    BY <1>2, <2>3, <2>4
  <2>6. /\ zones.addr[stack[m + 1].qname] = packet.addr
        /\ stack[m + 1].qname \in DOMAIN zones.addr
    BY <1>1, <1>7, <1>10 DEF Speaks
  <2>7. ASSUME LooksUp(stack[m], stack[m + 1]) PROVE AsksServer(call)
    <3>1. PICK d \in Dns!Above(zones, call.qname) : stack[m + 1].qname \in zones.ns[d]
      BY <2>3, <2>7 DEF LooksUp
    <3>2. d \in Dns!ZonesOf(zones, call.ns) /\ Dns!Within(call.qname, d)
      BY <2>3, <2>6, <3>1 DEF Dns!Above, Dns!ZonesOf
    <3> QED
      BY <3>2 DEF AsksServer
  <2>8. DnsShape'
    BY <1>1, <1>4, <1>5, <1>6, <1>10, <2>4, <2>5 DEF DnsNow, DnsShape
  <2>9. CallsTrue'
    BY <1>1, <1>4, <1>5, <1>6, <1>10, <2>4, LeadsStay DEF DnsNow, CallsTrue
  <2>10. ASSUME Leads(names)' PROVE CallsLead(names)'
    <3>1. Leads(names) /\ CallsLead(names)
      BY <2>10, LeadsStay DEF DnsNow
    <3>2. \A i \in 1 .. m : stack'[i].qname = stack[i].qname
      BY <2>3, <2>4
    <3>3. ASSUME NEW i \in 1 .. m, stack'[i].qname \in names PROVE AsksServer(stack'[i])
      <4>1. CASE i = m
        BY <1>8, <2>3, <2>4, <2>7, <3>1, <3>3, <4>1
      <4>2. CASE i # m
        BY <1>2, <1>4, <2>4, <3>1, <3>3, <4>2 DEF CallsLead
      <4> QED
        BY <4>1, <4>2
    <3>4. ASSUME NEW i \in 1 .. m - 1, stack'[i].qname \in names
          PROVE  stack'[i + 1].qname \in names /\ LooksUp(stack'[i], stack'[i + 1])
      <4>1. i \in 1 .. m /\ i + 1 \in 1 .. m
        BY <1>2
      <4>2. stack[i + 1].qname \in names /\ LooksUp(stack[i], stack[i + 1])
        BY <1>4, <1>2, <3>1, <3>2, <3>4, <4>1 DEF CallsLead
      <4> QED
        BY <3>2, <4>1, <4>2 DEF LooksUp
    <3>5. \A c \in Clients : answers'[c] # <<>> /\ asked'[c] \in names => Settled(answers'[c])
      BY <1>5, <3>1 DEF CallsLead
    <3> QED
      BY <1>5, <1>10, <2>4, <3>3, <3>4, <3>5, LeadsStay DEF CallsLead
  <2> QED
    BY <1>9, <2>8, <2>9, <2>10 DEF DnsNow
<1>11. CASE packet.addr = NoAddr
  <2>1. /\ stack' = callers /\ packet' = stack[m].r /\ pc' = "return"
        /\ ~Settled(packet') /\ packet' \in Packets
    BY <1>1, <1>2, <1>5, <1>6, <1>11
  <2>2. Dns!Top' = stack[m]
    BY <1>4, <1>6, <2>1 DEF Dns!Top
  <2>3. DnsShape'
    <3>1. DnsShape
      BY DEF DnsNow
    <3>2. stack' \in Seq(Calls) /\ stack' # <<>> /\ stack'[1] = stack[1] /\ Len(stack') = m
      BY <1>2, <1>4, <2>1
    <3>3. \A i \in 1 .. m - 1 : stack'[i].r \in Packets
      BY <1>1, <1>2, <1>4, <2>1
    <3> QED
      BY <1>5, <2>1, <3>1, <3>2, <3>3 DEF DnsShape
  <2>4. CallsTrue'
    <3>1. Speaks(Dns!Top.qname, packet)'
      BY <2>1 DEF Settled, Speaks
    <3> QED
      BY <1>1, <1>4, <1>5, <1>6, <2>1, <3>1, LeadsStay DEF DnsNow, CallsTrue
  <2>5. ASSUME Leads(names)' PROVE CallsLead(names)'
    <3>1. Leads(names) /\ CallsLead(names)
      BY <2>5, LeadsStay DEF DnsNow
    <3>2. stack[m].qname \notin names
      <4> SUFFICES ASSUME stack[m].qname \in names PROVE FALSE
        OBVIOUS
      <4>1. stack[m + 1].qname \in names /\ stack[m + 1].qname \in DOMAIN zones.addr
        BY <1>8, <3>1 DEF LooksUp
      <4>2. packet.rescode = "NXDOMAIN"
        BY <1>5, <1>7, <1>11, <3>1, <4>1 DEF CallsLead, Settled
      <4> QED
        BY <1>1, <1>7, <4>1, <4>2 DEF Speaks
    <3>3. \A i \in 1 .. m : stack'[i].qname \in names => AsksServer(stack'[i])
      BY <1>2, <1>4, <2>1, <3>1 DEF CallsLead
    <3>4. ASSUME NEW i \in 1 .. m - 1, stack'[i].qname \in names
          PROVE  stack'[i + 1].qname \in names /\ LooksUp(stack'[i], stack'[i + 1])
      <4>1. i \in 1 .. m /\ i + 1 \in 1 .. m
        BY <1>2
      <4> QED
        BY <1>4, <1>2, <2>1, <3>1, <3>4, <4>1 DEF CallsLead
    <3>5. \A c \in Clients : answers'[c] # <<>> /\ asked'[c] \in names => Settled(answers'[c])
      BY <1>5, <3>1 DEF CallsLead
    <3> QED
      BY <1>4, <2>1, <2>2, <3>2, <3>3, <3>4, <3>5, LeadsStay DEF CallsLead
  <2> QED
    BY <1>9, <2>3, <2>4, <2>5 DEF DnsNow
<1> QED
  BY <1>10, <1>11

\* The calls stay, and the packet is returned.
LEMMA LookupReturns ==
    ASSUME NEW names, DnsNow(names), zones' = zones, NEW p \in Packets,
           stack # <<>>, pc = "recv", pc' = "return", packet' = p, net' = Dns!EmptyBag,
           UNCHANGED <<asked, queue, stack, answers>>,
           Speaks(Dns!Top.qname, p),
           Leads(names) /\ Dns!Top.qname \in names => Settled(p)
    PROVE  DnsNow(names)'
<1>1. Dns!Top' = Dns!Top
  BY DEF Dns!Top
<1>2. DnsShape'
  BY DEF DnsNow, DnsShape
<1>3. NetTrue'
  BY DEF NetTrue
<1>4. CallsTrue'
  BY <1>1, LeadsStay DEF DnsNow, CallsTrue
<1>5. Leads(names)' => CallsLead(names)'
  BY <1>1, LeadsStay DEF DnsNow, CallsLead
<1> QED
  BY <1>2, <1>3, <1>4, <1>5 DEF DnsNow

\* Another name server is asked.
LEMMA LookupGoesOn ==
    ASSUME NEW names, DnsNow(names), zones' = zones, NEW a \in Addrs, NEW call \in Calls,
           stack # <<>>, pc = "recv", pc' = "send", net' = Dns!EmptyBag,
           call = [Dns!Top EXCEPT !.ns = a], stack' = Dns!Set(call),
           UNCHANGED <<asked, queue, packet, answers>>,
           Leads(names) /\ call.qname \in names => AsksServer(call)
    PROVE  DnsNow(names)'
<1>1. stack \in Seq(Calls) /\ stack[1].qname = asked[queue[1]]
  BY DEF DnsNow, DnsShape
<1>2. PICK n \in Nat : n = Len(stack) /\ n > 0
  BY <1>1, StackTop
<1>3. Dns!Top = stack[n] /\ stack[n] \in Calls
  BY <1>1, <1>2, StackTop DEF Dns!Top
<1>4. call.qname = stack[n].qname /\ call.r = stack[n].r
  BY <1>3 DEF Calls
<1>5. /\ stack' \in Seq(Calls) /\ Len(stack') = n /\ stack' # <<>>
      /\ stack'[n] = call /\ \A i \in 1 .. n - 1 : stack'[i] = stack[i]
  BY <1>1, <1>2, StackSet DEF Dns!Set
<1>6. ASSUME NEW i \in 1 .. n PROVE stack'[i].qname = stack[i].qname
  <2>1. CASE i = n
    BY <1>4, <1>5, <2>1
  <2>2. CASE i # n
    <3>1. i \in 1 .. n - 1
      BY <1>2, <2>2
    <3> QED
      BY <1>5, <3>1
  <2> QED
    BY <2>1, <2>2
<1>7. DnsShape'
  <2>1. stack'[1].qname = asked[queue[1]]
    BY <1>1, <1>2, <1>6
  <2> QED
    BY <1>2, <1>5, <2>1 DEF DnsNow, DnsShape
<1>8. NetTrue'
  BY DEF NetTrue
<1>9. CallsTrue'
  BY <1>2, <1>5, LeadsStay DEF DnsNow, CallsTrue
<1>10. ASSUME Leads(names)' PROVE CallsLead(names)'
  <2>1. Leads(names) /\ CallsLead(names)
    BY <1>10, LeadsStay DEF DnsNow
  <2>2. ASSUME NEW i \in 1 .. n, stack'[i].qname \in names PROVE AsksServer(stack'[i])
    <3>1. CASE i = n
      BY <1>5, <2>1, <2>2, <3>1
    <3>2. CASE i # n
      BY <1>2, <1>5, <2>1, <2>2, <3>2 DEF CallsLead
    <3> QED
      BY <3>1, <3>2
  <2>3. ASSUME NEW i \in 1 .. n - 1, stack'[i].qname \in names
        PROVE  stack'[i + 1].qname \in names /\ LooksUp(stack'[i], stack'[i + 1])
    <3>1. i \in 1 .. n /\ i + 1 \in 1 .. n
      BY <1>2
    <3>2. stack[i + 1].qname \in names /\ LooksUp(stack[i], stack[i + 1])
      BY <1>2, <1>6, <2>1, <2>3, <3>1 DEF CallsLead
    <3> QED
      BY <1>6, <3>1, <3>2 DEF LooksUp
  <2> QED
    BY <1>5, <2>1, <2>2, <2>3, LeadsStay DEF CallsLead
<1> QED
  BY <1>7, <1>8, <1>9, <1>10 DEF DnsNow

\* The name of a name server is looked up first.
LEMMA LookupNests ==
    ASSUME NEW names, DnsNow(names), zones' = zones, NEW r \in Packets, NEW h \in Names,
           stack # <<>>, pc = "recv", pc' \in {"send", "ended"}, net' = Dns!EmptyBag,
           stack' = Append(Dns!Set([Dns!Top EXCEPT !.r = r]), Dns!Call(h)),
           UNCHANGED <<asked, queue, packet, answers>>, ~Settled(r),
           Leads(names) /\ Dns!Top.qname \in names => h \in names /\ LooksUp(Dns!Top, Dns!Call(h))
    PROVE  DnsNow(names)'
<1>1. stack \in Seq(Calls) /\ queue # <<>> /\ stack[1].qname = asked[queue[1]]
  BY DEF DnsNow, DnsShape
<1>2. PICK n \in Nat : n = Len(stack) /\ n > 0
  BY <1>1, StackTop
<1>3. Dns!Top = stack[n] /\ stack[n] \in Calls
  BY <1>1, <1>2, StackTop DEF Dns!Top
<1>4. PICK call : call = [Dns!Top EXCEPT !.r = r]
  OBVIOUS
<1>5. /\ call \in Calls /\ call.qname = stack[n].qname /\ call.r = r
      /\ call.ns = stack[n].ns
  BY <1>3, <1>4 DEF Calls
<1>6. PICK callee : callee = Dns!Call(h)
  OBVIOUS
<1>7. callee \in Calls /\ callee.qname = h /\ Len(h) \in Nat /\ callee.ns = <<"root">>
  BY <1>6, NamesMeasured DEF Calls, Dns!Call
<1>8. PICK s : s = Dns!Set(call)
  OBVIOUS
<1>9. /\ s \in Seq(Calls) /\ Len(s) = n /\ s # <<>>
      /\ s[n] = call /\ \A i \in 1 .. n - 1 : s[i] = stack[i]
  BY <1>1, <1>2, <1>5, <1>8, StackSet DEF Dns!Set
<1>10. stack' = Append(s, callee)
  BY <1>4, <1>6, <1>8
<1>11. /\ stack' \in Seq(Calls) /\ Len(stack') = n + 1 /\ stack' # <<>>
       /\ stack'[n + 1] = callee /\ \A i \in 1 .. n : stack'[i] = s[i]
  <2>1. /\ Append(s, callee) \in Seq(Calls) /\ Len(Append(s, callee)) = Len(s) + 1
        /\ Append(s, callee) # <<>> /\ Append(s, callee)[Len(s) + 1] = callee
        /\ \A i \in 1 .. Len(s) : Append(s, callee)[i] = s[i]
    BY <1>7, <1>9, StackAdds
  <2> QED
    BY <1>9, <1>10, <2>1
<1>12. ASSUME NEW i \in 1 .. n PROVE stack'[i].qname = stack[i].qname /\ stack'[i].ns = stack[i].ns
  <2>1. CASE i = n
    BY <1>5, <1>9, <1>11, <2>1
  <2>2. CASE i # n
    <3>1. i \in 1 .. n - 1
      BY <1>2, <2>2
    <3> QED
      BY <1>9, <1>11, <3>1
  <2> QED
    BY <2>1, <2>2
<1>13. \A i \in 1 .. n : stack'[i].r \in Packets /\ ~Settled(stack'[i].r)
  <2> SUFFICES ASSUME NEW i \in 1 .. n PROVE stack'[i].r \in Packets /\ ~Settled(stack'[i].r)
    OBVIOUS
  <2>1. CASE i = n
    BY <1>5, <1>9, <1>11, <2>1
  <2>2. CASE i # n
    <3>1. i \in 1 .. n - 1
      BY <1>2, <2>2
    <3>2. stack'[i] = stack[i]
      BY <1>9, <1>11, <3>1
    <3> QED
      BY <1>2, <3>1, <3>2 DEF DnsNow, DnsShape, CallsTrue
  <2> QED
    BY <2>1, <2>2
<1>14. (n + 1) - 1 = n /\ 1 \in 1 .. n
  BY <1>2
<1>15. DnsShape'
  <2>1. stack'[1].qname = asked[queue[1]]
    BY <1>1, <1>12, <1>14
  <2> QED
    BY <1>11, <1>13, <1>14, <2>1 DEF DnsNow, DnsShape
<1>16. NetTrue'
  BY DEF NetTrue
<1>17. CallsTrue'
  BY <1>11, <1>13, <1>14, LeadsStay DEF DnsNow, CallsTrue
<1>18. ASSUME Leads(names)' PROVE CallsLead(names)'
  <2>1. Leads(names) /\ CallsLead(names)
    BY <1>18, LeadsStay DEF DnsNow
  <2>2. ASSUME NEW i \in 1 .. n + 1, stack'[i].qname \in names PROVE AsksServer(stack'[i])
    <3>1. CASE i = n + 1
      BY <1>7, <1>11, <3>1, RootServes
    <3>2. CASE i \in 1 .. n
      BY <1>2, <1>12, <2>1, <2>2, <3>2 DEF CallsLead, AsksServer
    <3>3. i = n + 1 \/ i \in 1 .. n
      OBVIOUS
    <3> QED
      BY <3>1, <3>2, <3>3
  <2>3. ASSUME NEW i \in 1 .. n, stack'[i].qname \in names
        PROVE  stack'[i + 1].qname \in names /\ LooksUp(stack'[i], stack'[i + 1])
    <3>1. CASE i = n
      <4>1. h \in names /\ LooksUp(stack[n], callee)
        BY <1>3, <1>6, <1>12, <2>1, <2>3, <3>1
      <4> QED
        BY <1>7, <1>11, <1>12, <2>3, <3>1, <4>1 DEF LooksUp
    <3>2. CASE i # n
      <4>1. i \in 1 .. n - 1 /\ i + 1 \in 1 .. n
        BY <1>2, <3>2
      <4>2. stack[i + 1].qname \in names /\ LooksUp(stack[i], stack[i + 1])
        BY <1>2, <1>12, <2>1, <2>3, <4>1 DEF CallsLead
      <4> QED
        BY <1>12, <2>3, <4>1, <4>2 DEF LooksUp
    <3> QED
      BY <3>1, <3>2
  <2> QED
    BY <1>11, <1>14, <2>1, <2>2, <2>3, LeadsStay DEF CallsLead
<1> QED
  BY <1>15, <1>16, <1>17, <1>18 DEF DnsNow

LEMMA LookupKeeps ==
    ASSUME NEW names, DnsNow(names), zones' = zones, Dns!recursive_loopup, UNCHANGED asked
    PROVE  DnsNow(names)'
<1>1. /\ stack \in Seq(Calls) /\ stack # <<>> /\ zones \in Worlds /\ pc = "recv"
      /\ NetTrue /\ UNCHANGED <<asked, queue, answers>>
  BY DEF Dns!recursive_loopup, DnsNow, DnsShape
<1>2. PICK top : top = Dns!Top
  OBVIOUS
<1>3. top \in Calls /\ top.qname \in Names /\ top = stack[Len(stack)] /\ Len(stack) \in 1 .. Len(stack)
  BY <1>1, <1>2, StackTop DEF Dns!Top, Calls
<1>4. PICK r : r = Dns!Reply(zones, top.ns, top.qname)
  OBVIOUS
<1>5. PICK m \in Dns!BagToSet(net) :
          /\ m.kind = "response" /\ net' = Dns!Without(m)
          /\ \/ m.body.rescode = "garbage" /\ pc' = "ended" /\ UNCHANGED <<stack, packet>>
             \/ m.body.rescode = "NXDOMAIN" /\ Dns!Returns(m.body)
             \/ m.body.rescode = "NOERROR" /\ m.body.addr # NoAddr /\ Dns!Returns(m.body)
             \/ /\ m.body.rescode \notin {"garbage", "NXDOMAIN"}
                /\ ~(m.body.rescode = "NOERROR" /\ m.body.addr # NoAddr)
                /\ IF Dns!get_ns(m.body, top.qname) = {} THEN Dns!Returns(m.body)
                                                      ELSE Dns!askNext(m.body)
  BY <1>2 DEF Dns!recursive_loopup
<1>6. m.body = r /\ net' = Dns!EmptyBag
  <2>1. net # Dns!EmptyBag
    BY <1>5, BagFacts
  <2>2. ASSUME NEW sent, net = Dns!SetToBag({sent}) PROVE m = sent
    BY <1>5, <2>2, BagFacts
  <2>3. m = Dns!Query(top.qname, top.ns) \/ m = Dns!Response(r)
    BY <1>1, <1>2, <1>4, <2>1, <2>2 DEF NetTrue
  <2>4. m = Dns!Response(r)
    BY <1>5, <2>3 DEF Dns!Query
  <2>5. net = Dns!SetToBag({m})
    BY <1>1, <2>1, <2>2 DEF NetTrue
  <2> QED
    BY <1>5, <2>4, <2>5, BagFacts DEF Dns!Response, Dns!Without
<1>7. /\ r \in Packets
      /\ r.addr # NoAddr => top.qname \in DOMAIN zones.addr /\ r.addr = zones.addr[top.qname]
      /\ r.rescode = "NXDOMAIN" => top.qname \notin DOMAIN zones.addr
  BY <1>1, <1>3, <1>4, ReplyFacts
<1>8. Speaks(top.qname, r)
  BY <1>7 DEF Speaks
<1>9. \/ r.rescode = "garbage"
      \/ r.rescode = "NXDOMAIN"
      \/ r.rescode = "NOERROR" /\ r.addr # NoAddr
      \/ /\ ~Settled(r) /\ r.rescode = "NOERROR"
         /\ \E d \in Dns!Above(zones, top.qname) : RefersTo(r, zones, d)
      \/ /\ ~Settled(r) /\ r.rescode = "REFUSED" /\ r.ns = {}
         /\ ~ \E d \in Dns!ZonesOf(zones, top.ns) : Dns!Within(top.qname, d)
  BY <1>1, <1>3, <1>4, ReplyFacts
<1>10. CASE pc' = "ended" /\ UNCHANGED <<stack, packet>>
  <2>1. DnsShape'
    BY <1>1, <1>10 DEF DnsNow, DnsShape
  <2>2. NetTrue'
    BY <1>6 DEF NetTrue
  <2>3. CallsTrue'
    BY <1>1, <1>10, LeadsStay DEF DnsNow, CallsTrue
  <2>4. Leads(names)' => CallsLead(names)'
    BY <1>1, <1>10, LeadsStay DEF DnsNow, CallsLead
  <2> QED
    BY <2>1, <2>2, <2>3, <2>4 DEF DnsNow
<1>11. CASE Settled(r) /\ Dns!Returns(r)
  BY <1>1, <1>2, <1>6, <1>7, <1>8, <1>11, LookupReturns DEF Dns!Returns
<1>12. CASE /\ ~Settled(r) /\ r.rescode # "garbage"
            /\ IF Dns!get_ns(r, top.qname) = {} THEN Dns!Returns(r) ELSE Dns!askNext(r)
  <2>1. \/ r.ns = {} /\ ~AsksServer(top)
        \/ \E d \in Dns!Above(zones, top.qname) : RefersTo(r, zones, d)
    BY <1>9, <1>12 DEF Settled, AsksServer
  <2>2. ASSUME Leads(names), top.qname \in names
        PROVE  \E d \in Dns!Above(zones, top.qname) : RefersTo(r, zones, d)
    <3>1. AsksServer(top)
      BY <1>3, <2>2 DEF DnsNow, CallsLead
    <3> QED
      BY <2>1, <3>1
  <2>3. ASSUME NEW d \in Dns!Above(zones, top.qname), RefersTo(r, zones, d)
        PROVE  /\ Dns!get_ns(r, top.qname) = {<<d, h>> : h \in zones.ns[d]}
               /\ Dns!unresolved_ns(r, top.qname) = zones.ns[d]
               /\ r.glue = zones.ns[d] \cap zones.glue
    <3>1. Dns!ends_with(top.qname, d)
      <4>1. Dns!Within(top.qname, d)
        BY DEF Dns!Above
      <4> QED
        BY <4>1 DEF Dns!ends_with
    <3>2. Dns!get_ns(r, top.qname) = {<<d, h>> : h \in zones.ns[d]}
      BY <2>3, <3>1 DEF Dns!get_ns, RefersTo
    <3>3. Dns!unresolved_ns(r, top.qname) = zones.ns[d]
      <4>1. \A z \in Dns!get_ns(r, top.qname) : z[2] \in zones.ns[d]
        BY <3>2
      <4>2. ASSUME NEW h \in zones.ns[d]
            PROVE  \E z \in Dns!get_ns(r, top.qname) : z[2] = h
        <5>1. <<d, h>> \in Dns!get_ns(r, top.qname) /\ <<d, h>>[2] = h
          BY <3>2
        <5> QED
          BY <5>1
      <4> QED
        BY <4>1, <4>2 DEF Dns!unresolved_ns
    <3> QED
      BY <2>3, <3>2, <3>3 DEF RefersTo
  <2>4. CASE Dns!get_ns(r, top.qname) = {}
    <3>1. ~(Leads(names) /\ top.qname \in names)
      <4> SUFFICES ASSUME Leads(names), top.qname \in names PROVE FALSE
        OBVIOUS
      <4>1. PICK d \in Dns!Above(zones, top.qname) : RefersTo(r, zones, d)
        BY <2>2
      <4>2. zones.ns[d] # {}
        BY DEF Leads
      <4>3. PICK h : h \in zones.ns[d]
        BY <4>2
      <4>4. <<d, h>> \in Dns!get_ns(r, top.qname)
        BY <2>3, <4>1, <4>3
      <4> QED
        BY <2>4, <4>4
    <3> QED
      BY <1>1, <1>2, <1>6, <1>7, <1>8, <1>12, <2>4, <3>1, LookupReturns DEF Dns!Returns
  <2>5. CASE Dns!get_ns(r, top.qname) # {}
    <3>1. PICK d \in Dns!Above(zones, top.qname) : RefersTo(r, zones, d)
      <4>1. r.ns # {}
        BY <2>5 DEF Dns!get_ns
      <4> QED
        BY <2>1, <4>1
    <3>2. Dns!askNext(r)
      BY <1>12, <2>5
    <3>3. zones.ns[d] \subseteq Names /\ zones.glue \subseteq DOMAIN zones.addr /\ d \in DOMAIN zones.ns
      BY <1>1, NamesMeasured DEF Dns!Above
    <3>4. CASE \E a \in Dns!resolved_ns(r, top.qname) :
                  stack' = Dns!Set([Dns!Top EXCEPT !.ns = a]) /\ pc' = "send" /\ UNCHANGED packet
      <4>1. PICK a \in Dns!resolved_ns(r, top.qname) :
                stack' = Dns!Set([Dns!Top EXCEPT !.ns = a]) /\ pc' = "send" /\ UNCHANGED packet
        BY <3>4
      <4>2. PICK h \in zones.ns[d] \cap zones.glue : a = zones.addr[h]
        BY <2>3, <3>1, <4>1 DEF Dns!resolved_ns
      <4>3. a \in Addrs /\ h \in DOMAIN zones.addr
        <5>1. h \in DOMAIN zones.addr
          BY <3>3
        <5>2. zones.addr[h] \in Addrs
          BY <1>1, <5>1, NamesMeasured
        <5> QED
          BY <4>2, <5>1, <5>2
      <4>4. PICK call : call = [Dns!Top EXCEPT !.ns = a]
        OBVIOUS
      <4>5. call \in Calls /\ call.qname = top.qname /\ call.ns = a
        BY <1>2, <1>3, <4>3, <4>4 DEF Calls
      <4>6. d \in Dns!ZonesOf(zones, a) /\ Dns!Within(top.qname, d)
        BY <3>3, <4>2, <4>3 DEF Dns!ZonesOf, Dns!Above
      <4>7. AsksServer(call)
        BY <4>5, <4>6 DEF AsksServer
      <4> QED
        BY <1>1, <1>6, <4>1, <4>3, <4>4, <4>5, <4>7, LookupGoesOn
    <3>5. CASE /\ Dns!resolved_ns(r, top.qname) = {}
               /\ \E h \in Dns!unresolved_ns(r, top.qname) :
                     /\ stack' = Append(Dns!Set([Dns!Top EXCEPT !.r = r]), Dns!Call(h))
                     /\ pc' \in {"send", "ended"}
               /\ UNCHANGED packet
      <4>1. PICK h \in zones.ns[d] :
                /\ stack' = Append(Dns!Set([Dns!Top EXCEPT !.r = r]), Dns!Call(h))
                /\ pc' \in {"send", "ended"}
        BY <2>3, <3>1, <3>5
      <4>2. zones.ns[d] \cap zones.glue = {}
        <5> SUFFICES ASSUME NEW g \in zones.ns[d] \cap zones.glue PROVE FALSE
          OBVIOUS
        <5>1. <<d, g>> \in Dns!get_ns(r, top.qname) /\ g \in r.glue
          BY <2>3, <3>1
        <5>2. zones.addr[g] \in Dns!resolved_ns(r, top.qname)
          BY <5>1 DEF Dns!resolved_ns
        <5> QED
          BY <3>5, <5>2
      <4>3. Leads(names) /\ top.qname \in names => h \in names /\ LooksUp(top, Dns!Call(h))
        BY <4>2 DEF Leads, LooksUp, Dns!Call
      <4>4. h \in Names
        BY <3>3
      <4> QED
        BY <1>1, <1>2, <1>6, <1>7, <1>12, <3>5, <4>1, <4>3, <4>4, LookupNests
    <3> QED
      BY <1>2, <3>2, <3>4, <3>5 DEF Dns!askNext
  <2> QED
    BY <2>4, <2>5
<1> QED
  BY <1>5, <1>6, <1>9, <1>10, <1>11, <1>12 DEF Settled

LEMMA DnsKeeps ==
    ASSUME DnsInv, Dns!Next
    PROVE  DnsInv'
<1>1. /\ zones' = zones /\ copies \in Nat
      /\ \/ copies' = copies
         \/ copies' = copies + 1
  BY DEF DnsInv, Dns!Next, Dns!Resolver, Dns!respond, Dns!lose, Dns!duplicate,
         Dns!unreachable, Dns!ask
<1>2. copies' \in Nat /\ (copies' = 0 => copies = 0 /\ copies' = copies)
  BY <1>1
<1>3. SUFFICES ASSUME copies' = 0, NEW names PROVE DnsNow(names)'
  BY <1>2 DEF DnsInv
<1>4. DnsNow(names) /\ copies' # copies + 1
  BY <1>1, <1>2, <1>3 DEF DnsInv
<1>5. CASE Dns!Resolver
  <2>1. UNCHANGED asked
    BY <1>5 DEF Dns!Resolver
  <2> QED
    BY <1>1, <1>4, <1>5, <2>1, QueryKeeps, LookupKeeps, ReturnKeeps, AnswerKeeps
       DEF Dns!Resolver
<1>6. CASE Dns!respond \/ Dns!lose \/ Dns!unreachable
  <2>1. UNCHANGED <<asked, queue, stack, pc, packet, answers>>
    BY <1>6 DEF Dns!respond, Dns!lose, Dns!unreachable
  <2> QED
    BY <1>1, <1>4, <1>6, <2>1, NetKeeps
<1>7. CASE \E c \in Clients : Dns!ask(c)
  BY <1>1, <1>4, <1>7, AskKeeps
<1>8. ~Dns!duplicate
  BY <1>4 DEF Dns!duplicate
<1> QED
  BY <1>5, <1>6, <1>7, <1>8 DEF Dns!Next

LEMMA DnsStarts == MCInit => DnsInv
<1> SUFFICES ASSUME MCInit PROVE DnsInv
  OBVIOUS
<1>1. /\ zones \in Worlds /\ asked = [c \in Clients |-> <<>>] /\ queue = <<>>
      /\ stack = <<>> /\ pc = "wait" /\ net = Dns!EmptyBag
      /\ answers = [c \in Clients |-> <<>>] /\ copies = 0
  BY DEF MCInit, Dns!Init
<1>2. /\ queue \in Seq(Clients) /\ 1 .. Len(queue) = {}
      /\ stack \in Seq(Calls) /\ 1 .. Len(stack) = {} /\ 1 .. Len(stack) - 1 = {}
  BY <1>1
<1>3. DnsShape
  BY <1>1, <1>2 DEF DnsShape
<1>4. NetTrue /\ CallsTrue
  BY <1>1, <1>2 DEF NetTrue, CallsTrue
<1>5. \A names : CallsLead(names)
  BY <1>1, <1>2 DEF CallsLead
<1> QED
  BY <1>1, <1>3, <1>4, <1>5 DEF DnsInv, DnsNow

LEMMA DnsInvariant == MCSpec => []DnsInv
<1>1. MCInit => DnsInv
  BY DnsStarts
<1>2. DnsInv /\ [MCNext]_allVars => DnsInv'
  <2> SUFFICES ASSUME DnsInv, [MCNext]_allVars PROVE DnsInv'
    OBVIOUS
  <2>1. CASE Dns!Next
    BY <2>1, DnsKeeps
  <2>2. CASE UNCHANGED dnsVars
    <3>1. UNCHANGED <<zones, asked, queue, stack, pc, packet, net, answers, copies>>
      BY <2>2 DEF dnsVars
    <3>2. Dns!Top' = Dns!Top
      BY <3>1 DEF Dns!Top
    <3>3. ASSUME NEW names, DnsNow(names) PROVE DnsNow(names)'
      <4>1. DnsShape'
        BY <3>1, <3>3 DEF DnsNow, DnsShape
      <4>2. NetTrue'
        BY <3>1, <3>2, <3>3 DEF DnsNow, NetTrue
      <4>3. CallsTrue'
        BY <3>1, <3>2, <3>3, LeadsStay DEF DnsNow, CallsTrue
      <4>4. Leads(names)' => CallsLead(names)'
        BY <3>1, <3>2, <3>3, LeadsStay DEF DnsNow, CallsLead
      <4> QED
        BY <4>1, <4>2, <4>3, <4>4 DEF DnsNow
    <3> QED
      BY <3>1, <3>3 DEF DnsInv
  <2>3. Dns!Next \/ UNCHANGED dnsVars
    BY DEF MCNext, InVec, Tokio, Resolving, quiet, allVars
  <2> QED
    BY <2>1, <2>2, <2>3
<1> QED
  BY <1>1, <1>2, PTL DEF MCSpec

\* A client of the DNS server is sent what its name has, whatever servers had
\* to be looked up on the way, as long as no datagram came twice (server.rs:58,
\* 65, 76); with the invariant that a name whose servers can all be found is
\* never asked of a server that refuses it.
THEOREM AnswersAreTrue == MCSpec => []AnswersRight
<1>1. DnsInv => AnswersRight
  <2> SUFFICES ASSUME DnsInv, copies = 0, NEW c \in Clients, answers[c] # <<>>
               PROVE  Dns!Right(asked[c], answers[c])
    BY DEF AnswersRight, Dns!AnswersRight
  <2>1. DnsNow(FoundNames)
    BY DEF DnsInv
  <2>2. CallsLead(FoundNames)
    BY <2>1, FoundLeads DEF DnsNow
  <2>3. Speaks(asked[c], answers[c])
    BY <2>1 DEF DnsNow, CallsTrue
  <2>4. asked[c] \in Dns!Found => Settled(answers[c])
    BY <2>2, FoundLeads DEF CallsLead
  <2> QED
    BY <2>3, <2>4 DEF Dns!Right, Speaks, Settled
<1> QED
  BY <1>1, DnsInvariant, PTL
=============================================================================
