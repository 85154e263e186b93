---------------------------- MODULE OwnedSequence ----------------------------
(***************************************************************************)
(* What a growable sequence that owns its elements promises: each element  *)
(* is held by the caller, or stands at one place of the sequence, or has   *)
(* been dropped, and no operation changes more than it says.               *)
(***************************************************************************)
EXTENDS Integers, Sequences

CONSTANT Elements

VARIABLES
    seq,        \* what is inside
    held,       \* what the caller holds
    dropped

Init == seq = <<>> /\ held = Elements /\ dropped = {}

\* e comes to stand at place k.
Put(e, k) ==
    /\ e \in held
    /\ held' = held \ {e}
    /\ seq' = [j \in 1 .. Len(seq) + 1 |->
                  IF j < k THEN seq[j] ELSE IF j = k THEN e ELSE seq[j - 1]]
    /\ UNCHANGED dropped

Take(k) ==
    /\ held' = held \cup {seq[k]}
    /\ seq' = [j \in 1 .. Len(seq) - 1 |-> IF j < k THEN seq[j] ELSE seq[j + 1]]
    /\ UNCHANGED dropped

DropAll ==
    /\ dropped' = dropped \cup {seq[k] : k \in 1 .. Len(seq)}
    /\ seq' = <<>>
    /\ UNCHANGED held

DropHeld(e) ==
    /\ e \in held
    /\ held' = held \ {e}
    /\ dropped' = dropped \cup {e}
    /\ UNCHANGED seq

Next ==
    \/ \E e \in Elements : \E k \in 1 .. Len(seq) + 1 : Put(e, k)
    \/ \E k \in 1 .. Len(seq) : Take(k)
    \/ DropAll
    \/ \E e \in Elements : DropHeld(e)

Spec == Init /\ [][Next]_<<seq, held, dropped>>
=============================================================================
