---------------------------- MODULE BlockTransfer ----------------------------
(***************************************************************************)
(* What the two programs of TLPI/src/48_System_V_Shared_Memory promise     *)
(* together: the blocks of the writer's input come out of the reader once  *)
(* each and in order, the next one is not put in before the last came out, *)
(* and the end of the input is seen after all of them.                     *)
(***************************************************************************)
EXTENDS Integers, Sequences

CONSTANT Blocks    \* what may be sent

VARIABLES
    sent,       \* the blocks put into the segment
    received,   \* the blocks the reader has written out
    phase       \* "open", then "eof", then "ended" once the reader knows

vars == <<sent, received, phase>>

Init == sent = <<>> /\ received = <<>> /\ phase = "open"

Send(b) ==
    /\ phase = "open" /\ received = sent
    /\ sent' = Append(sent, b)
    /\ UNCHANGED <<received, phase>>

Deliver ==
    /\ received # sent
    /\ received' = Append(received, sent[Len(received) + 1])
    /\ UNCHANGED <<sent, phase>>

Close == phase = "open" /\ phase' = "eof" /\ UNCHANGED <<sent, received>>

End ==
    /\ phase = "eof" /\ received = sent
    /\ phase' = "ended"
    /\ UNCHANGED <<sent, received>>

Next == (\E b \in Blocks : Send(b)) \/ Deliver \/ Close \/ End

Spec == Init /\ [][Next]_vars
=============================================================================
