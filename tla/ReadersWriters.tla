--------------------------- MODULE ReadersWriters ---------------------------
(***************************************************************************)
(* What a readers/writers lock with writer preference promises, stated on  *)
(* the threads and not on any counter: a thread reads only while nobody    *)
(* writes and nobody waits to write, a thread writes only while nobody     *)
(* else holds the lock.                                                    *)
(***************************************************************************)
CONSTANT Threads

VARIABLE mode    \* what each thread does with the lock

Modes == {"idle", "wantRead", "reading", "wantWrite", "writing"}

Init == mode = [t \in Threads |-> "idle"]

Become(t, m) == mode' = [mode EXCEPT ![t] = m]

NoOne(ms) == \A u \in Threads : mode[u] \notin ms

AskRead(t)  == mode[t] = "idle" /\ Become(t, "wantRead")
AskWrite(t) == mode[t] = "idle" /\ Become(t, "wantWrite")

GrantRead(t) ==
    /\ mode[t] \in {"idle", "wantRead"}
    /\ NoOne({"writing", "wantWrite"})
    /\ Become(t, "reading")

GrantWrite(t) ==
    /\ mode[t] \in {"idle", "wantWrite"}
    /\ NoOne({"reading", "writing"})
    /\ Become(t, "writing")

Release(t) == mode[t] \in {"reading", "writing"} /\ Become(t, "idle")

Next == \E t \in Threads :
          \/ AskRead(t)
          \/ AskWrite(t)
          \/ GrantRead(t)
          \/ GrantWrite(t)
          \/ Release(t)

Spec == Init /\ [][Next]_mode
=============================================================================
