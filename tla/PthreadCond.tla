---------------------------- MODULE PthreadCond ----------------------------
(***************************************************************************)
(* Condition variables of the pthread library, as the monitors under       *)
(* OSPP/lib use them.  A condition variable is modelled by the set of the  *)
(* threads blocked on it: pthread_cond_wait puts the caller into the set   *)
(* and releases the mutex in one step, and a thread that is no longer in   *)
(* the set competes for the mutex again.  All waits of the modelled code   *)
(* sit in a while loop, so a woken thread starts by testing its condition. *)
(***************************************************************************)

\* pthread_cond_signal: wakes one of the blocked threads, any of them, and
\* does nothing when nobody is blocked (a signal is not remembered).
AfterSignal(cond) ==
    IF cond = {} THEN {{}} ELSE {cond \ {t} : t \in cond}

\* pthread_cond_broadcast: wakes every blocked thread.
AfterBroadcast == {}
=============================================================================
