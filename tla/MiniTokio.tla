------------------------------ MODULE MiniTokio ------------------------------
(***************************************************************************)
(* The executor of rust_pg/src/bin/mini_tokio.rs: a channel of scheduled   *)
(* tasks, an executor thread that polls what it receives, and one timer    *)
(* thread per delay that puts its task into the channel when the time has  *)
(* come.  A poll takes time: the clock may advance and timers may fire     *)
(* between any two of its steps, in particular between the start of the    *)
(* timer thread and the comparison that decides Ready or Pending.          *)
(*                                                                         *)
(* A task is a sequence of statements, of which only the awaited delay     *)
(* suspends it.  A task that has completed and is polled again panics, as  *)
(* the state machine of an async block does.                               *)
(***************************************************************************)
EXTENDS Integers, Sequences, FiniteSets, SequencesExt

CONSTANTS
    Tasks,          \* the futures of the program
    Root,           \* the one main spawns
    Program,        \* the statements of each of them, as records with an op
    MaxLate         \* bound: ticks of the clock while the executor has work

\* What the constants must satisfy; MCRust assumes it of its instance.
TokioAssumption ==
    /\ Root \in Tasks
    /\ MaxLate \in Nat
    /\ \A t \in Tasks : /\ Len(Program[t]) \in Nat \ {0} /\ DOMAIN Program[t] = 1 .. Len(Program[t])
                        /\ \A k \in DOMAIN Program[t] :
                              LET s == Program[t][k]
                              IN  /\ s.op \in {"spawn", "delay", "print", "exit"}
                                  /\ s.op = "spawn" => s.task \in Tasks
                                  /\ s.op = "delay" => s.dur \in Nat

\* Each spawn__ makes a task of its own, and none makes the root task again.
SpawnAssumption ==
    \A t, u \in Tasks : \A k \in DOMAIN Program[t], l \in DOMAIN Program[u] :
        Program[t][k].op = "spawn" /\ Program[u][l].op = "spawn" =>
            /\ Program[t][k].task # Root
            /\ Program[t][k].task = Program[u][l].task => t = u /\ k = l

\* No delay is over at once.
DelayAssumption ==
    \A t \in Tasks : \A k \in DOMAIN Program[t] :
        Program[t][k].op = "delay" => Program[t][k].dur > 0

NoDelay == [when |-> -1, waker |-> FALSE]

VARIABLES
    now,        \* the clock
    late,       \* how often it went on while the executor had work
    scheduled,  \* the channel
    status,     \* of the process: "running", "exited", "panicked"
    epc,        \* the executor: "recv", "run", "poll", "check"
    task,       \* the task it polls
    at,         \* the statement each task has come to; 0 before it is spawned
    delay,      \* the Delay it awaits: its end, and whether it has a waker
    timers,     \* timer threads that have not fired: [task, when]
    printed     \* what has been printed, in order

vars == <<now, late, scheduled, status, epc, task, at, delay, timers, printed>>

Completed(t) == at[t] > Len(Program[t])
Statement == Program[task][at[task]]

\* main: the root task is in the channel and the executor starts.
Init ==
    /\ now = 0 /\ late = 0
    /\ scheduled = <<Root>>
    /\ status = "running"
    /\ epc = "recv"
    /\ task = Root
    /\ at = [t \in Tasks |-> IF t = Root THEN 1 ELSE 0]
    /\ delay = [t \in Tasks |-> NoDelay]
    /\ timers = {}
    /\ printed = <<>>

Idle == epc = "recv" /\ scheduled = <<>>

\* The clock matters while a timer is to fire or the executor is at work.
tick ==
    /\ status = "running"
    /\ \/ Idle /\ (\E tm \in timers : now < tm.when) /\ UNCHANGED late
       \/ ~Idle /\ late < MaxLate /\ late' = late + 1
    /\ now' = now + 1
    /\ UNCHANGED <<scheduled, status, epc, task, at, delay, timers, printed>>

-----------------------------------------------------------------------------
(* MiniTokio::run and Task::task_poll.                                     *)

recv ==
    /\ status = "running" /\ epc = "recv" /\ scheduled # <<>>
    /\ task' = Head(scheduled)
    /\ scheduled' = Tail(scheduled)
    /\ \/ /\ Completed(task')
          /\ status' = "panicked"
          /\ UNCHANGED epc
       \/ /\ ~Completed(task')
          /\ epc' = IF delay[task'] = NoDelay THEN "run" ELSE "poll"
          /\ UNCHANGED status
    /\ UNCHANGED <<now, late, at, delay, timers, printed>>

AtStatement(op) ==
    /\ status = "running" /\ epc = "run" /\ ~Completed(task) /\ Statement.op = op

\* spawn__: a new task is put into the channel.
task_spawn ==
    /\ AtStatement("spawn")
    /\ scheduled' = Append(scheduled, Statement.task)
    /\ at' = [at EXCEPT ![task] = @ + 1, ![Statement.task] = 1]
    /\ UNCHANGED <<now, late, status, epc, task, delay, timers, printed>>

println ==
    /\ AtStatement("print")
    /\ printed' = Append(printed, Statement.text)
    /\ at' = [at EXCEPT ![task] = @ + 1]
    /\ UNCHANGED <<now, late, scheduled, status, epc, task, delay, timers>>

exit ==
    /\ AtStatement("exit")
    /\ status' = "exited"
    /\ UNCHANGED <<now, late, scheduled, epc, task, at, delay, timers, printed>>

\* delay__: the Delay is made and polled at once.
delay__ ==
    /\ AtStatement("delay")
    /\ delay' = [delay EXCEPT ![task] = [when |-> now + Statement.dur, waker |-> FALSE]]
    /\ epc' = "poll"
    /\ UNCHANGED <<now, late, scheduled, status, task, at, timers, printed>>

\* The future has completed; the executor goes back to the channel.
complete ==
    /\ status = "running" /\ epc = "run" /\ Completed(task)
    /\ epc' = "recv"
    /\ UNCHANGED <<now, late, scheduled, status, task, at, delay, timers, printed>>

\* Mutation: every poll starts a timer thread, not the first alone.
poll_everyTime ==
    /\ status = "running" /\ epc = "poll"
    /\ delay' = [delay EXCEPT ![task].waker = TRUE]
    /\ timers' = timers \cup {[task |-> task, when |-> delay[task].when]}
    /\ epc' = "check"
    /\ UNCHANGED <<now, late, scheduled, status, task, at, printed>>

\* The first half of Delay::poll: the first poll stores the waker and starts
\* the timer thread; later ones find the waker of the same task.
poll ==
    /\ status = "running" /\ epc = "poll"
    /\ \/ /\ ~delay[task].waker
          /\ delay' = [delay EXCEPT ![task].waker = TRUE]
          /\ timers' = timers \cup {[task |-> task, when |-> delay[task].when]}
       \/ /\ delay[task].waker
          /\ UNCHANGED <<delay, timers>>
    /\ epc' = "check"
    /\ UNCHANGED <<now, late, scheduled, status, task, at, printed>>

\* The second half: Ready when the time has come, else Pending.
check ==
    /\ status = "running" /\ epc = "check"
    /\ \/ /\ now >= delay[task].when
          /\ delay' = [delay EXCEPT ![task] = NoDelay]
          /\ at' = [at EXCEPT ![task] = @ + 1]
          /\ epc' = "run"
       \/ /\ now < delay[task].when
          /\ epc' = "recv"
          /\ UNCHANGED <<delay, at>>
    /\ UNCHANGED <<now, late, scheduled, status, task, timers, printed>>

\* Mutation: the channel has no room unless the executor waits at it.
wake_by_ref_trySend(tm) ==
    /\ status = "running" /\ now >= tm.when
    /\ timers' = timers \ {tm}
    /\ scheduled' = IF epc = "recv" THEN Append(scheduled, tm.task) ELSE scheduled
    /\ UNCHANGED <<now, late, status, epc, task, at, delay, printed>>

\* A timer thread whose sleep is over wakes its task: it is scheduled, whether
\* or not it still waits for this delay.
wake_by_ref(tm) ==
    /\ status = "running" /\ now >= tm.when
    /\ timers' = timers \ {tm}
    /\ scheduled' = Append(scheduled, tm.task)
    /\ UNCHANGED <<now, late, status, epc, task, at, delay, printed>>

-----------------------------------------------------------------------------
ExecutorStep ==
    recv \/ task_spawn \/ println \/ exit \/ delay__ \/ complete \/ poll \/ check

ended == status # "running" /\ UNCHANGED vars

Next ==
    \/ tick
    \/ ExecutorStep
    \/ \E tm \in timers : wake_by_ref(tm)
    \/ ended

Spec == Init /\ [][Next]_vars

(* Time passes, and every thread gets the processor sooner or later.       *)
FairSpec ==
    /\ Spec
    /\ WF_vars(tick)
    /\ WF_vars(ExecutorStep)
    /\ WF_vars(\E tm \in timers : wake_by_ref(tm))

-----------------------------------------------------------------------------
Delays == {p \in UNION {{t} \X DOMAIN Program[t] : t \in Tasks} :
              Program[p[1]][p[2]].op = "delay"}

(* Each task is scheduled once when spawned and once per delay at most, so *)
(* that the unbounded channel never holds more.                            *)
TypeOK ==
    /\ now \in Nat /\ late \in 0 .. MaxLate
    /\ scheduled \in Seq(Tasks)
    /\ Len(scheduled) <= Cardinality(Tasks) + Cardinality(Delays)
    /\ status \in {"running", "exited", "panicked"}
    /\ epc \in {"recv", "run", "poll", "check"}
    /\ task \in Tasks
    /\ \A t \in Tasks : at[t] \in 0 .. Len(Program[t]) + 1
    /\ \A t \in Tasks : delay[t].when >= -1 /\ delay[t].waker \in BOOLEAN
    /\ \A tm \in timers : tm.task \in Tasks /\ tm.when \in Nat

(* A task that awaits a delay will be polled again (mini_tokio.rs:268-269: *)
(* "If we forget to invoke the waker, the task will hang indefinitely"):   *)
(* its timer is running, or it is scheduled, or it is being polled.        *)
NoLostWakeup ==
    \A t \in Tasks :
        delay[t] # NoDelay /\ status = "running" =>
            \/ [task |-> t, when |-> delay[t].when] \in timers
            \/ t \in ToSet(scheduled)
            \/ epc # "recv" /\ task = t

(* The program ends, by the exit of the root task (line 61) or by a panic: *)
(* no schedule of the threads leaves every task waiting for ever.          *)
ProgramEnds == <>(status # "running")

(* "When a task is scheduled, the associated future is ready to make       *)
(* progress" (mini_tokio.rs:76-77): no task is polled that has completed.  *)
NeverPolledAfterCompletion == status # "panicked"

(* That holds as long as the executor has been on time at every step,      *)
(* however late the timer threads are: the poll that starts a timer (line  *)
(* 224) compares the clock (line 242) before that timer can have fired.    *)
PromptNeverPanics == late = 0 => NeverPolledAfterCompletion
=============================================================================
