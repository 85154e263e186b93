-------------------------------- MODULE MCRust --------------------------------
(***************************************************************************)
(* The vector, the executor and the resolver of rust_pg, which have nothing*)
(* to do with each other, checked in one run: a behavior is a behavior of  *)
(* one of them, and the variables of the others keep their first values.   *)
(***************************************************************************)
EXTENDS MyVec, TLC

CONSTANTS root, world, hello,     \* the futures of main
          Tasks, Root, Program, MaxLate,
          Clients, Questions, Endings, Worlds, NoAddr, MaxDepth, MaxLost, MaxCopies

VARIABLES
    now, late, scheduled, status, epc, task, at, delay, timers, printed,
    zones, asked, queue, stack, pc, packet, net, answers, lost, copies,
    running     \* which of them it is

Mini == INSTANCE MiniTokio

-----------------------------------------------------------------------------
(* The program of mini_tokio.rs, main, lines 22 to 67, as the statements of*)
(* its three futures.  The unit of time is 1111 ms, rounded up.            *)

MCTasks == {root, world, hello}

Delay(d) == [op |-> "delay", dur |-> d]
Say(w) == [op |-> "print", text |-> w]

MCProgram ==
    root :> <<[op |-> "spawn", task |-> world], [op |-> "spawn", task |-> hello],
              Delay(9), [op |-> "exit"]>>
    @@ world :> <<Delay(1), Say("world 1"), Delay(1), Say("world 2")>>
    @@ hello :> <<Delay(2), Say("hello")>>

-----------------------------------------------------------------------------
(* Zones com, org, a.com and b.org, and questions for a name of a.com and  *)
(* for one that does not exist and only ends with the text a.com.          *)

Www == <<"www", "a", "com">>
NsCom == <<"ns", "com">>
NsOrg == <<"ns", "org">>
NsA == <<"ns", "a", "com">>
NsB == <<"ns", "b", "org">>
DnsQuestions == {Www, <<"noa", "com">>}
DnsEndings == {<<"noa", "a">>}

\* ofA and ofB serve a.com and b.org, those in glue come with an address.
World(ofA, ofB, glue, hosts, garbled) ==
    [ns |-> [d \in {<<"com">>, <<"org">>, <<"a", "com">>, <<"b", "org">>} |->
                CASE d = <<"com">> -> {NsCom} [] d = <<"org">> -> {NsOrg}
                  [] d = <<"a", "com">> -> ofA [] OTHER -> ofB],
     glue |-> glue \cup {NsCom, NsOrg},
     \* every host has an address of its own
     addr |-> [h \in hosts \cup {NsCom, NsOrg, Www} |-> h],
     garbled |-> garbled]

\* All is glued; a.com is served by a host of b.org without glue, by one that
\* does not exist, by two of which one is glued, by one that needs a.com itself;
\* and the server of b.org sends what cannot be parsed.
DnsWorlds ==
    {World({NsA}, {NsB}, {NsA, NsB}, {NsA, NsB}, {}),
     World({NsB}, {NsB}, {NsB}, {NsB}, {}),
     World({<<"gone", "org">>}, {NsB}, {NsB}, {NsB}, {}),
     World({NsA, NsB}, {NsB}, {NsB}, {NsB}, {}),
     World({NsB}, {NsA}, {}, {NsA, NsB}, {}),
     World({NsB}, {NsB}, {NsB}, {NsB}, {NsB})}

Dns == INSTANCE DnsResolver WITH Root <- <<"root">>

ASSUME ProgramFits ==
    Mini!TokioAssumption /\ Mini!SpawnAssumption /\ Mini!DelayAssumption

ASSUME ZonesFit == Dns!ZonesAssumption

vecVars == vars
tokioVars == <<now, late, scheduled, status, epc, task, at, delay, timers, printed>>
dnsVars == <<zones, asked, queue, stack, pc, packet, net, answers, lost, copies>>
allVars == <<vecVars, tokioVars, dnsVars, running>>

MCInit ==
    /\ running \in {"vec", "tokio", "dns"}
    /\ Init /\ Mini!Init /\ Dns!Init
    \* the zones are one for the others
    /\ running # "dns" => zones = World({NsA}, {NsB}, {NsA, NsB}, {NsA, NsB}, {})

InVec(step) == running = "vec" /\ step /\ UNCHANGED <<tokioVars, dnsVars, running>>
Tokio(step) == running = "tokio" /\ step /\ UNCHANGED <<vecVars, dnsVars, running>>
Resolving(step) == running = "dns" /\ step /\ UNCHANGED <<vecVars, tokioVars, running>>

\* Nothing is done with a vector that has gone.
gone == mode \in {"gone", "undefined"} /\ UNCHANGED vecVars

\* The resolver has ended, or waits for a datagram that may not come.
quiet == pc \in {"ended", "wait", "recv"} /\ UNCHANGED dnsVars

MCNext == InVec(Next) \/ InVec(gone) \/ Tokio(Mini!Next) 
          \/ Resolving(Dns!Next) \/ Resolving(quiet)

\* The fairness of MiniTokio and of DnsResolver; the caller of a vector may stop at any time.
MCSpec ==
    /\ MCInit /\ [][MCNext]_allVars
    /\ WF_allVars(Tokio(Mini!tick))
    /\ WF_allVars(Tokio(Mini!ExecutorStep))
    /\ WF_allVars(Tokio(\E tm \in timers : Mini!wake_by_ref(tm)))
    /\ WF_allVars(Resolving(Dns!Resolver)) /\ WF_allVars(Resolving(Dns!respond))

\* The executor alone.
TokioSpec == MCInit /\ running = "tokio" /\ [][Tokio(Mini!Next)]_allVars

-----------------------------------------------------------------------------
(* NoLostWakeup of MiniTokio: a task that awaits a delay will be polled    *)
(* again (mini_tokio.rs:268).                                              *)
NoLostWakeup == Mini!NoLostWakeup

(* PromptNeverPanics of MiniTokio: as long as the executor has been on     *)
(* time, it polls no task that has completed (mini_tokio.rs:242).          *)
PromptNeverPanics == Mini!PromptNeverPanics

(* NeverPolledAfterCompletion of MiniTokio: a task that is scheduled is    *)
(* ready to make progress (mini_tokio.rs:76), so it has not completed.     *)
NeverPolledAfterCompletion == Mini!NeverPolledAfterCompletion

(* AnswersRight of DnsResolver: a client is sent the address its name has, *)
(* whatever servers had to be found on the way (server.rs:58, 65, 76).     *)
AnswersRight == running = "dns" => Dns!AnswersRight

(* ProgramEnds of MiniTokio and QueriesAnswered of DnsResolver: no schedule*)
(* of the threads leaves every task of main waiting for ever               *)
(* (mini_tokio.rs:61), and every query is answered if no datagram is lost  *)
(* (server.rs:36).                                                         *)
CallsEnd ==
    /\ running = "tokio" => Mini!ProgramEnds
    /\ running = "dns" => Dns!QueriesAnswered
=============================================================================
