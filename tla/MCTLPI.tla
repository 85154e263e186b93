------------------------------- MODULE MCTLPI -------------------------------
(***************************************************************************)
(* Programs of TLPI that have nothing to do with each other, checked in    *)
(* one run: a behavior is a behavior of one of them, and the variables     *)
(* of the others keep their first values.                                  *)
(***************************************************************************)
EXTENDS SvshmTransfer

CONSTANTS totThreads, ReadsInTime, Children, Clients, Lengths, MaxKilledClients,
          Askers, MaxFile, QueueSize, MaxGone

VARIABLES
    idx, state, numLive, numUnjoined, threadDied, mutex, mpc, tpc, my, undefined,
    child, pending, pc, numLiveChildren, sigCnt,
    transport, seqNum, server, client, queue, seqLen, cpc, killed, resp,
    requests, fileServer, inHandler, sigchld, fileChild, left, asker, askerQueue,
    exists, file, got,
    running     \* which program it is

Joining == INSTANCE JoinAny
Reaping == INSTANCE SigchldReaper
Numbers == INSTANCE SequenceNumbers WITH pc <- cpc, MaxKills <- MaxKilledClients
Files == INSTANCE MessageServer
    WITH Clients <- Askers, server <- fileServer, child <- fileChild, client <- asker,
         queue <- askerQueue

svshmVars == vars
joinVars == <<idx, state, numLive, numUnjoined, threadDied, mutex, mpc, tpc, my,
              undefined>>
reapVars == <<child, pending, pc, numLiveChildren, sigCnt>>
numbersVars == <<transport, seqNum, server, client, queue, seqLen, cpc, killed, resp>>
filesVars == <<requests, fileServer, inHandler, sigchld, fileChild, left, asker,
               askerQueue, exists, file, got>>
allVars == <<svshmVars, joinVars, reapVars, numbersVars, filesVars, running>>

MCInit ==
    /\ Init /\ Joining!Init /\ Reaping!Init /\ Files!Init
    /\ \/ running = "numbers" /\ Numbers!Init
       \/ /\ running \in {"svshm", "join", "reap", "files"}
          /\ transport = "" /\ seqNum = 0 /\ server = "" /\ client = "" /\ queue = <<>>
          /\ seqLen = <<>> /\ cpc = [c \in Clients |-> "start"]
          /\ killed = <<>> /\ resp = <<>>
    /\ running # "files" => \A c \in Askers : file[c] = 0

Svshm(step) == /\ running = "svshm" /\ step
               /\ UNCHANGED <<joinVars, reapVars, numbersVars, filesVars, running>>
Join(step) == /\ running = "join" /\ step
              /\ UNCHANGED <<svshmVars, reapVars, numbersVars, filesVars, running>>
Reap(step) == /\ running = "reap" /\ step
              /\ UNCHANGED <<svshmVars, joinVars, numbersVars, filesVars, running>>
Number(step) == /\ running = "numbers" /\ step
                /\ UNCHANGED <<svshmVars, joinVars, reapVars, filesVars, running>>
InFiles(step) == /\ running = "files" /\ step
                 /\ UNCHANGED <<svshmVars, joinVars, reapVars, numbersVars, running>>

MCNext ==
    \/ Svshm(Next) \/ Join(Joining!Next) \/ Reap(Reaping!Next)
    \/ Number(Numbers!Next) \/ InFiles(Files!Next)

\* The fairness of the five specifications.
MCSpec ==
    /\ MCInit /\ [][MCNext]_allVars
    /\ WF_allVars(Svshm(Writer)) /\ WF_allVars(Svshm(Reader))
    /\ SF_allVars(Join(Joining!Main))
    /\ \A t \in Joining!Threads : SF_allVars(Join(Joining!Thread(t)))
    /\ WF_allVars(Reap(Reaping!Parent))
    /\ \A c \in Children : WF_allVars(Reap(Reaping!childExits(c)))
    /\ WF_allVars(Number(Numbers!Server))
    /\ \A c \in Clients : WF_allVars(Number(Numbers!Client(c)))
    /\ WF_allVars(InFiles(Files!Parent))
    /\ \A c \in Askers : /\ WF_allVars(InFiles(Files!Child(c)))
                        /\ WF_allVars(InFiles(Files!receive(c)))

-----------------------------------------------------------------------------
(* Whichever program it is ends: BothEnd of SvshmTransfer (every turn that *)
(* is taken is given), MainReturns of JoinAny (main joins every thread),   *)
(* MainReturns of SigchldReaper (no child is left behind); or it answers:  *)
(* ClientsAnswered of SequenceNumbers (unless the server waits for a client*)
(* that was killed, 44/7:34) and FilesSent of MessageServer (46/8:29).     *)
ProgramsEnd ==
    /\ running = "svshm" => BothEnd
    /\ running = "join" => Joining!MainReturns
    /\ running = "reap" => Reaping!MainReturns
    /\ running = "numbers" => Numbers!ClientsAnswered
    /\ running = "files" => Files!FilesSent

(* BytesAgree of SvshmTransfer, NumbersDisjoint of SequenceNumbers and     *)
(* FilesWhole of MessageServer: both ends count the same bytes, no number  *)
(* is given to two clients, and no client misses part of its file          *)
(* (48/2:35, 44/7:46, 46/8:29).                                            *)
AnswersRight ==
    /\ BytesAgree
    /\ running = "numbers" => Numbers!NumbersDisjoint
    /\ running = "files" => Files!FilesWhole

(* StateIsTrue of JoinAny, NoLostDeath of SigchldReaper and NoLostChild of *)
(* MessageServer: only terminated threads are marked so, and a child that  *)
(* died is reaped or announced (30/4:29, 26/5:17, 46/8:7).                 *)
DeathsKnown == Joining!StateIsTrue /\ Reaping!NoLostDeath /\ Files!NoLostChild
=============================================================================
