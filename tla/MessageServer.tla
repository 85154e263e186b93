---------------------------- MODULE MessageServer ----------------------------
(***************************************************************************)
(* The file server with System V message queues of TLPI/src/46_System_V_   *)
(* Message_Queues/8 and TLPI/lib/svmsg_file.h: a child for each request    *)
(* sends the file to the queue of the client.  The clients are not in the  *)
(* repository: each makes a queue, sends a request, takes messages up to   *)
(* the last one and removes the queue.  It may also go away early, and     *)
(* leave the queue there or not.                                           *)
(***************************************************************************)
EXTENDS Integers, Sequences, FiniteSets

CONSTANTS
    Clients,
    MaxFile,        \* bound: the messages with data a file takes
    QueueSize,      \* the messages a client's queue has room for
    MaxGone         \* bound: the clients that go away early

VARIABLES
    requests,       \* the server's queue, by client
    server,         \* "msgrcv" or "exited"
    inHandler,      \* grimReaper runs
    sigchld,        \* SIGCHLD is pending
    child,          \* of each client's child: "none", "open", "fail", "read",
                    \* "send", "end", "zombie" or "reaped"
    left,           \* the messages it has still to read
    client,         \* "start", "asked", "done", "gone"
    queue,          \* its queue
    exists,         \* its queue has not been removed
    file,           \* what it asks for: a number of messages, or NoFile
    got             \* the messages it has taken

serverVars == <<requests, server, inHandler, sigchld>>
vars == <<serverVars, child, left, client, queue, exists, file, got>>

NoFile == -1
RESP_MT_FAILURE == "failure"
RESP_MT_DATA == "data"
RESP_MT_END == "end"

\* The queue of the server is made, and the handler set.
main ==
    /\ requests = <<>> /\ server = "msgrcv"
    /\ inHandler = FALSE /\ sigchld = FALSE

Init ==
    /\ main
    /\ file \in [Clients -> {NoFile} \cup 0 .. MaxFile]
    /\ left = file
    /\ child = [c \in Clients |-> "none"]
    /\ client = [c \in Clients |-> "start"]
    /\ queue = [c \in Clients |-> <<>>]
    /\ exists = [c \in Clients |-> TRUE]
    /\ got = [c \in Clients |-> <<>>]

-----------------------------------------------------------------------------
(* The clients.                                                            *)

ask(c) ==
    /\ client[c] = "start" /\ server = "msgrcv"
    /\ client' = [client EXCEPT ![c] = "asked"]
    /\ requests' = Append(requests, c)
    /\ UNCHANGED <<server, inHandler, sigchld, child, left, queue, exists, file, got>>

Last(m) == m \in {RESP_MT_FAILURE, RESP_MT_END}
receive(c) ==
    /\ client[c] = "asked" /\ queue[c] # <<>>
    /\ got' = [got EXCEPT ![c] = Append(@, Head(queue[c]))]
    /\ queue' = [queue EXCEPT ![c] = Tail(@)]
    /\ client' = [client EXCEPT ![c] = IF Last(Head(queue[c])) THEN "done" ELSE @]
    /\ exists' = [exists EXCEPT ![c] = ~Last(Head(queue[c]))]
    /\ UNCHANGED <<serverVars, child, left, file>>

goAway(c) ==
    /\ client[c] = "asked"
    /\ Cardinality({d \in Clients : client[d] = "gone"}) < MaxGone
    /\ client' = [client EXCEPT ![c] = "gone"]
    /\ exists' \in {exists, [exists EXCEPT ![c] = FALSE]}
    /\ UNCHANGED <<serverVars, child, left, queue, file, got>>

-----------------------------------------------------------------------------
(* A child.  msgsnd waits for room; it fails when the queue is gone.       *)

moves(c, from, to) == child[c] = from /\ child' = [child EXCEPT ![c] = to]

\* Mutation: IPC_NOWAIT, and what there is no room for is lost.
sent_noWait(c, m) ==
    queue' = IF exists[c] /\ Len(queue[c]) < QueueSize
             THEN [queue EXCEPT ![c] = Append(@, m)] ELSE queue

sent(c, m) ==
    /\ Len(queue[c]) < QueueSize \/ ~exists[c]
    /\ queue' = IF exists[c] THEN [queue EXCEPT ![c] = Append(@, m)] ELSE queue

\* The child ends, and the parent is told.
ends(c) == child' = [child EXCEPT ![c] = "zombie"] /\ sigchld' = TRUE

openFile(c) ==
    /\ moves(c, "open", IF file[c] = NoFile THEN "fail" ELSE "read")
    /\ UNCHANGED <<serverVars, left, queue>>

sendFailure(c) ==
    /\ child[c] = "fail" /\ sent(c, RESP_MT_FAILURE) /\ ends(c)
    /\ UNCHANGED <<requests, server, inHandler, left>>

read(c) ==
    /\ moves(c, "read", IF left[c] > 0 THEN "send" ELSE "end")
    /\ left' = [left EXCEPT ![c] = IF @ > 0 THEN @ - 1 ELSE @]
    /\ UNCHANGED <<serverVars, queue>>

\* The file is given up when msgsnd fails.
sendData(c) ==
    /\ moves(c, "send", IF exists[c] THEN "read" ELSE "end")
    /\ sent(c, RESP_MT_DATA)
    /\ UNCHANGED <<serverVars, left>>

sendEnd(c) ==
    /\ child[c] = "end" /\ sent(c, RESP_MT_END) /\ ends(c)
    /\ UNCHANGED <<requests, server, inHandler, left>>

Child(c) ==
    /\ openFile(c) \/ sendFailure(c) \/ read(c) \/ sendData(c) \/ sendEnd(c)
    /\ UNCHANGED <<client, exists, file, got>>

-----------------------------------------------------------------------------
(* The parent.  A msgrcv that the handler interrupts is called again.      *)

msgrcv ==
    /\ server = "msgrcv" /\ ~inHandler /\ requests # <<>>
    /\ requests' = Tail(requests)
    /\ \/ child' = [child EXCEPT ![Head(requests)] = "open"] /\ UNCHANGED server
       \* fork fails: the queue is removed
       \/ server' = "exited" /\ UNCHANGED child
    /\ UNCHANGED <<inHandler, sigchld>>

grimReaper ==
    /\ server = "msgrcv" /\ sigchld /\ ~inHandler
    /\ inHandler' = TRUE /\ sigchld' = FALSE
    /\ UNCHANGED <<requests, server, child>>

waitpid ==
    /\ inHandler
    /\ \/ \E c \in Clients : moves(c, "zombie", "reaped") /\ UNCHANGED inHandler
       \/ /\ \A c \in Clients : child[c] # "zombie"
          /\ inHandler' = FALSE /\ UNCHANGED child
    /\ UNCHANGED <<requests, server, sigchld>>

Parent ==
    /\ msgrcv \/ grimReaper \/ waitpid
    /\ UNCHANGED <<left, client, queue, exists, file, got>>

-----------------------------------------------------------------------------
Next == Parent \/ \E c \in Clients : Child(c) \/ ask(c) \/ receive(c) \/ goAway(c)

Spec == Init /\ [][Next]_vars

(* The parent and the children run, and clients take what is there.        *)
FairSpec ==
    /\ Spec /\ WF_vars(Parent)
    /\ \A c \in Clients : WF_vars(Child(c)) /\ WF_vars(receive(c))

-----------------------------------------------------------------------------
(* A child that is dead is reaped, or will be (8:7, 8:60): SIGCHLD is      *)
(* pending, or the handler has not found the end of the dead children.     *)
NoLostChild ==
    server = "msgrcv" =>
        \A c \in Clients : child[c] = "zombie" => sigchld \/ inHandler

(* What a client has taken when it is done is its whole file, or the news  *)
(* that there is none (8:17, 8:28).                                        *)
Answer(c) ==
    IF file[c] = NoFile THEN <<RESP_MT_FAILURE>>
    ELSE Append([k \in 1 .. file[c] |-> RESP_MT_DATA], RESP_MT_END)
FilesWhole == \A c \in Clients : client[c] = "done" => got[c] = Answer(c)

(* A client whose request was taken up gets its answer, whoever goes away  *)
(* while its child waits for room in the queue (8:29).                     *)
FilesSent == \A c \in Clients : child[c] # "none" ~> client[c] \in {"done", "gone"}
=============================================================================
