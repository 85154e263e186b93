----------------------------- MODULE DnsResolver -----------------------------
(***************************************************************************)
(* The recursive resolver of rust_pg/src/my_dns/server.rs, with the records*)
(* packet.rs picks from a reply, between its clients and the name servers. *)
(* Names are sequences of labels; only questions for addresses are asked.  *)
(* Every lookup has the id 6666 and the port 43210, and takes the first    *)
(* datagram that comes, from whomever, for whatever question.              *)
(***************************************************************************)
EXTENDS Integers, Sequences, FiniteSets, Bags

CONSTANTS
    Clients,
    Questions,      \* the names clients ask for
    Endings,        \* the labels, in pairs, of which one ends with the other
    Worlds,         \* the zones, and who serves them: see Reply
    Root,           \* 198.41.0.4
    NoAddr,
    MaxDepth,       \* how many calls of recursive_loopup the stack holds
    MaxLost, MaxCopies

\* Names have lengths, nobody asks for none, what is in glue has an address, and
\* no host has the one that stands for none; MCRust assumes it of its instance.
ZonesAssumption ==
    /\ <<>> \notin Questions /\ \A n \in Questions : Len(n) \in Nat
    /\ \A w \in Worlds :
          /\ \A d \in DOMAIN w.ns : Len(d) \in Nat /\ \A h \in w.ns[d] : Len(h) \in Nat
          /\ w.glue \subseteq DOMAIN w.addr
          /\ \A h \in DOMAIN w.addr : w.addr[h] # NoAddr

VARIABLES
    zones,
    asked, queue,   \* what each client asks, those whose query has come
    stack,          \* the calls of recursive_loopup: its name, ns and r
    pc,             \* "wait", "send", "recv", "return" or "ended"
    packet,         \* the packet a call returns
    net,            \* a bag of datagrams between the resolver and name servers
    answers,        \* what each client was sent, or <<>>
    lost, copies    \* how many datagrams were lost, and duplicated

vars == <<zones, asked, queue, stack, pc, packet, net, answers, lost, copies>>

-----------------------------------------------------------------------------
(* The name servers.  A zone has hosts that serve it, ns, and hosts have  *)
(* addresses, addr.  Replies name them, with the addresses of those in     *)
(* glue; the servers at the addresses in garbled send what cannot be read. *)

Within(n, d) == Len(d) <= Len(n) /\ SubSeq(n, Len(n) - Len(d) + 1, Len(n)) = d
Above(w, n) == {d \in DOMAIN w.ns : Within(n, d)}
ZonesOf(w, a) == {d \in DOMAIN w.ns : \E h \in w.ns[d] : h \in DOMAIN w.addr /\ w.addr[h] = a}
                 \cup (IF a = Root THEN {<<>>} ELSE {})

Packet(rescode, addr, ns, glue) ==
    [rescode |-> rescode, addr |-> addr, ns |-> ns, glue |-> glue]
Referral(w, d) == Packet("NOERROR", NoAddr, {<<d, h>> : h \in w.ns[d]}, w.ns[d] \cap w.glue)

Reply(w, a, n) ==
    LET Mine == {d \in ZonesOf(w, a) : Within(n, d)}
        Below == {d \in Above(w, n) : \A m \in Mine : Len(d) > Len(m)}
    IN  CASE a \in w.garbled -> Packet("garbage", NoAddr, {}, {})
          [] a \notin w.garbled /\ Mine = {} -> Packet("REFUSED", NoAddr, {}, {})
          [] a \notin w.garbled /\ Mine # {} /\ Below # {} ->
                Referral(w, CHOOSE d \in Below : \A e \in Below : Len(d) <= Len(e))
          [] OTHER ->
                IF n \in DOMAIN w.addr THEN Packet("NOERROR", w.addr[n], {}, {})
                                       ELSE Packet("NXDOMAIN", NoAddr, {}, {})

Query(n, a) == [kind |-> "query", to |-> a, body |-> n]
Response(p) == [kind |-> "response", body |-> p]
Sent(m) == net (+) SetToBag({m})
Without(m) == net (-) SetToBag({m})

respond ==
    /\ \E m \in BagToSet(net) :
          /\ m.kind = "query"
          /\ net' = Without(m) (+) SetToBag({Response(Reply(zones, m.to, m.body))})
    /\ UNCHANGED <<zones, asked, queue, stack, pc, packet, answers, lost, copies>>

lose ==
    /\ lost < MaxLost /\ lost' = lost + 1
    /\ \E m \in BagToSet(net) : net' = Without(m)
    /\ UNCHANGED <<zones, asked, queue, stack, pc, packet, answers, copies>>

duplicate ==
    /\ copies < MaxCopies /\ copies' = copies + 1
    /\ \E m \in BagToSet(net) : net' = Sent(m)
    /\ UNCHANGED <<zones, asked, queue, stack, pc, packet, answers, lost>>

\* A datagram for the port of a lookup comes when there is none.
unreachable ==
    /\ pc # "recv"
    /\ \E m \in BagToSet(net) : m.kind = "response" /\ net' = Without(m)
    /\ UNCHANGED <<zones, asked, queue, stack, pc, packet, answers, lost, copies>>

ask(c) ==
    /\ asked[c] = <<>>
    /\ \E n \in Questions : asked' = [asked EXCEPT ![c] = n]
    /\ queue' = Append(queue, c)
    /\ UNCHANGED <<zones, stack, pc, packet, net, answers, lost, copies>>

-----------------------------------------------------------------------------
(* What packet.rs picks: of the name servers for qname those with an       *)
(* address in the reply, or any.  The order of records is the server's.    *)
(* Names are compared as texts: where labels end with one another, a name  *)
(* ends with domains that it is not in.                                    *)

ends_with(n, d) ==
    \/ Within(n, d)
    \/ /\ Len(d) \in 1 .. Len(n) /\ <<n[Len(n) - Len(d) + 1], d[1]>> \in Endings
       /\ Within(n, Tail(d))

get_ns(r, qname) == {z \in r.ns : ends_with(qname, z[1])}
resolved_ns(r, qname) == {zones.addr[z[2]] : z \in {y \in get_ns(r, qname) : y[2] \in r.glue}}
unresolved_ns(r, qname) == {z[2] : z \in get_ns(r, qname)}

Call(qname) == [qname |-> qname, ns |-> Root, r |-> <<>>]
Top == stack[Len(stack)]
Set(call) == [stack EXCEPT ![Len(stack)] = call]

Init ==
    /\ zones \in Worlds
    /\ asked = [c \in Clients |-> <<>>] /\ queue = <<>>
    /\ stack = <<>> /\ pc = "wait" /\ packet = <<>>
    /\ net = EmptyBag
    /\ answers = [c \in Clients |-> <<>>]
    /\ lost = 0 /\ copies = 0

\* From recv_from to the call of recursive_loopup.
handle_query ==
    /\ pc = "wait" /\ queue # <<>>
    /\ stack' = <<Call(asked[Head(queue)])>> /\ pc' = "send"
    /\ UNCHANGED <<queue, packet, net, answers>>

\* lookup binds its socket and sends.
send ==
    /\ pc = "send"
    /\ net' = Sent(Query(Top.qname, Top.ns)) /\ pc' = "recv"
    /\ UNCHANGED <<queue, stack, packet, answers>>

Returns(r) == pc' = "return" /\ packet' = r /\ UNCHANGED stack

\* Mutation: of the name servers any is asked for, with an address or without.
askNext_any(r) ==
    \E h \in unresolved_ns(r, Top.qname) :
       /\ stack' = Append(Set([Top EXCEPT !.r = r]), Call(h))
       /\ pc' = IF Len(stack) = MaxDepth THEN "ended" ELSE "send"
       /\ UNCHANGED packet

\* The name server to ask next, or to look up first.
askNext(r) ==
    \/ \E a \in resolved_ns(r, Top.qname) :
          stack' = Set([Top EXCEPT !.ns = a]) /\ pc' = "send" /\ UNCHANGED packet
    \/ /\ resolved_ns(r, Top.qname) = {}
       /\ \E h \in unresolved_ns(r, Top.qname) :
            /\ stack' = Append(Set([Top EXCEPT !.r = r]), Call(h))
            /\ pc' = IF Len(stack) = MaxDepth THEN "ended" ELSE "send"
       /\ UNCHANGED packet

\* A packet that cannot be parsed ends the program, as every error does.
recursive_loopup ==
    /\ pc = "recv"
    /\ \E m \in BagToSet(net) :
          /\ m.kind = "response" /\ net' = Without(m)
          /\ LET r == m.body
             IN  \/ r.rescode = "garbage" /\ pc' = "ended" /\ UNCHANGED <<stack, packet>>
                 \/ r.rescode = "NXDOMAIN" /\ Returns(r)
                 \/ r.rescode = "NOERROR" /\ r.addr # NoAddr /\ Returns(r)
                 \/ /\ r.rescode \notin {"garbage", "NXDOMAIN"}
                    /\ ~(r.rescode = "NOERROR" /\ r.addr # NoAddr)
                    /\ IF get_ns(r, Top.qname) = {} THEN Returns(r) ELSE askNext(r)
    /\ UNCHANGED <<queue, answers>>

\* Mutation: without an address it is the packet that has none that is returned.
get_random_a_thatOne ==
    /\ pc = "return" /\ Len(stack) > 1
    /\ LET caller == stack[Len(stack) - 1]
           callers == SubSeq(stack, 1, Len(stack) - 1)
       IN  IF packet.addr # NoAddr
           THEN /\ stack' = [callers EXCEPT ![Len(callers)] = [caller EXCEPT !.ns = packet.addr]]
                /\ pc' = "send" /\ UNCHANGED packet
           ELSE stack' = callers /\ UNCHANGED <<packet, pc>>
    /\ UNCHANGED <<queue, net, answers>>

\* Back in the call that needed the address of a name server.
get_random_a ==
    /\ pc = "return" /\ Len(stack) > 1
    /\ LET caller == stack[Len(stack) - 1]
           callers == SubSeq(stack, 1, Len(stack) - 1)
       IN  IF packet.addr # NoAddr
           THEN /\ stack' = [callers EXCEPT ![Len(callers)] = [caller EXCEPT !.ns = packet.addr]]
                /\ pc' = "send" /\ UNCHANGED packet
           ELSE stack' = callers /\ packet' = caller.r /\ UNCHANGED pc
    /\ UNCHANGED <<queue, net, answers>>

answer ==
    /\ pc = "return" /\ Len(stack) = 1
    /\ answers' = [answers EXCEPT ![Head(queue)] = packet]
    /\ queue' = Tail(queue)
    /\ stack' = <<>> /\ pc' = "wait" /\ packet' = <<>>
    /\ UNCHANGED net

Resolver ==
    /\ handle_query \/ send \/ recursive_loopup \/ get_random_a \/ answer
    /\ UNCHANGED <<zones, asked, lost, copies>>

Next ==
    \/ Resolver \/ respond \/ lose \/ duplicate \/ unreachable
    \/ \E c \in Clients : ask(c)

Spec == Init /\ [][Next]_vars

(* The resolver runs, and a name server that gets a query responds.        *)
FairSpec == Spec /\ WF_vars(Resolver) /\ WF_vars(respond)

-----------------------------------------------------------------------------
(* The names that are found whatever server is picked: of each zone above  *)
(* one, every server with an address in the referral serves it; and if     *)
(* there is none, every host has a name that is found so itself.           *)
Trusted(a) == a \notin zones.garbled
ZoneFound(d, found) ==
    LET glued == zones.ns[d] \cap zones.glue
        tried == IF glued # {} THEN glued ELSE zones.ns[d] \cap found
    IN  /\ tried = IF glued # {} THEN glued ELSE zones.ns[d]
        /\ tried # {} /\ \A h \in tried : h \in DOMAIN zones.addr /\ Trusted(zones.addr[h])
AllNames == Questions \cup UNION {zones.ns[d] : d \in DOMAIN zones.ns}
FoundIn[k \in Nat] ==
    IF k = 0 THEN {}
    ELSE {n \in AllNames : \A d \in Above(zones, n) : ZoneFound(d, FoundIn[k - 1])}
Found == UNION {FoundIn[k] : k \in 0 .. Cardinality(DOMAIN zones.ns)}

(* A client is sent what its name has, as long as no datagram came twice:  *)
(* the address, or that there is no such name.  For a name that needs a    *)
(* server that has no address it may be sent neither (server.rs:65, 76),   *)
(* and never anything else.                                                *)
Right(n, p) ==
    /\ p.addr # NoAddr => n \in DOMAIN zones.addr /\ p.addr = zones.addr[n]
    /\ p.rescode = "NXDOMAIN" => n \notin DOMAIN zones.addr
    /\ n \in Found => p.addr # NoAddr \/ p.rescode = "NXDOMAIN"
AnswersRight ==
    copies = 0 => \A c \in Clients : answers[c] # <<>> => Right(asked[c], answers[c])

(* Every query is answered if all the clients ask for names that are found *)
(* and no datagram is lost or came twice: a lookup waits for its reply for *)
(* ever (server.rs:36), and a garbled one ends the program (bin/my_dns.rs).*)
(* So do two zones that need each other's server (server.rs:68).           *)
Undisturbed == lost = 0 /\ copies = 0 /\ \A c \in Clients : asked[c] \in Found \cup {<<>>}
QueriesAnswered ==
    \A c \in Clients : asked[c] # <<>> ~> answers[c] # <<>> \/ ~Undisturbed
=============================================================================
