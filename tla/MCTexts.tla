------------------------------- MODULE MCTexts -------------------------------
(***************************************************************************)
(* Programs that read and write texts, in one run: those of TextPrograms,  *)
(* and two more functions that are applied to every input of a set.        *)
(***************************************************************************)
EXTENDS TextPrograms, SequencesExt, Bitwise

CONSTANTS BOUND, Atoms

(* What is sent to the HTTP connection: a request line that is accepted or *)
(* one that is not, headers, and an end with or without content.           *)
Line(words) == words \o <<"CR", "LF">>
ConnRequests ==
    {Line(<<"g">>) \o header \o end :
        header \in {<<>>, Line(<<"k">>), Line(<<"c">>), Line(<<"1">>), <<"x", "LF">>, <<"CR">>},
        end \in {<<>>, Line(<<>>), Line(<<>>) \o <<"x">>}}
    \cup {Line(<<>>), Line(<<"x">>) \o Line(<<>>), Line(<<"g">>) \o Line(<<"c">>) \o Line(<<"1">>)}

Dns == INSTANCE DnsPacket
FullDns == INSTANCE DnsPacket WITH BOUND <- 512
Pratt == INSTANCE PrattParsing

-----------------------------------------------------------------------------
(* Packets: one question, up to one answer and three authorities, over     *)
(* names that share labels and names that are equal; labels at the bounds  *)
(* of 6 bits and of a byte; opcodes in their place and not.                *)

a == <<97>>
Names == {<<a>>, <<a, <<98, 99>>>>, <<<<98, 99>>>>}

Record(q, d, data, h) ==
    [qtype |-> q, domain |-> d, ttl |-> 65539, data |-> data, host |-> h]
Servers == {Record(Dns!NS, d, <<>>, h) : d \in Names, h \in Names}
Recs ==
    {Record(Dns!A, d, <<1, 2, 3, 4>>, <<>>) : d \in Names}
    \cup {Record(Dns!AAAA, d, [k \in 1 .. 16 |-> k], <<>>) : d \in Names}
    \cup {Record(Dns!CNAME, d, <<>>, h) : d \in Names, h \in Names}
    \cup {Record(Dns!MX, d, <<0, 10>>, h) : d \in Names, h \in Names}
    \cup Servers

Header(f, g, op) ==
    [id |-> 4660, response |-> f, opcode |-> op, authoritative_answer |-> g,
     truncated_message |-> f, recursion_desired |-> g, recursion_available |-> f,
     z |-> g, rescode |-> 3]
Packet(h, q, an, au) ==
    [header |-> h, questions |-> <<q>>, answers |-> an, authorities |-> au,
     resources |-> <<>>]
Packets ==
    {Packet(Header(f, g, IF f THEN 16 ELSE 120), [name |-> n, qtype |-> Dns!AAAA], an, au) :
        f \in BOOLEAN, g \in BOOLEAN, n \in Names, an \in BoundedSeq(Recs, 1),
        au \in {<<>>} \cup {<<s>> : s \in Servers}}
    \cup
    {Packet(Header(TRUE, FALSE, 0), [name |-> <<a>>, qtype |-> Dns!NS], <<>>, au) :
        au \in [1 .. 3 -> Servers]}
    \cup
    {Packet(Header(f, g, op), [name |-> n, qtype |-> Dns!A], <<r>>, <<>>) :
        f \in BOOLEAN, g \in BOOLEAN, op \in {0, 2, 8, 72, 124, 128, 255},
        n \in {<<[k \in 1 .. size |-> 97], a>> :
                  size \in {1, 63, 64, 192, 255, 256, 257, 319, 320}},
        r \in Servers}

(* Names: labels, zeros, pointers to anywhere and chains of pointers.      *)
Buffers == BoundedSeq({0, 1, 66, 97, 192}, 6) \cup [1 .. 7 -> {0, 1, 2, 4, 192}]

(* Expressions, up to two operators deep, and some of three.               *)
Over(T, ops) ==
    {<<o, x, y>> : o \in ops \cap {"=", "+", "*", ".", "["}, x \in T, y \in T}
    \cup {<<o, x>> : o \in ops \cap {"-", "!"}, x \in T}
    \cup {<<o, x, y, z>> : o \in ops \cap {"?"}, x \in T, y \in T, z \in T}
Leaves == {<<atom>> : atom \in Atoms}
Grow(T, ops) == Over(T, ops) \cup T
AllOps == {"=", "+", "*", ".", "[", "-", "!", "?"}
FewOps == {"=", "*", "-", "!", "+"}
Trees == Grow(Grow(Leaves, AllOps), AllOps)
         \cup Grow(Grow(Grow(Leaves, FewOps), FewOps), FewOps)

(* JSON: words, everything over the characters of numbers and of strings,  *)
(* and code points at the bounds of the encodings.                         *)
Words == {<<"n", "u", "l", "l">>, <<"t", "r", "u", "e">>, <<"f", "a", "l", "s", "e">>,
          <<"t", "r", "u">>, <<"n", "x">>}
Numbers ==
    BoundedSeq({"-", "0", "9", ".", "e", "+"}, 6)
    \cup {number \o <<e>> \o exponent : number \in BoundedSeq({"-", "0", "9", "."}, 3),
            e \in {"e", "E"}, exponent \in BoundedSeq({"9", "+", "-", "0"}, 4)}
Texts ==
    Numbers \cup BoundedSeq({"QUOTE", "\\", "n", "SP", "0"}, 6)
    \cup {before \o word \o after : word \in Words,
            before \in {<<>>, <<"SP">>, <<"LF", "HT">>}, after \in {<<>>, <<"SP">>, <<"0">>}}

\* An exponent of 900 or more.
TooBigNumbers == {number \in Numbers : \E e \in DOMAIN number :
        /\ number[e] \in {"e", "E"} /\ e < Len(number) /\ number[e + 1] # "-"
        /\ \E i \in 1 .. e - 1 : number[i] = "9"
        /\ \E i \in e + 1 .. Len(number) - 2 : number[i] = "9"}
Points == {0, 1, 65, 127, 128, 255, 2047, 2048, 4095, 8364, 65535, 65536, 119070, 1114111}
FewTexts == {<<"9">>, <<"QUOTE", "QUOTE">>, <<"QUOTE", "QUOTE", "9">>, <<"QUOTE">>, <<"t", "r", "u", "e">>}

ByteStreams == BoundedSeq({"a", "b", "NL"}, 6)

(* Messages: payloads up to the longest of which two bytes hold the length,*)
(* and one byte more, with frames of no length before it and others behind,*)
(* up to more than the length of a buffer can tell; and lengths at the     *)
(* bounds of the encodings, cut in front of, behind and inside each frame. *)
Payloads == BoundedSeq({0, 1}, 3) \cup {[i \in 1 .. k |-> i % Base] : k \in 4 .. Base * Base}
Frames ==
    [payload : Payloads, tag : 0 .. 1, empties : 0 .. 2, checked : BOOLEAN,
     next : {<<>>, <<0, 1, 1>>, <<0, 3, 0, 0, 0>>, [i \in 1 .. 2 * Base * Base |-> 1]}]
Masks == <<<<1, 2, 128, 255>>, <<0, 170, 85, 3>>>>
WebSocketFrames ==
    [is_text : BOOLEAN, next : {0, 3}, missing : 0 .. 12, masks : {Masks},
     length : {0, 1, 4, 5, 124, 125, 126, 127, 128, 255, 256}]
    \cup [is_text : {TRUE}, next : {1}, missing : {0, 1, 8}, masks : {Masks},
          length : {65535, 65536}]
XorOfBytes == [byte \in 0 .. 255 |-> [key \in 0 .. 255 |-> byte ^^ key]]

-----------------------------------------------------------------------------
MCInit ==
    /\ running \in {"http", "connection", "lines", "value", "json", "utf8", "frame",
                    "websocket", "packet", "name", "tree"}
    /\ Starts
    /\ running # "lines" => reader = "readn" /\ bytes = <<>>
    /\ \/ Inputs
       \/ running = "packet" /\ input \in Packets
       \/ running = "name" /\ input \in Buffers
       \/ running = "tree" /\ input \in Trees

\* No more connections, no more calls, and the functions, which take no steps.
Ended ==
    /\ running \notin {"http", "value"}
    /\ running = "connection" => m_sockfd = "-1" /\ connections = MaxConnections
    /\ running = "lines" => Lines!Ended
    /\ UNCHANGED textVars

MCNext == Steps \/ Ended

MCSpec == MCInit /\ [][MCNext]_textVars

(* PacketRoundTrip and NameReadersAgree of DnsPacket: what packet.rs writes*)
(* it reads again, and the old and the new reader of names give the same   *)
(* name and go on at the same place (byte_packet_buffer.rs:261).           *)
(* TreeFromText of PrattParsing: an expression is parsed to the tree that  *)
(* its binding powers give it (pratt_parsing.rs:93).                       *)
WrittenIsRead ==
    /\ running = "packet" => Dns!PacketRoundTrip(input) /\ FullDns!PacketRoundTrip(input)
    /\ running = "name" => Dns!NameReadersAgree(input)
    /\ running = "tree" => Pratt!TreeFromText(input)
=============================================================================
