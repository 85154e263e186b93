------------------------------ MODULE DnsPacket ------------------------------
(***************************************************************************)
(* DNS packets as rust_pg/src/my_dns writes and reads them: a buffer of    *)
(* BOUND bytes with a position, names with compression (a name that was    *)
(* written before becomes a pointer to it), questions and records.         *)
(*                                                                         *)
(* A name is the sequence of its labels, a label the sequence of its bytes;*)
(* the root, the empty string in the code, is one empty label when it is   *)
(* written and no label when it has been read.  What String makes of bytes *)
(* that are not ASCII text is left out, and so is a dot inside a label.    *)
(* A failed operation gives Failed, which every later operation hands on,  *)
(* as the ? of the code does.                                              *)
(*                                                                         *)
(* checking_disabled and authed_data of a header are never written and     *)
(* never read: they stay FALSE, whatever a packet says, and have no field. *)
(***************************************************************************)
EXTENDS Integers, Sequences, SequencesExt, Bitwise

CONSTANT BOUND      \* MY_DNS_MAX_POS_BOUND

A == 1
NS == 2
CNAME == 5
MX == 15
AAAA == 28
KnownTypes == {A, NS, CNAME, MX, AAAA}

u16(n) == <<n \div 256, n % 256>>
u32(n) == u16(n \div 65536) \o u16(n % 65536)

-----------------------------------------------------------------------------
(* Writing.  The position is always at the end of what has been written.   *)

Failed == [ok |-> FALSE, buf |-> <<>>, name_record |-> <<>>]
NewBuffer == [ok |-> TRUE, buf |-> <<>>, name_record |-> <<>>]

pos(b) == Len(b.buf)

write(b, bytes) ==
    IF ~b.ok \/ pos(b) + Len(bytes) > BOUND THEN Failed
    ELSE [b EXCEPT !.buf = @ \o bytes]

set_u16(b, p, n) ==
    IF ~b.ok THEN Failed
    ELSE [b EXCEPT !.buf[p + 1] = u16(n)[1], !.buf[p + 2] = u16(n)[2]]

Recorded(b, qname) == qname \in DOMAIN b.name_record

\* Mutation: the position behind the length of the first label is recorded.
target_pos_behind(b, qname) == pos(b) + 1

\* A position of 0 is taken for none: at the start of the buffer the second
\* label is recorded for the name.
target_pos(b, qname) ==
    IF pos(b) # 0 \/ Len(qname) = 1 THEN pos(b) ELSE 1 + Len(qname[1])

\* A byte holds the length: a label of 256 bytes passes for an empty one,
\* and yet all its bytes are written.
len_u8(label) == Len(label) % 256

write_qnames(b, qname) ==
    IF ~b.ok THEN Failed
    ELSE IF Recorded(b, qname) THEN write(b, u16(b.name_record[qname] + 49152))
    ELSE IF \E k \in DOMAIN qname : len_u8(qname[k]) > 63 THEN Failed
    ELSE LET w == write(b, FlattenSeq([k \in DOMAIN qname |-> <<len_u8(qname[k])>> \o qname[k]])
                           \o <<0>>)
         IN IF ~w.ok THEN Failed
            ELSE [w EXCEPT !.name_record =
                     [q \in DOMAIN @ \cup {qname} |->
                         IF q = qname THEN target_pos(b, qname) ELSE @[q]]]

write_question(b, q) == write(write_qnames(b, q.name), u16(q.qtype) \o u16(1))

(* Nothing is written for a type the program does not know.                *)
write_record(b, rec) ==
    IF rec.qtype \notin KnownTypes THEN b
    ELSE LET head == write(write_qnames(b, rec.domain),
                           u16(rec.qtype) \o u16(1) \o u32(rec.ttl))
         IN IF rec.qtype \in {A, AAAA}
            THEN write(head, u16(Len(rec.data)) \o rec.data)
            ELSE LET data == write_qnames(write(head, u16(0) \o rec.data), rec.host)
                 IN set_u16(data, pos(head), pos(data) - (pos(head) + 2))

Bit(flag, value) == IF flag THEN value ELSE 0

\* The opcode is a byte, and is put over the flags as it is: it belongs four
\* bits wide and three bits up, where read_header leaves it.
header(p) ==
    LET h == p.header
    IN u16(h.id)
       \o << h.opcode | (Bit(h.response, 128) + Bit(h.authoritative_answer, 4)
                            + Bit(h.truncated_message, 2) + Bit(h.recursion_desired, 1)),
             Bit(h.recursion_available, 128) + Bit(h.z, 16) + h.rescode >>
       \o u16(Len(p.questions)) \o u16(Len(p.answers))
       \o u16(Len(p.authorities)) \o u16(Len(p.resources))

write_packet(p) ==
    LET questions == FoldLeft(write_question, write(NewBuffer, header(p)), p.questions)
    IN FoldLeft(write_record, questions, p.answers \o p.authorities \o p.resources)

-----------------------------------------------------------------------------
(* Reading, at a position of a buffer of BOUND bytes that begins with buf. *)

Unreadable == [ok |-> FALSE, pos |-> 0, val |-> <<>>, jumps |-> 0]
Result(p, v) == [ok |-> TRUE, pos |-> p, val |-> v, jumps |-> 0]

get(buf, p) == IF p < Len(buf) THEN buf[p + 1] ELSE 0
bytes(buf, p, size) == [k \in 1 .. size |-> get(buf, p + k - 1)]
read_u16(buf, p) == get(buf, p) * 256 + get(buf, p + 1)
read_u32(buf, p) == read_u16(buf, p) * 65536 + read_u16(buf, p + 2)

\* After a jump the text goes on without a dot, since the delimiter is empty
\* there: the last label before the jump and the first behind it are one.
joined(out, rest) ==
    IF out = <<>> \/ rest = <<>> THEN out \o rest
    ELSE Front(out) \o <<Last(out) \o Head(rest)>> \o Tail(rest)

\* Where reading goes on after a jump from p.
afterJump(p, r) == p + 2

RECURSIVE read_qname_plain(_, _, _, _)
read_qname_plain(buf, p, n, out) ==
    LET len == get(buf, p)
        offset == read_u16(buf, p) - 49152
        r == read_qname_plain(buf, offset, n + 2, <<>>)
    IN IF p >= BOUND THEN Unreadable
       ELSE IF len = 0 THEN Result(p + 1, out)
       ELSE IF len >= 192
       THEN IF n + 1 >= 5 \/ p + 1 >= BOUND \/ offset >= BOUND THEN Unreadable
            ELSE IF ~r.ok \/ p + 2 >= BOUND THEN Unreadable
            ELSE Result(afterJump(p, r), joined(out, r.val))
       ELSE IF p + 1 + len >= BOUND THEN Unreadable
       ELSE read_qname_plain(buf, p + 1 + len, n, Append(out, bytes(buf, p + 1, len)))

read_qname(buf, p) == read_qname_plain(buf, p, 0, <<>>)

\* to_lowercase, over ASCII
lower(label) == [k \in DOMAIN label |-> label[k] + (IF label[k] \in 65 .. 90 THEN 32 ELSE 0)]

(* The reader of names that is not used any more: no recursion, up to      *)
(* max_jumps jumps, and every letter a small one.  back is where to go on  *)
(* after the name; -1 before the first jump.                               *)
max_jumps == 5

RECURSIVE read_qname1_from(_, _, _, _, _)
read_qname1_from(buf, p, back, jumps_performed, outstr) ==
    LET len == get(buf, p)
        jumped == back # -1
    IN IF jumps_performed > max_jumps \/ p >= BOUND THEN Unreadable
       ELSE IF len >= 192
       THEN IF (~jumped /\ p + 2 >= BOUND) \/ p + 1 >= BOUND THEN Unreadable
            ELSE read_qname1_from(buf, read_u16(buf, p) - 49152,
                                  IF jumped THEN back ELSE p + 2,
                                  jumps_performed + 1, outstr)
       ELSE IF len = 0
       THEN IF ~jumped /\ p + 1 >= BOUND THEN Unreadable
            ELSE [Result(IF jumped THEN back ELSE p + 1, outstr)
                  EXCEPT !.jumps = jumps_performed]
       ELSE IF p + 1 + len >= BOUND THEN Unreadable
       ELSE read_qname1_from(buf, p + 1 + len, back, jumps_performed,
                             Append(outstr, lower(bytes(buf, p + 1, len))))

read_qname1(buf, p) == read_qname1_from(buf, p, -1, 0, <<>>)

read_question(buf, p) ==
    LET name == read_qname(buf, p)
    IN IF ~name.ok \/ name.pos + 4 > BOUND THEN Unreadable
       ELSE Result(name.pos + 4, [name |-> name.val, qtype |-> read_u16(buf, name.pos)])

(* The length of the data is used for unknown types only.                  *)
read_record(buf, p) ==
    LET domain == read_qname(buf, p)
        q == domain.pos
        qtype == read_u16(buf, q)
        rec(data, host) == [qtype |-> qtype, domain |-> domain.val,
                            ttl |-> read_u32(buf, q + 4), data |-> data, host |-> host]
        d == q + 10
        size == CASE qtype = A -> 4 [] qtype = AAAA -> 16 [] qtype = MX -> 2
                  [] qtype \in {NS, CNAME} -> 0 [] OTHER -> read_u16(buf, q + 8)
        host == read_qname(buf, d + size)
    IN IF ~domain.ok \/ d > BOUND THEN Unreadable
       ELSE IF qtype \notin KnownTypes
       THEN IF d + size >= BOUND THEN Unreadable ELSE Result(d + size, rec(<<>>, <<>>))
       ELSE IF d + size > BOUND THEN Unreadable
       ELSE IF qtype \in {A, AAAA}
       THEN Result(d + size, rec(bytes(buf, d, size), <<>>))
       ELSE IF ~host.ok THEN Unreadable
       ELSE Result(host.pos, rec(bytes(buf, d, size), host.val))

\* n things read one behind the other, from where r has come to.
read_each(buf, r, n, read_one(_, _)) ==
    FoldLeft(LAMBDA acc, k :
                 LET x == read_one(buf, acc.pos)
                 IN IF ~acc.ok \/ ~x.ok THEN Unreadable
                    ELSE Result(x.pos, Append(acc.val, x.val)),
             Result(r.pos, <<>>), [k \in 1 .. n |-> k])

On(byte, value) == (byte \div value) % 2 = 1

read_header(buf) ==
    LET b2 == get(buf, 2)
        b3 == get(buf, 3)
    IN [id |-> read_u16(buf, 0), response |-> On(b2, 128), opcode |-> b2 & 120,
        authoritative_answer |-> On(b2, 4), truncated_message |-> On(b2, 2),
        recursion_desired |-> On(b2, 1), recursion_available |-> On(b3, 128),
        z |-> (b3 \div 16) % 8 > 0, rescode |-> IF b3 % 16 <= 5 THEN b3 % 16 ELSE 0]

from_buffer(buf) ==
    LET qs == read_each(buf, Result(12, <<>>), read_u16(buf, 4), read_question)
        an == read_each(buf, qs, read_u16(buf, 6), read_record)
        au == read_each(buf, an, read_u16(buf, 8), read_record)
        re == read_each(buf, au, read_u16(buf, 10), read_record)
    IN IF ~qs.ok \/ ~an.ok \/ ~au.ok \/ ~re.ok THEN Unreadable
       ELSE Result(re.pos, [header |-> read_header(buf), questions |-> qs.val,
                            answers |-> an.val, authorities |-> au.val, resources |-> re.val])

-----------------------------------------------------------------------------
(* A header and names that have a form in a packet: an opcode in its four  *)
(* bits, and labels whose lengths are not taken for smaller ones.          *)
InForm(p) ==
    /\ p.header.opcode \in {8 * k : k \in 0 .. 15}
    /\ \A q \in Range(p.questions) : \A k \in DOMAIN q.name : Len(q.name[k]) < 256
    /\ \A rec \in Range(p.answers \o p.authorities \o p.resources) :
          /\ \A k \in DOMAIN rec.domain : Len(rec.domain[k]) < 256
          /\ \A k \in DOMAIN rec.host : Len(rec.host[k]) < 256

(* What is written is read back as it was, with every name that is written *)
(* as a pointer, if and only if it is in form: packets whose records have  *)
(* known types and whose names are not the root.  (A record of an unknown  *)
(* type is counted and not written, and the root is written with one zero  *)
(* too many.)                                                              *)
PacketRoundTrip(p) ==
    LET b == write_packet(p)
    IN b.ok => (InForm(p) <=> from_buffer(b.buf) = Result(pos(b), p))

(* The two readers of names agree but for capital letters, which only the  *)
(* old one makes small (line 224), the dot that read_qname forgets after a *)
(* jump (lines 136, 153), and the jumps they allow: two of the pointers of *)
(* a name, and five.  Neither is caught by a pointer that points to itself.*)
NameReadersAgree(buf) ==
    LET r == read_qname(buf, 0)
        r1 == read_qname1(buf, 0)
    IN /\ r.ok => /\ r1.ok /\ r.pos = r1.pos
                  /\ lower(FlattenSeq(r.val)) = FlattenSeq(r1.val)
       /\ r1.ok /\ r1.jumps <= 2 => r.ok
=============================================================================
