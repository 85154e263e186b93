----------------------------- MODULE Text_proofs -----------------------------
(***************************************************************************)
(* Proofs about the programs of TextPrograms: for buffers of any size, for *)
(* requests, lines, texts and messages of any length, and for pieces of    *)
(* any size.                                                               *)
(*                                                                         *)
(* The two HTTP parsers.  Both properties compare the answer with one that *)
(* is read off the whole stream, so neither is inductive: the invariants   *)
(* say how far the parser has come.  Behind start_line lie the complete    *)
(* lines (Done), which hold no stray CR or LF, and between start_line and  *)
(* checked_index there is neither; what was decided so far is what those   *)
(* lines say.  When the parser waits for more, it has taken every line the *)
(* stream has (Stuck).  The program overwrites the ends of the lines with  *)
(* NUL, and the invariant says exactly where: parse_line looks back at the *)
(* byte in front of an LF, and finds no CR there.  The connection keeps the*)
(* bytes as they are; its invariant relates the content length to the      *)
(* headers that were read, and holds of the first connection of the object *)
(* only, as the property does.                                             *)
(*                                                                         *)
(* The line readers: where each byte is, and what the call in progress has *)
(* taken (LinesInv).                                                       *)
(*                                                                         *)
(* tinyjson and the two codecs are functions of an input, and the proofs   *)
(* are about what they compute.  Two of them are recursive functions       *)
(* (parse_string, handle_connection): what each is at a position depends   *)
(* on positions behind it only, so that there is such a function           *)
(* (Downward, ReadExists, Handled), and what it is follows position by     *)
(* position from the end.                                                  *)
(***************************************************************************)
EXTENDS TextPrograms, SequenceTheorems, NaturalsInduction, WellFoundedInduction, TLAPS

(* The ends of the complete lines behind start_line, and the bytes at which *)
(* parse_line stops.                                                       *)
Done == {i \in Pairs : i + 1 <= start_line}
Stop(i) == stream[i] \in {"CR", "LF"}

(* The types, and that the indices are in order.                           *)
TypeOK ==
    /\ buffer \in Seq(Byte) /\ stream \in Seq(Byte) /\ Len(buffer) = Len(stream)
    /\ checked_index \in Nat /\ start_line \in Nat
    /\ start_line <= checked_index /\ checked_index <= Len(stream)
    /\ checkstate \in {"REQUEST_LINE", "HEADER"}
    /\ pc \in {"recv", "parse", "end"}
    /\ reply \in {"none", "good", "bad"}

(* The buffer is the stream with the ends of those lines overwritten.      *)
Overwritten ==
    \A i \in 1 .. Len(stream) :
        buffer[i] = IF i \in Done \/ i - 1 \in Done THEN "NUL" ELSE stream[i]

(* start_line is behind the end of a line, nothing in front of it is stray,*)
(* and the bytes from there to checked_index have been looked at.          *)
LinesEnd ==
    /\ start_line = 0 \/ start_line - 1 \in Pairs
    /\ \A i \in 1 .. start_line : ~Stray(i)
    /\ \A i \in start_line + 1 .. checked_index : ~Stop(i)

(* No line behind the first is blank: none of them has ended the request.  *)
NotBlank ==
    \A i, j \in Done :
        j < i /\ (\A k \in Done : k <= j \/ k >= i)
            => i # j + 2 /\ stream[j + 2] # "NUL"

(* While the request goes on, the state says which lines were taken.       *)
Parsing ==
    pc # "end" =>
      /\ reply = "none"
      /\ checkstate = "REQUEST_LINE" <=> start_line = 0
      /\ start_line # 0 => Accepted /\ NotBlank

(* Whoever waits for more bytes has taken every line.                      *)
Stuck == pc = "recv" => Ends = Done

ParserInv == TypeOK /\ Overwritten /\ LinesEnd /\ Parsing /\ Stuck /\ ChunksDoNotMatter

-----------------------------------------------------------------------------
(* A set of natural numbers has a least one.                               *)
LEMMA MinIs ==
    ASSUME NEW S \in SUBSET Nat, S # {}
    PROVE  Min(S) \in S /\ \A y \in S : Min(S) <= y
<1>1. PICK x \in S : \A y \in S : ~ (<<y, x>> \in OpToRel(<, Nat))
  BY NatLessThanWellFounded, WFMin
<1>2. \A y \in S : ~(y < x)
  BY <1>1 DEF OpToRel
<1>3. \A y \in S : x <= y
  BY <1>2
<1> QED
  BY <1>3 DEF Min

(* The bytes behind the last complete line are as they were received.      *)
LEMMA Untouched ==
    ASSUME TypeOK, Overwritten, NEW i \in start_line + 1 .. Len(stream)
    PROVE  buffer[i] = stream[i]
BY DEF TypeOK, Overwritten, Done, Pairs

(* Where the parser can go no further, the whole stream has no more lines. *)
LEMMA NoMoreLines ==
    ASSUME TypeOK, LinesEnd, NEW c \in start_line .. Len(stream),
           \A i \in start_line + 1 .. c : ~Stop(i),
           \/ c = Len(stream)
           \/ c + 1 = Len(stream)
           \/ c < Len(stream) /\ Stray(c + 1)
    PROVE  Ends = Done
<1>0. Len(stream) \in Nat /\ start_line \in Nat
  BY DEF TypeOK
<1>1. ASSUME NEW i \in Done PROVE i \in Ends
  BY <1>0, <1>1 DEF Done, Ends, LinesEnd, Pairs
<1>2. ASSUME NEW i \in Ends PROVE i \in Done
  <2>1. /\ i \in Pairs /\ i \in 1 .. Len(stream) - 1 /\ stream[i] = "CR"
        /\ \A j \in 1 .. i : ~Stray(j)
    BY <1>2 DEF Ends, Pairs
  <2>2. ASSUME i + 1 > start_line PROVE FALSE
    <3>1. i # start_line
      BY <1>0, <2>1 DEF LinesEnd, Pairs
    <3>2. i \in start_line + 1 .. Len(stream) /\ Stop(i)
      BY <1>0, <2>1, <2>2, <3>1 DEF Stop
    <3>3. i > c
      BY <1>0, <3>2
    <3> QED
      BY <1>0, <2>1, <3>3
  <2> QED
    BY <1>0, <2>1, <2>2 DEF Done
<1> QED
  BY <1>1, <1>2

-----------------------------------------------------------------------------
(* q is the end of the line that starts at start_line.                     *)
NextEnd(q) ==
    /\ q \in Pairs /\ q > start_line
    /\ \A i \in start_line + 1 .. q - 1 : ~Stop(i)

(* parse_line (lines 38-76): a line that is not complete or bad, and then  *)
(* no more lines are to come, or the next one.                             *)
LEMMA LineFound ==
    ASSUME TypeOK, Overwritten, LinesEnd
    PROVE  \/ /\ parse_line.status \in {"OPEN", "BAD"} /\ parse_line.nul = {}
              /\ parse_line.next \in checked_index .. Len(stream)
              /\ \A i \in start_line + 1 .. parse_line.next : ~Stop(i)
              /\ Ends = Done
           \/ \E q \in Pairs :
                 /\ NextEnd(q)
                 /\ parse_line = [status |-> "OK", next |-> q + 1, nul |-> {q - 1, q}]
<1> DEFINE p == Min(stops)
<1>0. /\ Len(stream) \in Nat /\ start_line \in Nat /\ checked_index \in Nat
      /\ Len(buffer) = Len(stream)
      /\ start_line <= checked_index
      /\ checked_index <= Len(stream)
  BY DEF TypeOK
<1>1. CASE stops = {}
  <2>1. parse_line = [status |-> "OPEN", next |-> Len(stream), nul |-> {}]
    BY <1>0, <1>1 DEF parse_line, read_index
  <2>2. ASSUME NEW i \in start_line + 1 .. Len(stream) PROVE ~Stop(i)
    <3>1. buffer[i] = stream[i]
      BY Untouched
    <3>2. CASE i <= checked_index
      BY <1>0, <3>2 DEF LinesEnd
    <3>3. CASE i > checked_index
      <4>1. i - 1 \in checked_index .. read_index - 1 /\ At(buffer, i - 1) = stream[i]
        BY <1>0, <3>1, <3>3 DEF read_index, At
      <4> QED
        BY <1>1, <4>1 DEF stops, Stop
    <3> QED
      BY <1>0, <3>2, <3>3
  <2>3. Ends = Done
    BY <1>0, <2>2, NoMoreLines
  <2> QED
    BY <1>0, <2>1, <2>2, <2>3
<1>2. CASE stops # {}
  <2> HIDE DEF p
  <2>1. p \in stops /\ \A i \in stops : p <= i
    <3>1. stops \subseteq Nat
      BY <1>0 DEF stops, read_index
    <3> QED
      BY <1>2, <3>1, MinIs DEF p
  <2>2. /\ p \in checked_index .. Len(stream) - 1 /\ p \in Nat
        /\ At(buffer, p) = stream[p + 1] /\ stream[p + 1] \in {"CR", "LF"}
        /\ buffer[p + 1] = stream[p + 1]
    <3>1. p \in checked_index .. Len(stream) - 1 /\ At(buffer, p) \in {"CR", "LF"}
      BY <1>0, <2>1 DEF stops, read_index
    <3>2. buffer[p + 1] = stream[p + 1]
      <4>1. p + 1 \in start_line + 1 .. Len(stream)
        BY <1>0, <3>1
      <4> QED
        BY <4>1, Untouched
    <3> QED
      BY <1>0, <3>1, <3>2 DEF At
  <2>3. ASSUME NEW i \in start_line + 1 .. p PROVE ~Stop(i)
    <3>1. buffer[i] = stream[i]
      <4>1. i \in start_line + 1 .. Len(stream)
        BY <1>0, <2>2
      <4> QED
        BY <4>1, Untouched
    <3>2. CASE i <= checked_index
      BY <1>0, <3>2 DEF LinesEnd
    <3>3. CASE i > checked_index
      <4>1. /\ i - 1 \in checked_index .. read_index - 1
            /\ At(buffer, i - 1) = stream[i]
            /\ ~(p <= i - 1)
        BY <1>0, <2>2, <3>1, <3>3 DEF read_index, At
      <4> QED
        BY <2>1, <4>1 DEF stops, Stop
    <3> QED
      BY <1>0, <3>2, <3>3
  <2>4. p + 1 # start_line + 1 - 1 /\ p \notin Pairs
    <3>1. ASSUME p \in Pairs PROVE FALSE
      <4>1. p >= 1 /\ stream[p] = "CR"
        BY <3>1 DEF Pairs
      <4>2. CASE p = start_line
        BY <1>0, <4>1, <4>2 DEF LinesEnd, Pairs
      <4>3. CASE p # start_line
        BY <1>0, <2>2, <2>3, <4>1, <4>3 DEF Stop
      <4> QED
        BY <4>2, <4>3
    <3> QED
      BY <1>0, <2>2, <3>1
  <2>5. CASE stream[p + 1] = "CR" /\ p + 1 = Len(stream)
    <3>1. parse_line = [status |-> "OPEN", next |-> p, nul |-> {}]
      BY <1>0, <1>2, <2>2, <2>5 DEF parse_line, read_index, p
    <3>2. Ends = Done
      BY <1>0, <2>2, <2>3, <2>5, NoMoreLines
    <3> QED
      BY <1>0, <2>2, <2>3, <3>1, <3>2
  <2>6. CASE stream[p + 1] = "CR" /\ p + 1 # Len(stream)
    <3>1. At(buffer, p + 1) = stream[p + 2]
      <4>1. p + 2 \in start_line + 1 .. Len(stream)
        BY <1>0, <2>2, <2>6
      <4> QED
        BY <1>0, <2>2, <4>1, Untouched DEF At
    <3>2. CASE stream[p + 2] = "LF"
      <4>1. parse_line = [status |-> "OK", next |-> p + 2, nul |-> {p, p + 1}]
        BY <1>0, <1>2, <2>2, <2>6, <3>1, <3>2 DEF parse_line, read_index, p
      <4>2. p + 1 \in Pairs
        BY <1>0, <2>2, <2>6, <3>2 DEF Pairs
      <4>3. NextEnd(p + 1)
        BY <1>0, <2>2, <2>3, <4>2 DEF NextEnd
      <4>4. (p + 1) + 1 = p + 2 /\ (p + 1) - 1 = p
        BY <2>2
      <4> QED
        BY <4>1, <4>2, <4>3, <4>4
    <3>3. CASE stream[p + 2] # "LF"
      <4>1. parse_line = [status |-> "BAD", next |-> p, nul |-> {}]
        BY <1>0, <1>2, <2>2, <2>6, <3>1, <3>3 DEF parse_line, read_index, p
      <4>2. Stray(p + 1)
        BY <2>2, <2>4, <2>6, <3>3 DEF Stray, Pairs
      <4>3. Ends = Done
        BY <1>0, <2>2, <2>3, <4>2, NoMoreLines
      <4> QED
        BY <1>0, <2>2, <2>3, <4>1, <4>3
    <3> QED
      BY <3>2, <3>3
  <2>7. CASE stream[p + 1] = "LF"
    <3>1. ASSUME p > 1 PROVE At(buffer, p - 1) # "CR"
      <4>1. p \in 1 .. Len(stream) /\ At(buffer, p - 1) = buffer[p]
        BY <1>0, <2>2, <3>1 DEF At
      <4>2. CASE p = start_line
        <5>1. p - 1 \in Done
          BY <1>0, <3>1, <4>2 DEF LinesEnd, Done
        <5>2. buffer[p] = "NUL"
          BY <4>1, <5>1 DEF Overwritten
        <5> QED
          BY <4>1, <5>2
      <4>3. CASE p # start_line
        <5>1. p \in start_line + 1 .. p /\ p \in start_line + 1 .. Len(stream)
          BY <1>0, <2>2, <4>3
        <5>2. buffer[p] = stream[p] /\ ~Stop(p)
          BY <5>1, <2>3, Untouched
        <5> QED
          BY <4>1, <5>2 DEF Stop
      <4> QED
        BY <4>2, <4>3
    <3>2. parse_line = [status |-> "BAD", next |-> p, nul |-> {}]
      BY <1>0, <1>2, <2>2, <2>7, <3>1 DEF parse_line, read_index, p
    <3>3. Stray(p + 1)
      BY <2>2, <2>4, <2>7 DEF Stray, Pairs
    <3>4. Ends = Done
      BY <1>0, <2>2, <2>3, <3>3, NoMoreLines
    <3> QED
      BY <1>0, <2>2, <2>3, <3>2, <3>4
  <2> QED
    BY <2>2, <2>5, <2>6, <2>7
<1> QED
  BY <1>1, <1>2
-----------------------------------------------------------------------------
(* recv: what the bytes say of the lines that are complete does not change.*)
LEMMA recvKeeps ==
    ASSUME ParserInv, recv
    PROVE  ParserInv'
<1> USE DEF ParserInv
<1>1. PICK n \in 1 .. MaxChunk : \E chunk \in [1 .. n -> Byte] :
          buffer' = buffer \o chunk /\ stream' = stream \o chunk
  BY DEF recv
<1>2. PICK chunk \in [1 .. n -> Byte] : buffer' = buffer \o chunk /\ stream' = stream \o chunk
  BY <1>1
<1>3. chunk \in Seq(Byte) /\ Len(chunk) = n /\ n \in Nat
  OBVIOUS
<1>4. /\ pc = "recv" /\ pc' = "parse"
      /\ UNCHANGED <<checked_index, start_line, checkstate, reply>>
  BY DEF recv
<1>5. /\ buffer' \in Seq(Byte) /\ stream' \in Seq(Byte)
      /\ Len(buffer') = Len(buffer) + n /\ Len(stream') = Len(stream) + n
      /\ \A i \in 1 .. Len(stream) : buffer'[i] = buffer[i] /\ stream'[i] = stream[i]
      /\ \A i \in Len(stream) + 1 .. Len(stream') : buffer'[i] = stream'[i]
  <2>1. buffer \in Seq(Byte) /\ stream \in Seq(Byte) /\ Len(buffer) = Len(stream)
    BY DEF TypeOK
  <2>2. buffer \o chunk \in Seq(Byte) /\ stream \o chunk \in Seq(Byte)
    BY <1>3, <2>1, ConcatProperties
  <2>3. Len(buffer \o chunk) = Len(buffer) + n /\ Len(stream \o chunk) = Len(stream) + n
    BY <1>3, <2>1, ConcatProperties
  <2>4. ASSUME NEW i \in 1 .. Len(stream)
        PROVE (buffer \o chunk)[i] = buffer[i] /\ (stream \o chunk)[i] = stream[i]
    BY <1>3, <2>1, <2>4
  <2>5. ASSUME NEW i \in Len(stream) + 1 .. Len(stream) + n
        PROVE (buffer \o chunk)[i] = (stream \o chunk)[i]
    BY <1>3, <2>1, <2>5
  <2> QED
    BY <1>2, <2>2, <2>3, <2>4, <2>5
<1>0. /\ Len(stream) \in Nat /\ start_line \in Nat /\ checked_index \in Nat /\ n >= 1
      /\ start_line <= checked_index /\ checked_index <= Len(stream)
      /\ Len(buffer) = Len(stream)
  BY <1>3 DEF TypeOK
<1>6. TypeOK'
  BY <1>0, <1>4, <1>5 DEF TypeOK
<1>7. /\ Pairs \subseteq Pairs'
      /\ \A i \in Int : i + 1 <= Len(stream) => (i \in Pairs <=> i \in Pairs')
  BY <1>0, <1>5 DEF Pairs
<1>8. Done' = Done
  BY <1>0, <1>4, <1>7 DEF Done, Pairs
<1>9. Overwritten'
  <2>1. ASSUME NEW i \in 1 .. Len(stream)'
        PROVE  buffer'[i] = IF i \in Done \/ i - 1 \in Done THEN "NUL" ELSE stream'[i]
    <3>1. CASE i <= Len(stream)
      BY <1>0, <1>5, <3>1 DEF Overwritten
    <3>2. CASE i > Len(stream)
      BY <1>0, <1>5, <3>2 DEF Done
    <3> QED
      BY <1>0, <3>1, <3>2
  <2> QED
    BY <1>8, <2>1 DEF Overwritten
<1>10. LinesEnd'
  <2>1. start_line' = 0 \/ start_line' - 1 \in Pairs'
    BY <1>4, <1>7 DEF LinesEnd
  <2>2. ASSUME NEW i \in 1 .. start_line PROVE ~Stray(i)'
    <3>1. ~Stray(i) /\ stream'[i] = stream[i]
      BY <1>0, <1>5 DEF LinesEnd
    <3> QED
      BY <1>7, <3>1 DEF Stray
  <2>3. ASSUME NEW i \in start_line + 1 .. checked_index PROVE ~Stop(i)'
    <3>1. ~Stop(i) /\ i \in 1 .. Len(stream)
      BY <1>0 DEF LinesEnd
    <3>2. stream'[i] = stream[i]
      BY <1>5, <3>1
    <3> QED
      BY <3>1, <3>2 DEF Stop
  <2> QED
    BY <1>4, <2>1, <2>2, <2>3 DEF LinesEnd
<1>11. Parsing'
  <2>1. reply' = "none" /\ (checkstate' = "REQUEST_LINE" <=> start_line' = 0)
    BY <1>4 DEF Parsing
  <2>2. ASSUME start_line' # 0 PROVE Accepted' /\ NotBlank'
    <3>1. Accepted /\ NotBlank
      BY <1>4, <2>2 DEF Parsing
    <3>2. start_line - 1 \in Pairs /\ Len(stream) >= 2
      BY <1>0, <1>4, <2>2 DEF LinesEnd, Pairs
    <3>3. Accepted'
      BY <1>0, <1>5, <3>1, <3>2 DEF Accepted
    <3>4. ASSUME NEW i \in Done, NEW j \in Done, j < i
          PROVE  stream'[j + 2] = stream[j + 2]
      BY <1>0, <1>5, <3>4 DEF Done, Pairs
    <3>5. NotBlank'
      BY <1>8, <3>1, <3>4 DEF NotBlank
    <3> QED
      BY <3>3, <3>5
  <2> QED
    BY <2>1, <2>2 DEF Parsing
<1> QED
  BY <1>4, <1>6, <1>9, <1>10, <1>11 DEF Stuck, ChunksDoNotMatter

-----------------------------------------------------------------------------
(* While the request goes on there is no answer.                           *)
LEMMA NoAnswerYet ==
    ASSUME TypeOK, LinesEnd, Ends = Done, start_line # 0 => Accepted /\ NotBlank
    PROVE  Answer = "none"
<1>1. CASE start_line = 0
  <2>1. Ends = {}
    BY <1>1 DEF TypeOK, Done, Pairs
  <2> QED
    BY <2>1 DEF Answer
<1>2. CASE start_line # 0
  <2>1. Accepted /\ NotBlank
    BY <1>2
  <2>2. ASSUME NEW i \in Ends, Blank(i) PROVE FALSE
    <3>1. PICK j \in Done : /\ j < i /\ (i = j + 2 \/ stream[j + 2] = "NUL")
                            /\ \A k \in Done : k <= j \/ k >= i
      BY <2>2 DEF Blank
    <3> QED
      BY <2>1, <2>2, <3>1 DEF NotBlank
  <2> QED
    BY <2>1, <2>2 DEF Answer
<1> QED
  BY <1>1, <1>2

(* A line that is not complete, or bad: the loop ends.                     *)
LEMMA StillLooking ==
    ASSUME ParserInv, pc = "parse", parse_content, parse_line.status \in {"OPEN", "BAD"},
           parse_line.nul = {},
           parse_line.next \in checked_index .. Len(stream),
           \A i \in start_line + 1 .. parse_line.next : ~Stop(i),
           Ends = Done
    PROVE  ParserInv'
<1> USE DEF ParserInv
<1>1. /\ checked_index' = parse_line.next /\ start_line' = start_line
      /\ pc' = "recv" /\ UNCHANGED <<checkstate, reply, stream>>
  BY DEF parse_content
<1>2. buffer' = buffer
  <2>1. buffer' = [i \in DOMAIN buffer |-> buffer[i]]
    BY DEF parse_content
  <2> QED
    BY <2>1 DEF TypeOK
<1>3. TypeOK' /\ Overwritten' /\ LinesEnd'
  BY <1>1, <1>2 DEF TypeOK, Overwritten, LinesEnd, Done, Pairs, Stray, Stop
<1>4. reply = "none" /\ (start_line # 0 => Accepted /\ NotBlank)
  BY DEF Parsing
<1>5. Parsing'
  <2>1. Pairs' = Pairs
    BY <1>1 DEF Pairs
  <2>2. Done' = Done
    BY <1>1, <2>1 DEF Done
  <2> QED
    BY <1>1, <1>4, <2>2 DEF Parsing, Accepted, NotBlank
<1>6. Answer = "none"
  BY <1>4, NoAnswerYet
<1>7. Answer' = Answer /\ Ends' = Ends /\ Done' = Done
  BY <1>1 DEF Answer, Ends, Done, Pairs, Stray, Accepted, Blank, First
<1> QED
  BY <1>1, <1>3, <1>4, <1>5, <1>6, <1>7 DEF Stuck, ChunksDoNotMatter

-----------------------------------------------------------------------------
(* A complete line is taken: its end joins those behind the parser.        *)
LEMMA LineTaken ==
    ASSUME ParserInv, parse_content, NEW q \in Pairs, NextEnd(q),
           parse_line = [status |-> "OK", next |-> q + 1, nul |-> {q - 1, q}]
    PROVE  ParserInv'
<1> USE DEF ParserInv
<1> DEFINE b == [i \in DOMAIN buffer |-> IF i - 1 \in {q - 1, q} THEN "NUL" ELSE buffer[i]]
<1>0. /\ Len(stream) \in Nat /\ start_line \in Nat /\ checked_index \in Nat
      /\ Len(buffer) = Len(stream)
      /\ start_line <= checked_index
      /\ checked_index <= Len(stream)
      /\ q \in Nat /\ q >= 1 /\ q + 1 <= Len(stream) /\ q > start_line
      /\ stream[q] = "CR" /\ stream[q + 1] = "LF"
      /\ \A i \in start_line + 1 .. q - 1 : ~Stop(i)
  BY DEF TypeOK, NextEnd, Pairs
<1>1. /\ pc = "parse" /\ buffer' = b /\ checked_index' = q + 1 /\ start_line' = q + 1
      /\ stream' = stream
      /\ \/ /\ checkstate = "REQUEST_LINE"
            /\ IF parse_requestline(b, start_line)
               THEN checkstate' = "HEADER" /\ UNCHANGED <<pc, reply>>
               ELSE pc' = "end" /\ reply' = "bad" /\ UNCHANGED checkstate
         \/ /\ checkstate = "HEADER"
            /\ IF parse_headers(b, start_line)
               THEN pc' = "end" /\ reply' = "good"
               ELSE UNCHANGED <<pc, reply>>
            /\ UNCHANGED checkstate
  BY DEF parse_content
<1>2. /\ b \in Seq(Byte) /\ Len(b) = Len(stream)
      /\ \A i \in 1 .. Len(stream) : b[i] = IF i \in {q, q + 1} THEN "NUL" ELSE buffer[i]
  <2>1. DOMAIN buffer = 1 .. Len(stream) /\ buffer \in [1 .. Len(stream) -> Byte]
    BY <1>0 DEF TypeOK
  <2>2. "NUL" \in Byte
    BY DEF Byte
  <2>3. b \in [1 .. Len(stream) -> Byte]
    BY <2>1, <2>2
  <2>4. b \in Seq(Byte) /\ Len(b) = Len(stream)
    BY <1>0, <2>3
  <2> QED
    BY <1>0, <2>1, <2>4
<1> HIDE DEF b
<1>3. Done' = Done \cup {q} /\ (\A j \in Done : j < q /\ j + 1 <= start_line)
  <2>1. ASSUME NEW i \in Pairs, i + 1 <= q + 1 PROVE i + 1 <= start_line \/ i = q
    <3>1. i \in Nat /\ stream[i] = "CR" /\ i >= 1
      BY <2>1 DEF Pairs
    <3>2. i # start_line
      BY <1>0, <3>1 DEF LinesEnd, Pairs
    <3>3. ~(i \in start_line + 1 .. q - 1)
      BY <1>0, <3>1 DEF Stop
    <3> QED
      BY <1>0, <2>1, <3>1, <3>2, <3>3
  <2>2. Done' = {i \in Pairs : i + 1 <= q + 1}
    <3>1. Pairs' = Pairs
      BY <1>1 DEF Pairs
    <3> QED
      BY <1>1, <3>1 DEF Done
  <2> QED
    BY <1>0, <2>1, <2>2 DEF Done, Pairs
<1>4. TypeOK'
  <2>1. checkstate' \in {"REQUEST_LINE", "HEADER"} /\ pc' \in {"recv", "parse", "end"}
        /\ reply' \in {"none", "good", "bad"}
    BY <1>1 DEF TypeOK
  <2> QED
    BY <1>0, <1>1, <1>2, <2>1 DEF TypeOK
<1>5. Overwritten'
  <2>1. ASSUME NEW i \in 1 .. Len(stream)
        PROVE  b[i] = IF i \in Done' \/ i - 1 \in Done' THEN "NUL" ELSE stream[i]
    BY <1>0, <1>2, <1>3 DEF Overwritten
  <2> QED
    BY <1>1, <2>1 DEF Overwritten
<1>6. LinesEnd'
  <2>1. ASSUME NEW i \in 1 .. q + 1 PROVE ~Stray(i)
    <3>1. CASE i <= start_line
      BY <1>0, <3>1 DEF LinesEnd
    <3>2. CASE i > start_line /\ i < q
      BY <1>0, <3>2 DEF Stop, Stray
    <3>3. CASE i >= q
      BY <1>0, <3>3 DEF Stray
    <3> QED
      BY <1>0, <3>1, <3>2, <3>3
  <2>2. ASSUME NEW i \in 1 .. start_line' PROVE ~(Stray(i)')
    BY <1>1, <2>1 DEF Stray, Pairs
  <2>3. start_line' - 1 = q /\ q \in Pairs'
    BY <1>0, <1>1 DEF Pairs
  <2>4. \A i \in start_line' + 1 .. checked_index' : ~Stop(i)'
    BY <1>0, <1>1
  <2> QED
    BY <2>2, <2>3, <2>4 DEF LinesEnd
<1>7. q \in Ends /\ Ends' = Ends /\ Accepted' = Accepted /\ Answer' = Answer
  <2>1. \A i \in 1 .. q : ~Stray(i)
    <3>1. \A i \in 1 .. q + 1 : ~Stray(i)
      BY <1>1, <1>6 DEF LinesEnd, Stray, Pairs
    <3> QED
      BY <1>0, <3>1
  <2> QED
    BY <1>1, <2>1 DEF Answer, Ends, Pairs, Stray, Accepted, Blank, First
<1>8. reply = "none" /\ (checkstate = "REQUEST_LINE" <=> start_line = 0)
      /\ (start_line # 0 => Accepted /\ NotBlank)
  BY <1>1 DEF Parsing
<1>9. CASE checkstate = "REQUEST_LINE"
  <2>1. start_line = 0 /\ Done = {}
    BY <1>8, <1>9 DEF Done, Pairs
  <2>2. parse_requestline(b, start_line) <=> Accepted
    <3>1. b[1] = (IF q = 1 THEN "NUL" ELSE stream[1]) /\ At(b, 0) = b[1]
      BY <1>0, <1>2, <2>1 DEF Overwritten, At
    <3>2. b[2] = (IF 2 \in {q, q + 1} THEN "NUL" ELSE stream[2]) /\ At(b, 1) = b[2]
      BY <1>0, <1>2, <2>1 DEF Overwritten, At
    <3>3. stream[2] = "CR" /\ q # 2 => q = 1
      BY <1>0, <2>1 DEF Stop
    <3>4. parse_requestline(b, start_line) <=> b[1] = "g" /\ b[2] = "NUL"
      BY <2>1, <3>1, <3>2 DEF parse_requestline
    <3> QED
      BY <1>0, <3>1, <3>2, <3>3, <3>4 DEF Accepted
  <2>3. CASE parse_requestline(b, start_line)
    <3>1. checkstate' = "HEADER" /\ pc' = "parse" /\ reply' = "none"
      BY <1>1, <1>8, <1>9, <2>3
    <3>2. NotBlank'
      BY <1>0, <1>3, <2>1 DEF NotBlank
    <3>3. Parsing'
      BY <1>0, <1>1, <1>7, <2>2, <2>3, <3>1, <3>2 DEF Parsing
    <3> QED
      BY <1>4, <1>5, <1>6, <3>1, <3>3 DEF Stuck, ChunksDoNotMatter
  <2>4. CASE ~parse_requestline(b, start_line)
    <3>1. pc' = "end" /\ reply' = "bad"
      BY <1>1, <1>9, <2>4
    <3>2. Answer = "bad"
      BY <1>7, <2>2, <2>4 DEF Answer
    <3> QED
      BY <1>4, <1>5, <1>6, <1>7, <3>1, <3>2 DEF Parsing, Stuck, ChunksDoNotMatter
  <2> QED
    BY <2>3, <2>4
<1>10. CASE checkstate = "HEADER"
  <2>1. start_line # 0 /\ Accepted /\ NotBlank
    BY <1>8, <1>10
  <2> DEFINE j == start_line - 1
  <2>2. j \in Done /\ j < q /\ j + 2 = start_line + 1 /\ (\A k \in Done : k <= j)
        /\ j \in Nat
    BY <1>0, <1>3, <2>1 DEF LinesEnd, Done, Pairs
  <2>3. parse_headers(b, start_line) <=> q = j + 2 \/ stream[j + 2] = "NUL"
    <3>1. start_line + 1 \in 1 .. Len(stream)
      BY <1>0
    <3>2. buffer[start_line + 1] = stream[start_line + 1]
      BY <1>0, <3>1, Untouched
    <3>3. At(b, start_line) = IF start_line + 1 = q THEN "NUL" ELSE stream[start_line + 1]
      BY <1>0, <1>2, <3>1, <3>2 DEF At
    <3> QED
      BY <2>2, <3>3 DEF parse_headers
  <2> HIDE DEF j
  <2>4. CASE parse_headers(b, start_line)
    <3>1. pc' = "end" /\ reply' = "good"
      BY <1>1, <1>10, <2>4
    <3>2. j \in Ends
      <4>1. \A i \in 1 .. j : ~Stray(i)
        BY <1>0, <2>2 DEF LinesEnd, Done
      <4> QED
        BY <2>2, <4>1 DEF Ends, Done
    <3>3. \A k \in Ends : k <= j \/ k >= q
      <4>1. ASSUME NEW k \in Ends, k < q PROVE k <= j
        <5>1. k \in Pairs /\ k + 1 <= q + 1
          BY <1>0, <4>1 DEF Ends, Pairs
        <5>2. k \in Done'
          BY <1>1, <5>1 DEF Done, Pairs
        <5>3. k \in Done
          BY <1>3, <4>1, <5>1, <5>2 DEF Pairs
        <5> QED
          BY <2>2, <5>3
      <4> QED
        BY <1>0, <4>1 DEF Ends, Pairs
    <3>4. Blank(q)
      BY <2>2, <2>3, <2>4, <3>2, <3>3 DEF Blank
    <3>5. First # q
      <4>1. Ends \in SUBSET Nat
        BY DEF Ends, Pairs
      <4>2. First <= j /\ First \in Nat
        BY <3>2, <4>1, MinIs DEF First
      <4> QED
        BY <1>0, <2>2, <4>2
    <3>6. Answer = "good"
      <4>1. \E i \in Ends \ {First} : Blank(i)
        BY <1>7, <3>4, <3>5
      <4> QED
        BY <1>7, <2>1, <4>1 DEF Answer
    <3> QED
      BY <1>4, <1>5, <1>6, <1>7, <3>1, <3>6 DEF Parsing, Stuck, ChunksDoNotMatter
  <2>5. CASE ~parse_headers(b, start_line)
    <3>1. checkstate' = "HEADER" /\ pc' = "parse" /\ reply' = "none"
      BY <1>1, <1>8, <1>10, <2>5
    <3>2. ASSUME NEW i \in Done', NEW k \in Done', k < i,
                 \A m \in Done' : m <= k \/ m >= i
          PROVE  i # k + 2 /\ stream[k + 2] # "NUL"
      <4>0. Done \subseteq Nat
        BY DEF Done, Pairs
      <4>1. CASE i = q
        <5>1. k \in Done /\ k < q
          BY <1>0, <1>3, <3>2, <4>0, <4>1
        <5>2. k <= j /\ j <= k
          BY <1>0, <1>3, <2>2, <3>2, <4>0, <4>1, <5>1
        <5>3. k = j
          BY <2>2, <4>0, <5>1, <5>2
        <5> QED
          BY <2>3, <2>5, <4>1, <5>3
      <4>2. CASE i # q
        <5>1. i \in Done /\ k \in Done
          BY <1>0, <1>3, <3>2, <4>0, <4>2
        <5>2. \A m \in Done : m <= k \/ m >= i
          BY <1>3, <3>2
        <5> QED
          BY <2>1, <3>2, <5>1, <5>2 DEF NotBlank
      <4> QED
        BY <4>1, <4>2
    <3>3. NotBlank'
      BY <1>1, <3>2 DEF NotBlank
    <3>4. Parsing'
      BY <1>0, <1>1, <1>7, <2>1, <3>1, <3>3 DEF Parsing
    <3> QED
      BY <1>4, <1>5, <1>6, <3>1, <3>4 DEF Stuck, ChunksDoNotMatter
  <2> QED
    BY <2>4, <2>5
<1> QED
  BY <1>9, <1>10 DEF TypeOK

-----------------------------------------------------------------------------
(* The invariant holds at first, and every step keeps it.                  *)
LEMMA ParserStarts == Init => ParserInv
<1> SUFFICES ASSUME Init PROVE ParserInv
  OBVIOUS
<1>1. /\ buffer = <<>> /\ stream = <<>> /\ checked_index = 0 /\ start_line = 0
      /\ checkstate = "REQUEST_LINE" /\ pc = "recv" /\ reply = "none"
  BY DEF Init
<1>2. buffer \in Seq(Byte) /\ stream \in Seq(Byte) /\ Len(stream) = 0 /\ Len(buffer) = 0
  BY <1>1
<1>3. Pairs = {}
  BY <1>2 DEF Pairs
<1>4. TypeOK /\ Overwritten /\ LinesEnd /\ Parsing /\ Stuck
  BY <1>1, <1>2, <1>3 DEF TypeOK, Overwritten, LinesEnd, Parsing, Stuck, Ends, Done
<1>5. Answer = "none"
  BY <1>3 DEF Answer, Ends
<1> QED
  BY <1>1, <1>4, <1>5 DEF ParserInv, ChunksDoNotMatter

LEMMA ParserKeeps == ParserInv /\ [Next]_vars => ParserInv'
<1> SUFFICES ASSUME ParserInv, [Next]_vars PROVE ParserInv'
  OBVIOUS
<1>1. CASE recv
  BY <1>1, recvKeeps
<1>2. CASE recvEnds \/ ended \/ UNCHANGED vars
  <2>1. /\ UNCHANGED <<buffer, checked_index, start_line, checkstate, reply, stream>>
        /\ pc' = pc \/ (pc = "recv" /\ pc' = "end")
    BY <1>2 DEF recvEnds, ended, vars
  <2>2. TypeOK' /\ Overwritten' /\ LinesEnd' /\ Parsing'
    BY <2>1 DEF ParserInv, TypeOK, Overwritten, LinesEnd, Parsing, Done, Pairs, Stray, Stop,
                Accepted, NotBlank
  <2>3. Answer' = Answer /\ Ends' = Ends /\ Done' = Done
    BY <2>1 DEF Answer, Ends, Done, Pairs, Stray, Accepted, Blank, First
  <2> QED
    BY <2>1, <2>2, <2>3 DEF ParserInv, Stuck, ChunksDoNotMatter
<1>3. CASE parse_content
  <2>1. TypeOK /\ Overwritten /\ LinesEnd /\ pc = "parse"
    BY <1>3 DEF ParserInv, parse_content
  <2> QED
    BY <1>3, <2>1, LineFound, StillLooking, LineTaken
<1> QED
  BY <1>1, <1>2, <1>3 DEF Next

(* The reply is the one a reader of the whole stream would give, whatever  *)
(* the pieces in which recv delivers it (8/1.cpp:48 and 63).               *)
THEOREM PiecesMakeNoDifference == Spec => []ChunksDoNotMatter
<1>1. ParserInv => ChunksDoNotMatter
  BY DEF ParserInv
<1> QED
  BY <1>1, ParserStarts, ParserKeeps, PTL DEF Spec

-----------------------------------------------------------------------------
(* The connections.                                                        *)
LEMMA ConnMinIs ==
    ASSUME NEW S \in SUBSET Nat, S # {}
    PROVE  Conn!Min(S) \in S /\ \A y \in S : Conn!Min(S) <= y
<1>1. Min(S) = Conn!Min(S)
  BY DEF Min, Conn!Min
<1> QED
  BY <1>1, MinIs

(* As above: the ends of the complete lines, and where parse_line stops.   *)
ConnDone == {i \in Conn!CRLF : i + 1 <= m_start_line}
ConnStop(i) == received[i] \in {"CR", "LF"}
(* The request has been found to be whole, or bad.                         *)
Answered == result \in {"GET_REQUEST", "BAD_REQUEST"}

(* The count of the users, and who is where.                               *)
Counted ==
    /\ m_sockfd \in {"-1", "open"} /\ m_user_count = Conn!users
    /\ connections \in Nat /\ (m_sockfd = "open" => connections >= 1)
    /\ at \in {"wait", "read", "process"} /\ (at # "wait" => m_sockfd = "open")
    /\ Answered => at = "process"

(* The buffer holds what was received; the indices are in order.           *)
Received ==
    /\ buf = received /\ received \in Seq(Conn!Byte)
    /\ m_checket_idx \in Nat /\ m_start_line \in Nat
    /\ m_start_line <= m_checket_idx /\ m_checket_idx <= Len(received)
    /\ m_content_length \in {0, 1} /\ Len(received) <= READ_BUFFER_SIZE
    /\ todo \in Seq(Conn!Byte) /\ inbox \in Seq(Conn!Byte)

(* As LinesEnd of the program.                                             *)
ConnLinesEnd ==
    /\ m_start_line = 0 \/ m_start_line - 1 \in Conn!CRLF
    /\ \A i \in 1 .. m_start_line : ~Conn!Stray(i)
    /\ \A i \in m_start_line + 1 .. m_checket_idx : ~ConnStop(i)

(* What the complete lines say: the length of the content, and that the    *)
(* request line is one that is accepted.                                   *)
LengthSaid ==
    IF \E i \in ConnDone : i + 3 \in ConnDone /\ received[i + 2] = "1" THEN 1 ELSE 0
FirstIsGood ==
    \E i \in ConnDone : /\ \A j \in ConnDone : i <= j
                        /\ SubSeq(received, 1, i - 1) = <<"g">>

(* Each state of the second automaton, by the lines that were taken: only  *)
(* the last of them, and only before the content, is empty.                *)
HeadersRead ==
    CASE m_check_state = "REQUESTLINE" -> m_start_line = 0 /\ m_content_length = 0
      [] m_check_state = "HEADER" ->
            /\ m_start_line # 0 /\ FirstIsGood /\ m_content_length = LengthSaid
            /\ \A i \in ConnDone : i - 2 \notin ConnDone
      [] m_check_state = "CONTENT" ->
            /\ m_start_line # 0 /\ FirstIsGood /\ m_content_length = LengthSaid
            /\ \A i \in ConnDone : i - 2 \in ConnDone <=> i = m_start_line - 1
            /\ m_checket_idx = m_start_line
      [] OTHER -> FALSE

(* A request of the first connection.                                      *)
InRequest ==
   /\ Received /\ ConnLinesEnd
   /\ ~Answered => HeadersRead
   /\ at = "wait" => Conn!Answer = "NO_REQUEST"
   /\ Answered => result = Conn!Answer

(* The object before it has served anyone.                                 *)
Pristine ==
    /\ buf = <<>> /\ m_checket_idx = 0 /\ m_start_line = 0
    /\ m_check_state = "REQUESTLINE" /\ m_content_length = 0

ConnInv ==
    /\ Counted
    /\ connections = 0 => Pristine
    /\ connections = 1 /\ m_sockfd = "open" => InRequest

-----------------------------------------------------------------------------
(* As NoMoreLines and LineFound of the program.                            *)
LEMMA ConnNoMoreLines ==
    ASSUME Received, ConnLinesEnd, NEW c \in m_start_line .. Len(received),
           \A i \in m_start_line + 1 .. c : ~ConnStop(i),
           \/ c = Len(received)
           \/ c + 1 = Len(received)
           \/ c < Len(received) /\ Conn!Stray(c + 1)
    PROVE  Conn!LineEnds = ConnDone
<1>0. Len(received) \in Nat /\ m_start_line \in Nat
  BY DEF Received
<1>1. ASSUME NEW i \in ConnDone PROVE i \in Conn!LineEnds
  BY <1>0, <1>1 DEF ConnDone, Conn!LineEnds, ConnLinesEnd, Conn!CRLF
<1>2. ASSUME NEW i \in Conn!LineEnds PROVE i \in ConnDone
  <2>1. /\ i \in Conn!CRLF /\ i \in 1 .. Len(received) - 1 /\ received[i] = "CR"
        /\ \A j \in 1 .. i : ~Conn!Stray(j)
    BY <1>2 DEF Conn!LineEnds, Conn!CRLF
  <2>2. ASSUME i + 1 > m_start_line PROVE FALSE
    <3>1. i # m_start_line
      BY <1>0, <2>1 DEF ConnLinesEnd, Conn!CRLF
    <3>2. i \in m_start_line + 1 .. Len(received) /\ ConnStop(i)
      BY <1>0, <2>1, <2>2, <3>1 DEF ConnStop
    <3>3. i > c
      BY <1>0, <3>2
    <3> QED
      BY <1>0, <2>1, <3>3
  <2> QED
    BY <1>0, <2>1, <2>2 DEF ConnDone
<1> QED
  BY <1>1, <1>2

ConnNextEnd(q) ==
    /\ q \in Conn!CRLF /\ q > m_start_line
    /\ \A i \in m_start_line + 1 .. q - 1 : ~ConnStop(i)

LEMMA ConnLineFound ==
    ASSUME Received, ConnLinesEnd
    PROVE  \/ /\ Conn!parse_line.status # "OK"
              /\ Conn!parse_line.next \in m_checket_idx .. Len(received)
              /\ \A i \in m_start_line + 1 .. Conn!parse_line.next : ~ConnStop(i)
              /\ Conn!LineEnds = ConnDone
           \/ \E q \in Conn!CRLF :
                 ConnNextEnd(q) /\ Conn!parse_line = [status |-> "OK", next |-> q + 1]
<1> DEFINE p == Conn!Min(Conn!Ends)
<1>0. /\ Len(received) \in Nat /\ m_start_line \in Nat /\ m_checket_idx \in Nat
      /\ buf = received /\ m_start_line <= m_checket_idx /\ m_checket_idx <= Len(received)
  BY DEF Received
<1>1. CASE Conn!Ends = {}
  <2>1. Conn!parse_line = [status |-> "OPEN", next |-> Len(received)]
    BY <1>0, <1>1 DEF Conn!parse_line, Conn!m_read_idx
  <2>2. ASSUME NEW i \in m_start_line + 1 .. Len(received) PROVE ~ConnStop(i)
    <3>2. CASE i <= m_checket_idx
      BY <1>0, <3>2 DEF ConnLinesEnd
    <3>3. CASE i > m_checket_idx
      <4>1. i - 1 \in m_checket_idx .. Conn!m_read_idx - 1 /\ Conn!At(buf, i - 1) = received[i]
        BY <1>0, <3>3 DEF Conn!m_read_idx, Conn!At
      <4> QED
        BY <1>1, <4>1 DEF Conn!Ends, ConnStop
    <3> QED
      BY <1>0, <3>2, <3>3
  <2>3. Conn!LineEnds = ConnDone
    BY <1>0, <2>2, ConnNoMoreLines
  <2> QED
    BY <1>0, <2>1, <2>2, <2>3
<1>2. CASE Conn!Ends # {}
  <2> HIDE DEF p
  <2>1. p \in Conn!Ends /\ \A i \in Conn!Ends : p <= i
    <3>1. Conn!Ends \in SUBSET Nat
      BY <1>0 DEF Conn!Ends, Conn!m_read_idx
    <3> QED
      BY <1>2, <3>1, ConnMinIs DEF p
  <2>2. /\ p \in m_checket_idx .. Len(received) - 1 /\ p \in Nat
        /\ Conn!At(buf, p) = received[p + 1] /\ received[p + 1] \in {"CR", "LF"}
    BY <1>0, <2>1 DEF Conn!Ends, Conn!m_read_idx, Conn!At
  <2>3. ASSUME NEW i \in m_start_line + 1 .. p PROVE ~ConnStop(i)
    <3>2. CASE i <= m_checket_idx
      BY <1>0, <3>2 DEF ConnLinesEnd
    <3>3. CASE i > m_checket_idx
      <4>1. /\ i - 1 \in m_checket_idx .. Conn!m_read_idx - 1
            /\ Conn!At(buf, i - 1) = received[i]
            /\ ~(p <= i - 1)
        BY <1>0, <2>2, <3>3 DEF Conn!m_read_idx, Conn!At
      <4> QED
        BY <2>1, <4>1 DEF Conn!Ends, ConnStop
    <3> QED
      BY <1>0, <3>2, <3>3
  <2>4. p \notin Conn!CRLF
    <3>1. ASSUME p \in Conn!CRLF PROVE FALSE
      <4>1. p >= 1 /\ received[p] = "CR"
        BY <3>1 DEF Conn!CRLF
      <4>2. CASE p = m_start_line
        BY <1>0, <4>1, <4>2 DEF ConnLinesEnd, Conn!CRLF
      <4>3. CASE p # m_start_line
        BY <1>0, <2>2, <2>3, <4>1, <4>3 DEF ConnStop
      <4> QED
        BY <4>2, <4>3
    <3> QED
      BY <3>1
  <2>5. CASE received[p + 1] = "CR" /\ p + 1 = Len(received)
    <3>1. Conn!parse_line = [status |-> "OPEN", next |-> p]
      BY <1>0, <1>2, <2>2, <2>5 DEF Conn!parse_line, Conn!m_read_idx, p
    <3>2. Conn!LineEnds = ConnDone
      BY <1>0, <2>2, <2>3, <2>5, ConnNoMoreLines
    <3> QED
      BY <1>0, <2>2, <2>3, <3>1, <3>2
  <2>6. CASE received[p + 1] = "CR" /\ p + 1 # Len(received)
    <3>1. Conn!At(buf, p + 1) = received[p + 2]
      BY <1>0, <2>2 DEF Conn!At
    <3>2. CASE received[p + 2] = "LF"
      <4>1. Conn!parse_line = [status |-> "OK", next |-> p + 2]
        BY <1>0, <1>2, <2>2, <2>6, <3>1, <3>2 DEF Conn!parse_line, Conn!m_read_idx, p
      <4>2. p + 1 \in Conn!CRLF
        BY <1>0, <2>2, <2>6, <3>2 DEF Conn!CRLF
      <4>3. ConnNextEnd(p + 1)
        BY <1>0, <2>2, <2>3, <4>2 DEF ConnNextEnd
      <4>4. (p + 1) + 1 = p + 2
        BY <2>2
      <4> QED
        BY <4>1, <4>2, <4>3, <4>4
    <3>3. CASE received[p + 2] # "LF"
      <4>1. Conn!parse_line = [status |-> "BAD", next |-> p]
        BY <1>0, <1>2, <2>2, <2>6, <3>1, <3>3 DEF Conn!parse_line, Conn!m_read_idx, p
      <4>2. Conn!Stray(p + 1)
        BY <2>2, <2>4, <2>6, <3>3 DEF Conn!Stray, Conn!CRLF
      <4>3. Conn!LineEnds = ConnDone
        BY <1>0, <2>2, <2>3, <4>2, ConnNoMoreLines
      <4> QED
        BY <1>0, <2>2, <2>3, <4>1, <4>3
    <3> QED
      BY <3>2, <3>3
  <2>7. CASE received[p + 1] = "LF"
    <3>2. Conn!parse_line = [status |-> "BAD", next |-> p]
      BY <1>0, <1>2, <2>2, <2>7 DEF Conn!parse_line, Conn!m_read_idx, p
    <3>3. Conn!Stray(p + 1)
      BY <2>2, <2>4, <2>7 DEF Conn!Stray, Conn!CRLF
    <3>4. Conn!LineEnds = ConnDone
      BY <1>0, <2>2, <2>3, <3>3, ConnNoMoreLines
    <3> QED
      BY <1>0, <2>2, <2>3, <3>2, <3>4
  <2> QED
    BY <2>2, <2>5, <2>6, <2>7
<1> QED
  BY <1>1, <1>2

-----------------------------------------------------------------------------
(* What the complete lines say.                                            *)

(* The first line is the first of those that are complete.                 *)
LEMMA FirstLine ==
    ASSUME Received, ConnLinesEnd, FirstIsGood
    PROVE  Conn!LineEnds # {} /\ SubSeq(received, 1, Conn!Min(Conn!LineEnds) - 1) = <<"g">>
<1>0. ConnDone \subseteq Conn!LineEnds /\ Conn!LineEnds \in SUBSET Nat /\ ConnDone \subseteq Nat
  BY DEF Received, ConnDone, Conn!LineEnds, ConnLinesEnd, Conn!CRLF
<1>1. PICK i \in ConnDone : (\A j \in ConnDone : i <= j) /\ SubSeq(received, 1, i - 1) = <<"g">>
  BY DEF FirstIsGood
<1>2. /\ Conn!Min(Conn!LineEnds) \in Conn!LineEnds
      /\ \A j \in Conn!LineEnds : Conn!Min(Conn!LineEnds) <= j
  BY <1>0, <1>1, ConnMinIs
<1>3. Conn!Min(Conn!LineEnds) <= i
  BY <1>0, <1>1, <1>2
<1>4. Conn!Min(Conn!LineEnds) \in ConnDone
  BY <1>0, <1>2, <1>3 DEF ConnDone, Conn!LineEnds, Received, Conn!CRLF
<1>5. Conn!Min(Conn!LineEnds) = i
  <2>1. i \in Nat /\ Conn!Min(Conn!LineEnds) \in Nat
    BY <1>0, <1>4
  <2>2. i <= Conn!Min(Conn!LineEnds)
    BY <1>1, <1>4
  <2> QED
    BY <1>3, <2>1, <2>2
<1> QED
  BY <1>0, <1>1, <1>5

(* The line ends up to the last complete line are those of the stream.     *)
LEMMA EarlyEnds ==
    ASSUME Received, ConnLinesEnd
    PROVE  /\ ConnDone \subseteq Conn!LineEnds /\ Conn!LineEnds \in SUBSET Nat
           /\ \A i \in Conn!LineEnds : i < m_start_line => i \in ConnDone
BY DEF Received, ConnDone, Conn!LineEnds, ConnLinesEnd, Conn!CRLF

(* No line end is next to another or under the text of a line.             *)
LEMMA NotAnEnd ==
    ASSUME Received, NEW i \in Conn!LineEnds
    PROVE  /\ i + 1 \notin Conn!LineEnds
           /\ received[i + 2] = "1" => i + 2 \notin Conn!LineEnds
BY DEF Conn!LineEnds, Conn!CRLF

\* While the headers go on, and nothing more can be read, there is no answer.
LEMMA NotYet ==
    ASSUME Received, ConnLinesEnd, HeadersRead, Conn!LineEnds = ConnDone,
       m_check_state # "CONTENT"
    PROVE  Conn!Answer = "NO_REQUEST"
<1>1. CASE m_check_state = "REQUESTLINE"
  <2>1. m_start_line = 0
    BY <1>1 DEF HeadersRead
  <2>2. ConnDone = {}
    BY <2>1 DEF ConnDone, Conn!CRLF, Received
  <2> QED
    BY <2>2 DEF Conn!Answer
<1>2. CASE m_check_state = "HEADER"
  <2>1. FirstIsGood /\ \A i \in ConnDone : i - 2 \notin ConnDone
    BY <1>2 DEF HeadersRead
  <2>2. Conn!Blanks = {}
    BY <2>1 DEF Conn!Blanks
  <2> QED
    BY <2>1, <2>2, FirstLine DEF Conn!Answer
<1> QED
  BY <1>1, <1>2 DEF HeadersRead

(* Behind the empty line the answer depends on the length that was said.   *)
LEMMA WithContent ==
    ASSUME Received, ConnLinesEnd, FirstIsGood, m_start_line # 0,
           \A i \in ConnDone : i - 2 \in ConnDone <=> i = m_start_line - 1
    PROVE  /\ Conn!Length = LengthSaid
           /\ Conn!Answer = IF Len(received) < m_start_line + LengthSaid
                       THEN "NO_REQUEST" ELSE "GET_REQUEST"
<1> DEFINE e == m_start_line - 1
<1>0. m_start_line \in Nat /\ Len(received) \in Nat /\ e \in Nat /\ e \in ConnDone
  BY DEF Received, ConnLinesEnd, ConnDone, Conn!CRLF
<1>1. e \in Conn!LineEnds /\ e - 2 \in ConnDone /\ e - 2 \in Conn!LineEnds
  BY <1>0, EarlyEnds
<1>2. e \in Conn!Blanks
  BY <1>1 DEF Conn!Blanks
<1>3. ASSUME NEW b \in Conn!Blanks PROVE e <= b
  <2>1. b \in Conn!LineEnds /\ b - 2 \in Conn!LineEnds /\ b \in Nat
    BY EarlyEnds DEF Conn!Blanks
  <2>2. ASSUME b < e PROVE FALSE
    <3>1. b \in ConnDone /\ b - 2 \in ConnDone
      BY <1>0, <2>1, <2>2, EarlyEnds
    <3>2. b = e
      BY <3>1
    <3> QED
      BY <1>0, <2>2, <3>2
  <2> QED
    BY <1>0, <2>1, <2>2
<1>4. Conn!Min(Conn!Blanks) = e
  <2>1. Conn!Blanks \in SUBSET Nat
    BY EarlyEnds DEF Conn!Blanks
  <2>2. Conn!Min(Conn!Blanks) \in Conn!Blanks /\ Conn!Min(Conn!Blanks) <= e
    BY <1>2, <2>1, ConnMinIs
  <2>3. e <= Conn!Min(Conn!Blanks) /\ Conn!Min(Conn!Blanks) \in Nat
    BY <1>3, <2>1, <2>2
  <2> QED
    BY <1>0, <2>2, <2>3
<1> HIDE DEF e
<1>5. ASSUME NEW i \in Conn!LineEnds, i < e, i + 3 \in Conn!LineEnds, received[i + 2] = "1"
      PROVE  i \in ConnDone /\ i + 3 \in ConnDone
  <2>1. i \in Nat
    BY EarlyEnds
  <2>2. i + 1 # e /\ i + 2 # e
    BY <1>1, <1>5, NotAnEnd
  <2>3. i + 3 <= e
    BY <1>0, <1>5, <2>1, <2>2
  <2> QED
    BY <1>0, <1>5, <2>1, <2>3, EarlyEnds DEF e
<1>6. ASSUME NEW i \in ConnDone, i + 3 \in ConnDone
      PROVE  i \in Conn!LineEnds /\ i < e /\ i + 3 \in Conn!LineEnds
  <2>1. i \in Conn!LineEnds /\ i + 3 \in Conn!LineEnds /\ i \in Nat
    BY <1>6, EarlyEnds
  <2>2. (i + 3) + 1 <= m_start_line
    BY <1>6 DEF ConnDone
  <2> QED
    BY <1>0, <2>1, <2>2 DEF e
<1>7. Conn!Length = LengthSaid
  BY <1>4, <1>5, <1>6, EarlyEnds DEF Conn!Length, LengthSaid
<1>8. LengthSaid \in {0, 1}
  BY DEF LengthSaid

   <1>9. Len(received) < Conn!Min(Conn!Blanks) + 1 + Conn!Length
        <=> Len(received) < m_start_line + LengthSaid
  BY <1>0, <1>4, <1>7, <1>8 DEF e
<1>10. Conn!LineEnds # {} /\ SubSeq(received, 1, Conn!Min(Conn!LineEnds) - 1) = <<"g">>
  BY FirstLine
<1> QED
  BY <1>2, <1>7, <1>9, <1>10 DEF Conn!Answer

(* The same of the next state.                                             *)
LEMMA WithContentNext ==
    (/\ Received /\ ConnLinesEnd /\ FirstIsGood /\ m_start_line # 0
     /\ \A i \in ConnDone : i - 2 \in ConnDone <=> i = m_start_line - 1
     => Conn!Answer = IF Len(received) < m_start_line + LengthSaid
                 THEN "NO_REQUEST" ELSE "GET_REQUEST")'
<1>1. (/\ Received /\ ConnLinesEnd /\ FirstIsGood /\ m_start_line # 0
       /\ \A i \in ConnDone : i - 2 \in ConnDone <=> i = m_start_line - 1
       => Conn!Answer = IF Len(received) < m_start_line + LengthSaid
                   THEN "NO_REQUEST" ELSE "GET_REQUEST")
  BY WithContent
<1> QED
  BY <1>1, PTL

-----------------------------------------------------------------------------
(* The steps of the connection.                                            *)

(* A step that leaves the request and what was received of it.             *)
LEMMA SameRequest ==
    ASSUME UNCHANGED <<Conn!request, received>>
    PROVE  /\ ConnLinesEnd' = ConnLinesEnd
           /\ HeadersRead' = HeadersRead
           /\ Conn!Answer' = Conn!Answer
           /\ buf' = buf /\ m_checket_idx' = m_checket_idx /\ m_start_line' = m_start_line
           /\ m_content_length' = m_content_length /\ received' = received
<1>1. UNCHANGED <<buf, m_checket_idx, m_start_line, m_check_state, m_content_length,
                  m_linger, received>>
  BY DEF Conn!request
<1> QED
  BY <1>1 DEF ConnLinesEnd, HeadersRead, Conn!Answer, Conn!CRLF, Conn!Stray, ConnStop,
     ConnDone, FirstIsGood, LengthSaid,
              Conn!LineEnds, Conn!Blanks, Conn!Length

(* A connection is accepted: the first finds the object as it was made.    *)
LEMMA acceptedKeeps == ASSUME ConnInv, Conn!accepted PROVE ConnInv'
<1>1. /\ m_sockfd = "-1" /\ m_sockfd' = "open" /\ m_user_count' = m_user_count + 1
      /\ connections' = connections + 1 /\ received' = <<>> /\ at' = "wait"
      /\ todo' \in Requests /\ inbox' = <<>> /\ result' = "none"
      /\ UNCHANGED Conn!request
  BY DEF Conn!accepted
<1>2. Counted'
  BY <1>1 DEF ConnInv, Counted, Answered, Conn!users
<1>3. ASSUME connections' = 1 PROVE InRequest'
  <2>1. Pristine /\ UNCHANGED <<buf, m_checket_idx, m_start_line, m_check_state,
     m_content_length>>
    BY <1>1, <1>3 DEF ConnInv, Counted, Conn!request
  <2>2. received' = <<>> /\ received' \in Seq(Conn!Byte) /\ Len(received') = 0
    BY <1>1
  <2>3. todo' \in Seq(Conn!Byte) /\ inbox' \in Seq(Conn!Byte)
    BY <1>1, HttpAssumption
  <2>4. Received'
    BY <2>1, <2>2, <2>3, HttpAssumption DEF Received, Pristine
  <2>5. ConnLinesEnd' /\ HeadersRead'
    BY <2>1 DEF ConnLinesEnd, HeadersRead, Pristine
  <2>6. Conn!CRLF' = {}
    BY <2>2 DEF Conn!CRLF
  <2>7. Conn!Answer' = "NO_REQUEST"
    BY <2>6 DEF Conn!Answer, Conn!LineEnds
  <2> QED
    BY <1>1, <2>4, <2>5, <2>7 DEF InRequest, Answered
<1> QED
  BY <1>1, <1>2, <1>3 DEF ConnInv, Counted

(* The client, and the event: nothing is received.                         *)
LEMMA clientKeeps == ASSUME ConnInv, Conn!send \/ Conn!hangUp \/ Conn!event PROVE ConnInv'
<1>1. /\ UNCHANGED <<Conn!socket, Conn!request, received, result, connections>>
      /\ m_sockfd = "open"
      /\ at' = at \/ (at = "wait" /\ at' = "read")
  BY DEF Conn!send, Conn!hangUp, Conn!event
<1>2. Counted'
  BY <1>1 DEF ConnInv, Counted, Answered, Conn!socket, Conn!users
<1>3. ASSUME InRequest PROVE todo' \in Seq(Conn!Byte) /\ inbox' \in Seq(Conn!Byte)
  <2>1. todo \in Seq(Conn!Byte) /\ inbox \in Seq(Conn!Byte)
    BY <1>3 DEF InRequest, Received
  <2>2. CASE Conn!send
    <3>1. PICK n \in 1 .. MaxPiece :
              /\ n <= Len(todo)
              /\ inbox' = inbox \o SubSeq(todo, 1, n)
              /\ todo' = SubSeq(todo, n + 1, Len(todo))
      BY <2>2 DEF Conn!send
    <3>2. SubSeq(todo, 1, n) \in Seq(Conn!Byte)
      BY <2>1, <3>1, SubSeqProperties
    <3>3. SubSeq(todo, n + 1, Len(todo)) \in Seq(Conn!Byte)
      BY <2>1, <3>1, SubSeqProperties
    <3> QED
      BY <2>1, <3>1, <3>2, <3>3, ConcatProperties
  <2> QED
    BY <2>1, <2>2 DEF Conn!hangUp, Conn!event, Conn!client
<1>4. InRequest => InRequest'
  <2>1. Received => (todo' \in Seq(Conn!Byte) /\ inbox' \in Seq(Conn!Byte) => Received')
    BY <1>1, SameRequest DEF Received
  <2> QED
    BY <1>1, <1>3, <2>1, SameRequest DEF InRequest, Answered
<1>5. Pristine => Pristine'
  BY <1>1 DEF Conn!request, Pristine
<1> QED
  BY <1>1, <1>2, <1>4, <1>5 DEF ConnInv, Conn!socket

(* What is received: the lines that are complete stay what they were.      *)
LEMMA LinesStay ==
    ASSUME Received, ConnLinesEnd, HeadersRead,
           NEW chunk \in Seq(Conn!Byte), received' = received \o chunk, buf' = buf \o chunk,
           Len(received) + Len(chunk) <= READ_BUFFER_SIZE,
           todo' \in Seq(Conn!Byte), inbox' \in Seq(Conn!Byte),
           UNCHANGED <<m_checket_idx, m_start_line, m_check_state, m_content_length>>
    PROVE  Received' /\ ConnLinesEnd' /\ HeadersRead'
<1>0. /\ received \in Seq(Conn!Byte) /\ Len(received) \in Nat /\ Len(chunk) \in Nat
      /\ m_start_line \in Nat /\ m_checket_idx \in Nat
      /\ m_start_line <= m_checket_idx /\ m_checket_idx <= Len(received)
  BY DEF Received
<1>1. /\ received' \in Seq(Conn!Byte) /\ Len(received') = Len(received) + Len(chunk)
      /\ \A i \in 1 .. Len(received) : received'[i] = received[i]
  BY <1>0, ConcatProperties
<1>2. Received'
  BY <1>0, <1>1 DEF Received
<1>3. \A i \in Int : i + 1 <= Len(received) => (i \in Conn!CRLF <=> i \in Conn!CRLF')
  BY <1>0, <1>1 DEF Conn!CRLF
<1>4. ConnDone' = ConnDone /\ Conn!CRLF \subseteq Conn!CRLF'
  <2>1. \A i \in Conn!CRLF : i \in Int /\ i + 1 <= Len(received)
    BY <1>0 DEF Conn!CRLF
  <2>2. \A i \in Conn!CRLF' : i \in Int
    BY DEF Conn!CRLF
  <2>3. Conn!CRLF \subseteq Conn!CRLF'
    BY <1>3, <2>1
  <2>4. \A i : i \in ConnDone' <=> i \in ConnDone
    BY <1>0, <1>3, <2>1, <2>2, <2>3 DEF ConnDone
  <2> QED
    BY <2>3, <2>4
<1>5. ConnLinesEnd'
  <2>1. ASSUME NEW i \in 1 .. m_start_line PROVE ~Conn!Stray(i)'
    <3>1. ~Conn!Stray(i) /\ received'[i] = received[i]
      BY <1>0, <1>1 DEF ConnLinesEnd
    <3> QED
      BY <1>4, <3>1 DEF Conn!Stray
  <2>2. ASSUME NEW i \in m_start_line + 1 .. m_checket_idx PROVE ~ConnStop(i)'
    BY <1>0, <1>1 DEF ConnLinesEnd, ConnStop
  <2> QED
    BY <1>4, <2>1, <2>2 DEF ConnLinesEnd
<1>6. FirstIsGood => FirstIsGood'
  <2>1. SUFFICES ASSUME FirstIsGood PROVE FirstIsGood'
    OBVIOUS
  <2>2. PICK i \in ConnDone :
       (\A j \in ConnDone : i <= j) /\ SubSeq(received, 1, i - 1) = <<"g">>
    BY <2>1 DEF FirstIsGood
  <2>3. i \in Nat /\ i <= Len(received)
    BY <1>0 DEF ConnDone, Conn!CRLF
  <2>4. SubSeq(received', 1, i - 1) = SubSeq(received, 1, i - 1)
    BY <1>0, <1>1, <2>3
  <2> QED
    BY <1>4, <2>2, <2>4 DEF FirstIsGood
<1>7. LengthSaid' = LengthSaid
  <2>1. ASSUME NEW i \in ConnDone, i + 3 \in ConnDone PROVE received'[i + 2] = received[i + 2]
    BY <1>0, <1>1, <2>1 DEF ConnDone, Conn!CRLF
  <2> QED
    BY <1>4, <2>1 DEF LengthSaid
<1>8. HeadersRead'
  BY <1>4, <1>6, <1>7 DEF HeadersRead
<1> QED
  BY <1>2, <1>5, <1>8

(* read: something was received, or the connection is closed.              *)
LEMMA readKeeps == ASSUME ConnInv, Conn!read PROVE ConnInv'
<1>1. /\ at = "read" /\ Conn!recv /\ UNCHANGED <<m_checket_idx, m_start_line, m_check_state,
                                           m_content_length, todo, result, connections>>
      /\ \/ at' = "process" /\ UNCHANGED Conn!socket
         \/ Conn!drop
  BY DEF Conn!read, Conn!drop
<1>2. m_sockfd = "open" /\ connections # 0 /\ ~Answered
  BY <1>1 DEF ConnInv, Counted
<1>3. Counted'
  BY <1>1, <1>2 DEF ConnInv, Counted, Answered, Conn!socket, Conn!drop, Conn!close_conn,
     Conn!users
<1>4. CASE at' = "process" /\ UNCHANGED Conn!socket
  <2>1. ASSUME connections' = 1 PROVE InRequest'
    <3>1. InRequest
      BY <1>1, <1>2, <2>1 DEF ConnInv
    <3> DEFINE room == {Len(inbox), READ_BUFFER_SIZE - Conn!m_read_idx}
               n == Conn!Min(room)
    <3>2. /\ buf' = buf \o SubSeq(inbox, 1, n) /\ received' = received \o SubSeq(inbox, 1, n)
          /\ inbox' = SubSeq(inbox, n + 1, Len(inbox))
      BY <1>1 DEF Conn!recv
    <3>3. /\ inbox \in Seq(Conn!Byte) /\ Len(inbox) \in Nat
          /\ Conn!m_read_idx = Len(received) /\ Len(received) \in Nat
          /\ READ_BUFFER_SIZE - Conn!m_read_idx \in Nat
      BY <3>1, HttpAssumption DEF InRequest, Received, Conn!m_read_idx
    <3>4. n \in Nat /\ n <= Len(inbox) /\ n <= READ_BUFFER_SIZE - Len(received)
      <4>1. room \in SUBSET Nat /\ room # {}
        BY <3>3
      <4>2. n \in room /\ n <= Len(inbox) /\ n <= READ_BUFFER_SIZE - Conn!m_read_idx
        BY <4>1, ConnMinIs
      <4> QED
        BY <3>3, <4>1, <4>2
    <3> HIDE DEF n
    <3>5. SubSeq(inbox, 1, n) \in Seq(Conn!Byte) /\ Len(SubSeq(inbox, 1, n)) = n
      BY <3>3, <3>4, SubSeqProperties
    <3>6. SubSeq(inbox, n + 1, Len(inbox)) \in Seq(Conn!Byte)
      BY <3>3, <3>4, SubSeqProperties
    <3>7. Received' /\ ConnLinesEnd' /\ HeadersRead'
      <4>1. todo' \in Seq(Conn!Byte) /\ Received /\ ConnLinesEnd /\ HeadersRead
        BY <1>1, <1>2, <3>1 DEF InRequest, Received
      <4>2. Len(received) + Len(SubSeq(inbox, 1, n)) <= READ_BUFFER_SIZE
        BY <3>3, <3>4, <3>5, HttpAssumption
      <4> QED
        BY <1>1, <3>2, <3>5, <3>6, <4>1, <4>2, LinesStay
    <3> QED
      BY <1>1, <1>2, <1>4, <3>7 DEF InRequest, Answered
  <2> QED
    BY <1>1, <1>2, <1>3, <2>1 DEF ConnInv
<1>5. CASE Conn!drop
  <2>1. m_sockfd' = "-1"
    BY <1>5 DEF Conn!drop, Conn!close_conn
  <2> QED
    BY <1>1, <1>2, <1>3, <2>1 DEF ConnInv
<1> QED
  BY <1>1, <1>4, <1>5

(* process: the request begins anew, or the connection is closed.          *)
LEMMA processKeeps == ASSUME ConnInv, Conn!process PROVE ConnInv'
<1>1. /\ at = "process" /\ result' = "none" /\ UNCHANGED Conn!client
      /\ \/ Conn!init /\ at' = "wait" /\ UNCHANGED <<Conn!socket, connections>>
         \/ Conn!drop
  BY DEF Conn!process
<1>2. m_sockfd = "open" /\ connections # 0
  BY <1>1 DEF ConnInv, Counted
<1>3. Counted'
  BY <1>1, <1>2 DEF ConnInv, Counted, Answered, Conn!socket, Conn!drop, Conn!close_conn,
     Conn!users
<1>4. CASE Conn!init /\ at' = "wait" /\ UNCHANGED <<Conn!socket, connections>>
  <2>1. ASSUME connections = 1 PROVE InRequest'
    <3>1. InRequest
      BY <1>2, <2>1 DEF ConnInv
    <3>2. /\ buf' = <<>> /\ m_checket_idx' = 0 /\ m_start_line' = 0 /\ received' = <<>>
          /\ m_check_state' = "REQUESTLINE" /\ m_content_length' = 0
      BY <1>4 DEF Conn!init
    <3>3. received' \in Seq(Conn!Byte) /\ Len(received') = 0
      BY <3>2
    <3>4. todo' \in Seq(Conn!Byte) /\ inbox' \in Seq(Conn!Byte)
      BY <1>1, <3>1 DEF Conn!client, InRequest, Received
    <3>5. Received' /\ ConnLinesEnd' /\ HeadersRead'
      BY <3>2, <3>3, <3>4, HttpAssumption DEF Received, ConnLinesEnd, HeadersRead
    <3>6. Conn!CRLF' = {}
      BY <3>3 DEF Conn!CRLF
    <3>7. Conn!Answer' = "NO_REQUEST"
      BY <3>6 DEF Conn!Answer, Conn!LineEnds
    <3> QED
      BY <1>1, <3>5, <3>7 DEF InRequest, Answered
  <2> QED
    BY <1>2, <1>3, <1>4, <2>1 DEF ConnInv
<1>5. CASE Conn!drop
  <2>1. m_sockfd' = "-1" /\ connections' = connections
    BY <1>5 DEF Conn!drop, Conn!close_conn
  <2> QED
    BY <1>2, <1>3, <2>1 DEF ConnInv
<1> QED
  BY <1>1, <1>4, <1>5

-----------------------------------------------------------------------------
(* A complete line is taken.                                               *)
LEMMA EndJoins ==
    ASSUME Received, ConnLinesEnd, NEW q \in Conn!CRLF, ConnNextEnd(q),
           UNCHANGED <<buf, received, todo, inbox>>, m_checket_idx' = q + 1,
              m_start_line' = q + 1,
           m_content_length' \in {0, 1}
    PROVE  /\ Received' /\ ConnLinesEnd' /\ ConnDone' = ConnDone \cup {q} /\ q \notin ConnDone
           /\ \A j \in ConnDone : j < q /\ j + 1 <= m_start_line
           /\ Conn!CRLF' = Conn!CRLF
           /\ Conn!LineEnds' = Conn!LineEnds
           /\ Conn!Answer' = Conn!Answer
<1>0. /\ Len(received) \in Nat /\ m_start_line \in Nat
      /\ q \in Nat /\ q >= 1 /\ q + 1 <= Len(received) /\ q > m_start_line
      /\ received[q] = "CR" /\ received[q + 1] = "LF"
      /\ \A i \in m_start_line + 1 .. q - 1 : ~ConnStop(i)
  BY DEF Received, ConnNextEnd, Conn!CRLF
<1>1. Received'
  BY <1>0 DEF Received
<1>2. Conn!CRLF' = Conn!CRLF /\ Conn!LineEnds' = Conn!LineEnds /\ Conn!Answer' = Conn!Answer
  BY DEF Conn!CRLF, Conn!LineEnds, Conn!Answer, Conn!Stray, Conn!Blanks, Conn!Length
<1>3. ConnDone' = ConnDone \cup {q} /\ \A j \in ConnDone : j < q /\ j + 1 <= m_start_line
  <2>1. ASSUME NEW i \in Conn!CRLF, i + 1 <= q + 1 PROVE i + 1 <= m_start_line \/ i = q
    <3>1. i \in Nat /\ received[i] = "CR" /\ i >= 1
      BY <2>1 DEF Conn!CRLF
    <3>2. i # m_start_line
      BY <1>0, <3>1 DEF ConnLinesEnd, Conn!CRLF
    <3>3. ~(i \in m_start_line + 1 .. q - 1)
      BY <1>0, <3>1 DEF ConnStop
    <3> QED
      BY <1>0, <2>1, <3>1, <3>2, <3>3
  <2>2. ConnDone' = {i \in Conn!CRLF : i + 1 <= q + 1}
    BY <1>2 DEF ConnDone
  <2> QED
    BY <1>0, <2>1, <2>2 DEF ConnDone, Conn!CRLF
<1>4. ConnLinesEnd'
  <2>1. ASSUME NEW i \in 1 .. q + 1 PROVE ~Conn!Stray(i)
    <3>1. CASE i <= m_start_line
      BY <1>0, <3>1 DEF ConnLinesEnd
    <3>2. CASE i > m_start_line /\ i < q
      BY <1>0, <3>2 DEF ConnStop, Conn!Stray
    <3>3. CASE i >= q
      BY <1>0, <3>3 DEF Conn!Stray
    <3> QED
      BY <1>0, <3>1, <3>2, <3>3
  <2>2. ASSUME NEW i \in 1 .. m_start_line' PROVE ~(Conn!Stray(i)')
    BY <1>2, <2>1 DEF Conn!Stray
  <2>3. m_start_line' - 1 = q /\ q \in Conn!CRLF'
    BY <1>0, <1>2
  <2>4. \A i \in m_start_line' + 1 .. m_checket_idx' : ~ConnStop(i)'
    BY <1>0
  <2> QED
    BY <2>2, <2>3, <2>4 DEF ConnLinesEnd
<1>5. q \notin ConnDone
  BY <1>0, <1>3
<1> QED
  BY <1>1, <1>2, <1>3, <1>4, <1>5

(* The request line.                                                       *)
LEMMA RequestLine ==
    ASSUME Received, ConnLinesEnd, HeadersRead, m_check_state = "REQUESTLINE",
           NEW q \in Conn!CRLF, ConnNextEnd(q),
           UNCHANGED <<buf, received, todo, inbox>>, m_checket_idx' = q + 1,
              m_start_line' = q + 1,
           Conn!parse_request_line(Conn!get_line(q - 1))
    PROVE  /\ Received' /\ ConnLinesEnd'
           /\ result' = "NO_REQUEST" => HeadersRead'
           /\ Answered' => result' = Conn!Answer'
<1>1. m_start_line = 0 /\ m_content_length = 0 /\ m_content_length' = 0
  BY DEF HeadersRead, Conn!parse_request_line
<1>2. /\ Received' /\ ConnLinesEnd' /\ ConnDone' = ConnDone \cup {q}
      /\ Conn!CRLF' = Conn!CRLF /\ Conn!LineEnds' = Conn!LineEnds /\ Conn!Answer' = Conn!Answer
  BY <1>1, EndJoins
<1>3. ConnDone = {} /\ ConnDone' = {q} /\ q \in Nat /\ q >= 1
  BY <1>1, <1>2 DEF ConnDone, Conn!CRLF
<1>4. Conn!get_line(q - 1) = SubSeq(received, 1, q - 1)
  BY <1>1 DEF Conn!get_line, Received
<1>5. CASE Conn!get_line(q - 1) = <<"g">>
  <2>1. m_check_state' = "HEADER" /\ result' = "NO_REQUEST"
    BY <1>5 DEF Conn!parse_request_line
  <2>2. FirstIsGood'
    <3>1. SubSeq(received', 1, q - 1) = <<"g">>
      BY <1>4, <1>5
    <3> QED
      BY <1>3, <3>1 DEF FirstIsGood
  <2>3. LengthSaid' = 0
    BY <1>3 DEF LengthSaid
  <2>4. \A i \in ConnDone' : i - 2 \notin ConnDone'
    BY <1>3
  <2>5. HeadersRead'
    BY <1>1, <1>3, <2>1, <2>2, <2>3, <2>4 DEF HeadersRead
  <2> QED
    BY <1>2, <2>1, <2>5 DEF Answered
<1>6. CASE Conn!get_line(q - 1) # <<"g">>
  <2>1. result' = "BAD_REQUEST"
    BY <1>6 DEF Conn!parse_request_line
  <2>2. Conn!Min(Conn!LineEnds) = q
    <3>1. Conn!LineEnds \in SUBSET Nat /\ q \in Conn!LineEnds
      <4>1. q \in ConnDone' /\ ConnDone' \subseteq Conn!LineEnds'
        BY <1>2, <1>3 DEF ConnDone, Conn!LineEnds, ConnLinesEnd, Conn!CRLF, Received
      <4>2. Conn!LineEnds \in SUBSET Nat
        BY DEF Conn!LineEnds, Conn!CRLF
      <4> QED
        BY <1>2, <4>1, <4>2
    <3>2. Conn!Min(Conn!LineEnds) \in Conn!LineEnds /\ Conn!Min(Conn!LineEnds) <= q
      BY <3>1, ConnMinIs
    <3>3. Conn!Min(Conn!LineEnds) \in ConnDone'
      BY <1>2, <1>3, <3>1, <3>2 DEF ConnDone, Conn!LineEnds
    <3> QED
      BY <1>3, <3>3
  <2>3. Conn!LineEnds # {}
    <3>1. q \in ConnDone' /\ ConnDone' \subseteq Conn!LineEnds'
      BY <1>2, <1>3 DEF ConnDone, Conn!LineEnds, ConnLinesEnd, Conn!CRLF, Received
    <3> QED
      BY <1>2, <3>1
  <2>4. Conn!Answer = "BAD_REQUEST"
    BY <1>4, <1>6, <2>2, <2>3 DEF Conn!Answer
  <2> QED
    BY <1>2, <2>1, <2>4
<1> QED
  BY <1>5, <1>6

(* The text of a header, and what it tells of the line that has ended.     *)
LEMMA TextOfLine ==
    ASSUME Received, ConnLinesEnd, m_start_line # 0, NEW q \in Conn!CRLF, ConnNextEnd(q)
    PROVE  /\ Conn!get_line(q - 1) = <<>> <=> q - 2 \in ConnDone
           /\ Conn!get_line(q - 1) = <<"1">> <=> q - 3 \in ConnDone /\ received[q - 1] = "1"
<1> DEFINE s == m_start_line
           header == SubSeq(received, s + 1, q - 1)
<1>0. /\ received \in Seq(Conn!Byte) /\ Len(received) \in Nat /\ s \in Nat
      /\ q \in Nat /\ q + 1 <= Len(received) /\ q > s
      /\ received[q] = "CR" /\ received[q + 1] = "LF"
      /\ s - 1 \in ConnDone /\ s - 1 \in Nat
      /\ \A j \in ConnDone : j <= s - 1 /\ j \in Nat
  BY DEF Received, ConnNextEnd, Conn!CRLF, ConnDone, ConnLinesEnd
<1>1. Conn!get_line(q - 1) = header
  BY DEF Conn!get_line, Received
<1>2. header \in Seq(Conn!Byte) /\ Len(header) = (q - 1) - s
      /\ \A i \in 1 .. (q - 1) - s : header[i] = received[s + i]
  <2>1. \A i \in s + 1 .. q - 1 : received[i] \in Conn!Byte
    BY <1>0
  <2> QED
    BY <1>0, <2>1
<1> HIDE DEF header
<1>3. header = <<>> <=> q = s + 1
  BY <1>0, <1>2
<1>4. q - 2 \in ConnDone <=> q = s + 1
  BY <1>0
<1>5. header = <<"1">> <=> q = s + 2 /\ received[s + 1] = "1"
  <2>1. ASSUME header = <<"1">> PROVE q = s + 2 /\ received[s + 1] = "1"
    BY <1>0, <1>2, <2>1
  <2>2. ASSUME q = s + 2, received[s + 1] = "1" PROVE header = <<"1">>
    <3>1. Len(header) = 1 /\ header[1] = "1"
      BY <1>0, <1>2, <2>2
    <3>2. <<"1">> \in Seq(Conn!Byte) /\ Len(<<"1">>) = 1 /\ <<"1">>[1] = "1"
      BY DEF Conn!Byte
    <3>3. \A i \in 1 .. 1 : header[i] = <<"1">>[i]
      BY <3>1, <3>2
    <3> QED
      BY <1>2, <3>1, <3>2, <3>3, SeqEqual
  <2> QED
    BY <2>1, <2>2
<1>6. q - 3 \in ConnDone /\ received[q - 1] = "1" <=> q = s + 2 /\ received[s + 1] = "1"
  <2>1. ASSUME q - 3 \in ConnDone, received[q - 1] = "1" PROVE q = s + 2
    <3>1. q <= s + 2
      BY <1>0, <2>1
    <3>2. q # s + 1
      <4>1. CASE q = s + 1
        <5>1. received[s] = "LF"
          BY <1>0 DEF ConnDone, Conn!CRLF
        <5>2. q - 1 = s
          BY <1>0, <4>1
        <5> QED
          BY <2>1, <5>1, <5>2
      <4> QED
        BY <4>1
    <3> QED
      BY <1>0, <3>1, <3>2
  <2>2. ASSUME q = s + 2 PROVE q - 3 \in ConnDone /\ q - 1 = s + 1
    BY <1>0, <2>2
  <2> QED
    BY <2>1, <2>2
<1> QED
  BY <1>1, <1>3, <1>4, <1>5, <1>6

(* A header.                                                               *)
LEMMA HeaderLine ==
    ASSUME Received, ConnLinesEnd, HeadersRead, m_check_state = "HEADER",
           NEW q \in Conn!CRLF, ConnNextEnd(q),
           UNCHANGED <<buf, received, todo, inbox>>, m_checket_idx' = q + 1,
              m_start_line' = q + 1,
           Conn!parse_headers(Conn!get_line(q - 1))
    PROVE  /\ Received' /\ ConnLinesEnd'
           /\ result' = "NO_REQUEST" => HeadersRead'
           /\ Answered' => result' = Conn!Answer'
<1> DEFINE header == Conn!get_line(q - 1)
<1>1. /\ m_start_line # 0 /\ FirstIsGood /\ m_content_length = LengthSaid
      /\ \A i \in ConnDone : i - 2 \notin ConnDone
  BY DEF HeadersRead
<1>2. m_content_length' \in {0, 1}
  BY DEF Conn!parse_headers, Received
<1>3. /\ Received' /\ ConnLinesEnd' /\ ConnDone' = ConnDone \cup {q} /\ q \notin ConnDone
      /\ \A j \in ConnDone : j < q /\ j + 1 <= m_start_line
      /\ Conn!CRLF' = Conn!CRLF /\ Conn!LineEnds' = Conn!LineEnds /\ Conn!Answer' = Conn!Answer
  BY <1>2, EndJoins
<1>4. /\ header = <<>> <=> q - 2 \in ConnDone
      /\ header = <<"1">> <=> q - 3 \in ConnDone /\ received[q - 1] = "1"
  BY <1>1, TextOfLine
<1>0. /\ q \in Nat
      /\ q >= 1
      /\ Len(received) \in Nat
      /\ q + 1 <= Len(received)
      /\ ConnDone \subseteq Nat
  BY DEF Conn!CRLF, Received, ConnDone
<1>5. FirstIsGood'
  <2>1. PICK i \in ConnDone :
       (\A j \in ConnDone : i <= j) /\ SubSeq(received, 1, i - 1) = <<"g">>
    BY <1>1 DEF FirstIsGood
  <2>2. i \in ConnDone' /\ \A j \in ConnDone' : i <= j
    BY <1>0, <1>3, <2>1
  <2> QED
    BY <2>1, <2>2 DEF FirstIsGood
<1>6. LengthSaid' = IF header = <<"1">> THEN 1 ELSE LengthSaid
  <2>1. ASSUME NEW i \in ConnDone'
        PROVE  i + 3 \in ConnDone' /\ received'[i + 2] = "1" <=>
                 \/ i \in ConnDone /\ i + 3 \in ConnDone /\ received[i + 2] = "1"
                 \/ i = q - 3 /\ header = <<"1">>
    <3>1. CASE i = q
      BY <1>0, <1>3, <1>4, <3>1
    <3>2. CASE i \in ConnDone /\ i + 3 = q
      <4>1. i = q - 3 /\ i + 2 = q - 1
        BY <1>0, <3>2
      <4> QED
        BY <1>0, <1>3, <1>4, <3>2, <4>1
    <3>3. CASE i \in ConnDone /\ i + 3 # q
      <4>1. i # q - 3
        BY <1>0, <3>3
      <4> QED
        BY <1>0, <1>3, <3>3, <4>1
    <3> QED
      BY <1>3, <3>1, <3>2, <3>3
  <2>2. header = <<"1">> => q - 3 \in ConnDone'
    BY <1>3, <1>4
  <2>3. (\E i \in ConnDone' : i + 3 \in ConnDone' /\ received'[i + 2] = "1") <=>
          \/ \E i \in ConnDone : i + 3 \in ConnDone /\ received[i + 2] = "1"
          \/ header = <<"1">>
    BY <1>3, <2>1, <2>2
  <2> QED
    BY <2>3 DEF LengthSaid
<1>7. CASE header = <<>>
  <2>1. /\ m_content_length' = m_content_length /\ LengthSaid' = m_content_length
        /\ LengthSaid \in {0, 1}
    BY <1>1, <1>6, <1>7 DEF Conn!parse_headers, LengthSaid
  <2>2. \A i \in ConnDone' : i - 2 \in ConnDone' <=> i = m_start_line' - 1
    <3>1. q - 2 \in ConnDone'
      BY <1>3, <1>4, <1>7
    <3>2. ASSUME NEW i \in ConnDone PROVE i - 2 \notin ConnDone'
      BY <1>0, <1>1, <1>3, <3>2
    <3> QED
      BY <1>0, <1>3, <3>1, <3>2
  <2>3. CASE m_content_length # 0
    <3>1. m_check_state' = "CONTENT" /\ result' = "NO_REQUEST"
      BY <1>7, <2>3 DEF Conn!parse_headers
    <3>2. HeadersRead'
      BY <1>0, <1>5, <2>1, <2>2, <3>1 DEF HeadersRead
    <3> QED
      BY <1>3, <3>1, <3>2 DEF Answered
  <2>4. CASE m_content_length = 0
    <3>1. result' = "GET_REQUEST"
      BY <1>7, <2>4 DEF Conn!parse_headers
    <3>2. Conn!Answer' = IF Len(received') < m_start_line' + LengthSaid'
                    THEN "NO_REQUEST" ELSE "GET_REQUEST"
      <4>1. m_start_line' # 0
        BY <1>0
      <4> QED
        BY <1>3, <1>5, <2>2, <4>1, WithContentNext
    <3>3. Conn!Answer' = "GET_REQUEST"
      BY <1>0, <2>1, <2>4, <3>2
    <3> QED
      BY <1>3, <3>1, <3>3
  <2> QED
    BY <2>3, <2>4
<1>8. CASE header # <<>>
  <2>1. /\ m_content_length' = IF header = <<"1">> THEN 1 ELSE m_content_length
        /\ result' = "NO_REQUEST" /\ m_check_state' = "HEADER"
    BY <1>8 DEF Conn!parse_headers
  <2>2. \A i \in ConnDone' : i - 2 \notin ConnDone'
    <3>1. q - 2 \notin ConnDone'
      BY <1>0, <1>3, <1>4, <1>8
    <3>2. ASSUME NEW i \in ConnDone PROVE i - 2 \notin ConnDone'
      BY <1>0, <1>1, <1>3, <3>2
    <3> QED
      BY <1>3, <3>1, <3>2
  <2>3. HeadersRead'
    BY <1>0, <1>1, <1>5, <1>6, <2>1, <2>2 DEF HeadersRead
  <2> QED
    BY <1>3, <2>1, <2>3 DEF Answered
<1> QED
  BY <1>7, <1>8

(* One turn of process_read.                                               *)
LEMMA processReadKeeps == ASSUME ConnInv, Conn!process_read PROVE ConnInv'
<1>1. /\ at = "process" /\ ~Answered
      /\ UNCHANGED <<Conn!socket, buf, Conn!client, received, connections>>
      /\ at' \in {"wait", "process"} /\ (Answered' => at' = "process")
  BY DEF Conn!process_read, Conn!parse_content, Answered
<1>2. m_sockfd = "open" /\ connections # 0
  BY <1>1 DEF ConnInv, Counted
<1>3. Counted'
  BY <1>1, <1>2 DEF ConnInv, Counted, Conn!socket, Conn!users
<1>4. ASSUME connections = 1 PROVE InRequest'
  <2>1. InRequest /\ Received /\ ConnLinesEnd /\ HeadersRead
    BY <1>1, <1>2, <1>4 DEF ConnInv, InRequest
  <2>2. CASE m_check_state = "CONTENT"
    <3>1. /\ result' = IF Conn!m_read_idx >= m_checket_idx + m_content_length
                       THEN "GET_REQUEST" ELSE "NO_REQUEST"
          /\ UNCHANGED <<m_checket_idx, m_start_line, m_check_state, m_content_length,
                         m_linger>>
      BY <2>2 DEF Conn!process_read, Conn!parse_content
    <3>2. UNCHANGED <<Conn!request, received>>
      BY <1>1, <3>1 DEF Conn!request
    <3>3. Conn!Answer = IF Len(received) < m_start_line + LengthSaid
                   THEN "NO_REQUEST" ELSE "GET_REQUEST"
      BY <2>1, <2>2, WithContent DEF HeadersRead
    <3>4. /\ m_checket_idx = m_start_line
          /\ m_content_length = LengthSaid
          /\ Conn!m_read_idx = Len(received)
          /\ m_start_line \in Nat /\ m_content_length \in Nat /\ Len(received) \in Nat
      BY <2>1, <2>2 DEF HeadersRead, Received, Conn!m_read_idx
    <3>5. result' = Conn!Answer
      BY <3>1, <3>3, <3>4
    <3>6. Received'
      BY <1>1, <2>1, <3>2, SameRequest DEF Received, Conn!client
    <3>7. at' = "wait" => result' = "NO_REQUEST"
      BY <1>1, <2>2, <3>1 DEF Conn!process_read
    <3> QED
      BY <2>1, <3>2, <3>5, <3>6, <3>7, SameRequest DEF InRequest
  <2>3. CASE m_check_state # "CONTENT" /\ Conn!parse_line.status # "OK"
    <3>1. /\ m_checket_idx' = Conn!parse_line.next /\ at' = "wait" /\ result' = "NO_REQUEST"
          /\ UNCHANGED <<m_start_line, m_check_state, m_content_length, m_linger>>
      BY <2>3 DEF Conn!process_read
    <3>2. /\ Conn!parse_line.next \in m_checket_idx .. Len(received)
          /\ \A i \in m_start_line + 1 .. Conn!parse_line.next : ~ConnStop(i)
          /\ Conn!LineEnds = ConnDone
      BY <2>1, <2>3, ConnLineFound
    <3>3. Conn!Answer = "NO_REQUEST"
      BY <2>1, <2>3, <3>2, NotYet
    <3>4. Received'
      BY <1>1, <2>1, <3>1, <3>2 DEF Received, Conn!client
    <3>5. ConnLinesEnd'
      BY <1>1, <2>1, <3>1, <3>2 DEF ConnLinesEnd, Conn!CRLF, Conn!Stray, ConnStop
    <3>6. Conn!CRLF' = Conn!CRLF /\ ConnDone' = ConnDone /\ Conn!LineEnds' = Conn!LineEnds
      BY <1>1, <3>1 DEF ConnDone, Conn!CRLF, Conn!LineEnds, Conn!Stray
    <3>7. HeadersRead'
      BY <1>1, <2>1, <2>3, <3>1, <3>6 DEF HeadersRead, FirstIsGood, LengthSaid
    <3>8. Conn!Answer' = Conn!Answer
      BY <1>1, <3>6 DEF Conn!Answer, Conn!Blanks, Conn!Length
    <3> QED
      BY <3>1, <3>3, <3>4, <3>5, <3>7, <3>8 DEF InRequest, Answered
  <2>4. CASE m_check_state # "CONTENT" /\ Conn!parse_line.status = "OK"
    <3>1. PICK q \in Conn!CRLF :
         ConnNextEnd(q) /\ Conn!parse_line = [status |-> "OK", next |-> q + 1]
      BY <2>1, <2>4, ConnLineFound
    <3>2. /\ m_checket_idx' = q + 1 /\ m_start_line' = q + 1 /\ at' = at

             /\ IF m_check_state = "REQUESTLINE"
             THEN Conn!parse_request_line(Conn!get_line((q + 1) - 2))
             ELSE Conn!parse_headers(Conn!get_line((q + 1) - 2))
      BY <2>4, <3>1 DEF Conn!process_read
    <3>3. (q + 1) - 2 = q - 1
      BY DEF Conn!CRLF
    <3>4. UNCHANGED <<buf, received, todo, inbox>>
      BY <1>1 DEF Conn!client
    <3>5. result' \in {"NO_REQUEST", "BAD_REQUEST", "GET_REQUEST"}
      BY <3>2 DEF Conn!parse_request_line, Conn!parse_headers
    <3>6. /\ Received' /\ ConnLinesEnd'
          /\ result' = "NO_REQUEST" => HeadersRead'
          /\ Answered' => result' = Conn!Answer'
      <4>1. CASE m_check_state = "REQUESTLINE"
        BY <2>1, <3>1, <3>2, <3>3, <3>4, <4>1, RequestLine
      <4>2. CASE m_check_state = "HEADER"
        BY <2>1, <3>1, <3>2, <3>3, <3>4, <4>2, HeaderLine
      <4> QED
        BY <2>1, <2>4, <4>1, <4>2 DEF HeadersRead
    <3> QED
      BY <1>1, <3>2, <3>5, <3>6 DEF InRequest, Answered
  <2> QED
    BY <2>2, <2>3, <2>4
<1> QED
  BY <1>1, <1>2, <1>3, <1>4 DEF ConnInv, Conn!socket

-----------------------------------------------------------------------------
(* The invariant holds at first, and every step keeps it.                  *)
LEMMA ConnStarts == Conn!Init => ConnInv
BY DEF Conn!Init, ConnInv, Counted, Answered, Conn!users, Pristine

LEMMA ConnKeeps == ConnInv /\ [Conn!Next]_Conn!vars => ConnInv'
<1> SUFFICES ASSUME ConnInv, [Conn!Next]_Conn!vars PROVE ConnInv'
  OBVIOUS
<1>1. CASE UNCHANGED Conn!vars
  <2>1. /\ UNCHANGED <<Conn!request, received>>
        /\ UNCHANGED <<Conn!socket, Conn!client, at, result, connections>>
    BY <1>1 DEF Conn!vars
  <2>2. Counted' /\ (Pristine => Pristine')
    BY <2>1 DEF ConnInv, Counted, Answered, Conn!users, Conn!socket, Conn!request, Pristine
  <2>3. InRequest => InRequest'
    BY <2>1, SameRequest DEF InRequest, Received, Answered, Conn!client
  <2> QED
    BY <2>1, <2>2, <2>3 DEF ConnInv, Conn!socket
<1> QED
  BY <1>1, acceptedKeeps, clientKeeps, readKeeps, processReadKeeps, processKeeps DEF Conn!Next

(* Whether the first connection's request is whole, and good, depends on   *)
(* the bytes alone, and the users are counted, of an object whose fields   *)
(* are zero at first (15/4_http_conn.h:299, 313, 410; 222, 237).           *)
THEOREM PiecesDoNotMatter == Conn!Spec => []ConnectionsAnswered
<1>1. ConnInv => ConnectionsAnswered
  BY DEF ConnInv, ConnectionsAnswered, Conn!AnswerOfStream, InRequest, Counted, Answered
<1> QED
  BY <1>1, ConnStarts, ConnKeeps, PTL DEF Conn!Spec

-----------------------------------------------------------------------------
(* The line readers.                                                       *)

Char == STRING

(* Concatenation under a name of its own, which the provers take as it is. *)
a ++ b == a \o b

LEMMA Grouped ==
    ASSUME NEW a \in Seq(Char), NEW b \in Seq(Char), NEW c \in Seq(Char)
    PROVE  (a ++ b) ++ c = a ++ (b ++ c) /\ a ++ b \in Seq(Char) /\ Len(a ++ b) = Len(a) + Len(b)
BY ConcatAssociative, ConcatProperties DEF ++

LEMMA GroupedEmpty == ASSUME NEW a \in Seq(Char) PROVE a ++ <<>> = a /\ <<>> ++ a = a
BY ConcatEmptySeq DEF ++

LEMMA Regrouped ==
    ASSUME NEW d \in Seq(Char), NEW t \in Seq(Char), NEW p \in Seq(Char), NEW r \in Seq(Char)
    PROVE  (d ++ (t ++ p)) ++ r = (d ++ t) ++ (p ++ r)
<1>1. d ++ t \in Seq(Char)
  BY Grouped
<1>2. d ++ (t ++ p) = (d ++ t) ++ p
  BY Grouped
<1>3. ((d ++ t) ++ p) ++ r = (d ++ t) ++ (p ++ r)
  BY <1>1, Grouped
<1> QED
  BY <1>2, <1>3

(* A byte, or a piece, that goes from the front of u to the end of t keeps *)
(* everything in its order.                                                *)
LEMMA ByteMoved ==
    ASSUME NEW d \in Seq(Char), NEW t \in Seq(Char), NEW u \in Seq(Char), u # <<>>
    PROVE  /\ Head(u) \in Char /\ Tail(u) \in Seq(Char) /\ Append(t, Head(u)) \in Seq(Char)
           /\ (d ++ Append(t, Head(u))) ++ Tail(u) = (d ++ t) ++ u
<1>1. Head(u) \in Char /\ Tail(u) \in Seq(Char)
  BY HeadTailProperties
<1>2. PICK h \in Seq(Char) : h = <<Head(u)>>
  <2>1. <<Head(u)>> \in Seq(Char)
    BY <1>1
  <2> QED
    BY Zenon, <2>1
<1>3. Append(t, Head(u)) = t ++ h
  BY <1>1, <1>2, AppendIsConcat DEF ++
<1>4. h ++ Tail(u) = u
  <2>1. Tail(u) = SubSeq(u, 2, Len(u))
    BY TailIsSubSeq
  <2>2. Len(u) \in Nat /\ Len(u) > 0 /\ Head(u) = u[1]
    OBVIOUS
  <2>3. u = <<u[1]>> \o SubSeq(u, 1 + 1, Len(u))
    BY <2>2, SubSeqRecursiveFirst, SubSeqFull
  <2> QED
    BY <1>2, <2>1, <2>2, <2>3 DEF ++
<1>5. Append(t, Head(u)) \in Seq(Char)
  BY <1>1
<1>6. (d ++ (t ++ h)) ++ Tail(u) = (d ++ t) ++ (h ++ Tail(u))
  <2>1. PICK v \in Seq(Char) : v = Tail(u)
    BY Zenon, <1>1
  <2>2. (d ++ (t ++ h)) ++ v = (d ++ t) ++ (h ++ v)
    BY Regrouped
  <2> QED
    BY Zenon, <2>1, <2>2
<1> QED
  BY Zenon, <1>1, <1>3, <1>4, <1>5, <1>6

LEMMA Divided ==
    ASSUME NEW u \in Seq(Char), NEW k \in 1 .. Len(u)
    PROVE  \E p, r \in Seq(Char) :
             /\ p = SubSeq(u, 1, k) /\ Len(p) = k /\ p ++ r = u
             /\ r = SubSeq(u, k + 1, Len(u)) /\ Len(r) = Len(u) - k
<1>1. /\ SubSeq(u, 1, k) \in Seq(Char) /\ Len(SubSeq(u, 1, k)) = k
      /\ SubSeq(u, k + 1, Len(u)) \in Seq(Char) /\ Len(SubSeq(u, k + 1, Len(u))) = Len(u) - k
  OBVIOUS
<1>2. SubSeq(u, 1, k) ++ SubSeq(u, k + 1, Len(u)) = u
  BY ConcatAdjacentSubSeq, SubSeqFull DEF ++
<1> QED
  BY <1>1, <1>2

(* What is in a call: nothing taken ends a line, and there is room; and    *)
(* how the text is related to what was taken.                              *)
InCall ==
    /\ reader \in Lines!LineReaders => \A j \in 1 .. Len(taken) : taken[j] # Lines!NL
    /\ reader \in {"readline", "readline_slow"} => Len(text) < maxlen - 1
    /\ reader = "readn" => Len(text) < maxlen
Kept ==
    IF reader = "readLine"
    THEN /\ Len(text) <= Len(taken) /\ Len(text) < maxlen
         /\ text = SubSeq(taken, 1, Len(text))
         /\ Len(text) = Len(taken) \/ Len(text) = maxlen - 1
    ELSE text = taken

LineTypes ==
    /\ reader \in Lines!LineReaders \cup {"readn", "writen"}
    /\ bytes \in Seq(Char) /\ unread \in Seq(Char) /\ read_buf \in Seq(Char)
    /\ text \in Seq(Char) /\ taken \in Seq(Char) /\ done \in Seq(Char)
    /\ returned \in Int /\ where \in {"in", "out"}
    /\ read_buf # <<>> => reader = "readline"
    /\ reader = "writen" => done = <<>>

InOrder == ((done ++ taken) ++ read_buf) ++ unread = bytes

LinesInv ==
    /\ LineTypes /\ InOrder /\ Kept
    /\ where = "in" => InCall
    /\ where = "out" /\ returned >= 0 => Lines!Returned

LEMMA LinesStart == Lines!Init => LinesInv
<1> SUFFICES ASSUME Lines!Init PROVE LinesInv
  OBVIOUS
<1>1. LineTypes
  <2>1. Streams \subseteq Seq(Char)
    BY LinesAssumption DEF Char
  <2> QED
    BY <2>1 DEF Lines!Init, LineTypes, Lines!LineReaders
<1>2. InOrder
  <2>1. bytes \in Seq(Char) /\ unread = bytes
    BY <1>1 DEF Lines!Init, LineTypes
  <2> QED
    BY <2>1, GroupedEmpty, EmptySeq DEF Lines!Init, InOrder
<1>3. Kept /\ InCall /\ where = "in"
  BY LinesAssumption DEF Lines!Init, Kept, InCall, Lines!LineReaders
<1> QED
  BY <1>1, <1>2, <1>3 DEF LinesInv

LEMMA putKeeps ==
    ASSUME LineTypes, Kept, where = "in", InCall, NEW c \in Char, reader \in Lines!LineReaders,
           Lines!put(c)
    PROVE  /\ text' \in Seq(Char) /\ taken' = Append(taken, c) /\ taken' \in Seq(Char)
           /\ returned' \in Int /\ where' \in {"in", "out"}
           /\ UNCHANGED <<reader, bytes, done>>
           /\ Kept' /\ (where' = "in" => InCall') /\ (where' = "out" => Lines!Returned')
<1>1. /\ taken' = Append(taken, c) /\ taken' \in Seq(Char) /\ Len(taken') = Len(taken) + 1
      /\ taken'[Len(taken) + 1] = c /\ \A j \in 1 .. Len(taken) : taken'[j] = taken[j]
      /\ taken' # <<>>
  <2>1. taken' = Append(taken, c) /\ taken \in Seq(Char)
    BY DEF Lines!put, LineTypes
  <2>2. /\ Append(taken, c) \in Seq(Char) /\ Len(Append(taken, c)) = Len(taken) + 1
        /\ Append(taken, c)[Len(taken) + 1] = c /\ Append(taken, c) # <<>>
        /\ \A j \in 1 .. Len(taken) : Append(taken, c)[j] = taken[j]
    BY <2>1, AppendProperties
  <2> QED
    BY Zenon, <2>1, <2>2
<1>2. UNCHANGED <<reader, bytes, done>> /\ Len(text) \in Nat /\ Len(taken) \in Nat
  BY DEF Lines!put, LineTypes
<1>3. /\ Append(text, c) \in Seq(Char) /\ Len(Append(text, c)) = Len(text) + 1
      /\ Append(text, c)[Len(text) + 1] = c
      /\ \A j \in 1 .. Len(text) : Append(text, c)[j] = text[j]
  BY AppendProperties DEF LineTypes
<1>4. text' \in Seq(Char) /\ Len(text') \in Nat
  <2>1. text' = text \/ text' = Append(text, c)
    BY DEF Lines!put
  <2>2. text \in Seq(Char)
    BY DEF LineTypes
  <2>3. text' \in Seq(Char)
    BY Zenon, <1>3, <2>1, <2>2
  <2> QED
    BY <2>3, LenProperties
<1>5. Kept'
  <2>1. CASE reader # "readLine"
    BY <1>2, <2>1 DEF Kept, Lines!put
  <2>2. CASE reader = "readLine" /\ Len(text) = maxlen - 1
    <3>1. text' = text /\ Len(text) < maxlen /\ Len(text') <= Len(taken')
      BY <1>1, <1>2, <2>2, LinesAssumption DEF Kept, Lines!put
    <3>2. SubSeq(taken', 1, Len(text)) = SubSeq(taken, 1, Len(text))
      BY <1>1, <1>2, <2>2, <3>1, LinesAssumption DEF Kept, LineTypes
    <3> QED
      BY <1>2, <2>2, <3>1, <3>2 DEF Kept
  <2>3. CASE reader = "readLine" /\ Len(text) # maxlen - 1
    <3>1. text' = Append(text, c) /\ Len(text) = Len(taken) /\ text = taken
      BY <1>2, <2>3, SubSeqFull DEF Kept, Lines!put, LineTypes
    <3>2. text' = taken' /\ SubSeq(taken', 1, Len(taken')) = taken'
      BY <1>1, <3>1, SubSeqFull
    <3> QED
      BY <1>1, <1>2, <1>3, <2>3, <3>1, <3>2, LinesAssumption DEF Kept
  <2> QED
    BY <2>1, <2>2, <2>3
<1>6. Len(text') < maxlen /\ text' = SubSeq(taken', 1, Len(text')) /\ Len(text') > 0
      /\ (reader # "readLine" => text' = taken')
  <2>1. CASE reader # "readLine"
    <3>1. reader \in {"readline", "readline_slow"} /\ text' = taken' /\ text' = Append(text, c)
      BY <1>2, <1>5, <2>1 DEF Kept, Lines!LineReaders, Lines!put
    <3> QED
      BY <1>1, <1>2, <1>3, <3>1, SubSeqFull, LinesAssumption DEF InCall
  <2>2. CASE reader = "readLine"
    BY <1>2, <1>3, <1>5, <2>2, LinesAssumption DEF Kept, Lines!put
  <2> QED
    BY <2>1, <2>2
<1>7. \A j \in 1 .. Len(taken') - 1 : taken'[j] # Lines!NL
  BY <1>1, <1>2 DEF InCall
<1>8. CASE c = Lines!NL
  <2>1. where' = "out" /\ returned' = Len(text')
    BY <1>8 DEF Lines!put, Lines!returns
  <2>2. Lines!Whole'
    BY <1>1, <1>2, <1>8 DEF Lines!Whole, Lines!LineReaders
  <2>3. Lines!Returned'
    BY <1>2, <1>4, <1>6, <1>7, <2>1, <2>2 DEF Lines!Returned, Lines!LineReaders
  <2> QED
    BY <1>1, <1>2, <1>4, <1>5, <2>1, <2>3
<1>9. CASE c # Lines!NL /\ reader # "readLine" /\ Len(text') = maxlen - 1
  <2>1. where' = "out" /\ returned' = maxlen
    BY <1>9 DEF Lines!put, Lines!returns
  <2>2. text'[maxlen - 1] = c
    BY <1>1, <1>2, <1>6, <1>9, LinesAssumption
  <2>3. Lines!Whole' /\ reader \in {"readline", "readline_slow"}
    BY <1>1, <1>2, <1>9 DEF Lines!Whole, Lines!LineReaders
  <2>4. Lines!Returned'
    BY <1>2, <1>6, <1>7, <1>9, <2>1, <2>2, <2>3, LinesAssumption
       DEF Lines!Returned, Lines!LineReaders
  <2> QED
    BY <1>1, <1>2, <1>4, <1>5, <2>1, <2>4, LinesAssumption
<1>10. CASE c # Lines!NL /\ (reader = "readLine" \/ Len(text') # maxlen - 1)
  <2>1. UNCHANGED <<where, returned>>
    BY <1>10 DEF Lines!put
  <2>2. InCall'
    <3>1. \A j \in 1 .. Len(taken') : taken'[j] # Lines!NL
      BY <1>1, <1>2, <1>7, <1>10
    <3> QED
      BY <1>2, <1>4, <1>6, <1>10, <3>1, LinesAssumption DEF InCall, Lines!LineReaders
  <2> QED
    BY <1>1, <1>2, <1>4, <1>5, <2>1, <2>2 DEF LineTypes
<1> QED
  BY <1>8, <1>9, <1>10
LEMMA byteKeeps ==
    ASSUME LinesInv, Lines!readByte \/ Lines!myread PROVE LinesInv'
<1>1. /\ LineTypes /\ Kept /\ where = "in" /\ InCall /\ InOrder
      /\ done \in Seq(Char) /\ taken \in Seq(Char)
  BY DEF LinesInv, LineTypes, Lines!readByte, Lines!myread
<1>2. CASE Lines!readByte
  <2>1. /\ reader \in {"readline_slow", "readLine"} /\ reader \in Lines!LineReaders
        /\ unread # <<>> /\ unread \in Seq(Char) /\ read_buf = <<>>
        /\ Lines!put(Head(unread)) /\ unread' = Tail(unread) /\ read_buf' = <<>>
    BY <1>1, <1>2 DEF Lines!readByte, Lines!LineReaders, LineTypes
  <2>2. Head(unread) \in Char /\ Tail(unread) \in Seq(Char)
    BY <2>1, HeadTailProperties
  <2>3. /\ text' \in Seq(Char) /\ taken' = Append(taken, Head(unread)) /\ taken' \in Seq(Char)
        /\ returned' \in Int /\ where' \in {"in", "out"}
        /\ UNCHANGED <<reader, bytes, done>>
        /\ Kept' /\ (where' = "in" => InCall') /\ (where' = "out" => Lines!Returned')
    BY <1>1, <2>1, <2>2, putKeeps
  <2>4. LineTypes'
    BY <1>1, <2>1, <2>2, <2>3 DEF LineTypes
  <2>5. (done ++ taken') ++ Tail(unread) = (done ++ taken) ++ unread
    BY <1>1, <2>1, <2>3, ByteMoved
  <2>6. InOrder'
    <3>1. done ++ taken' \in Seq(Char) /\ done ++ taken \in Seq(Char)
      BY <1>1, <2>3, Grouped
    <3>2. (done ++ taken') ++ <<>> = done ++ taken' /\ (done ++ taken) ++ <<>> = done ++ taken
      BY <3>1, GroupedEmpty
    <3> QED
      BY <1>1, <2>1, <2>3, <2>5, <3>2 DEF InOrder
  <2> QED
    BY <2>3, <2>4, <2>6 DEF LinesInv
<1>3. CASE Lines!myread
  <2>1. /\ reader = "readline" /\ reader \in Lines!LineReaders
        /\ read_buf # <<>> /\ read_buf \in Seq(Char) /\ UNCHANGED unread
        /\ Lines!put(Head(read_buf)) /\ read_buf' = Tail(read_buf)
    BY <1>1, <1>3 DEF Lines!myread, Lines!LineReaders, LineTypes
  <2>2. Head(read_buf) \in Char /\ Tail(read_buf) \in Seq(Char)
    BY <2>1, HeadTailProperties
  <2>3. /\ text' \in Seq(Char) /\ taken' = Append(taken, Head(read_buf)) /\ taken' \in Seq(Char)
        /\ returned' \in Int /\ where' \in {"in", "out"}
        /\ UNCHANGED <<reader, bytes, done>>
        /\ Kept' /\ (where' = "in" => InCall') /\ (where' = "out" => Lines!Returned')
    BY <1>1, <2>1, <2>2, putKeeps
  <2>4. LineTypes'
    BY <1>1, <2>1, <2>2, <2>3 DEF LineTypes
  <2>5. (done ++ taken') ++ Tail(read_buf) = (done ++ taken) ++ read_buf
    BY <1>1, <2>1, <2>3, ByteMoved
  <2>6. InOrder'
    BY <1>1, <2>1, <2>3, <2>5 DEF InOrder
  <2> QED
    BY <2>3, <2>4, <2>6 DEF LinesInv
<1> QED
  BY <1>2, <1>3

LEMMA fillKeeps == ASSUME LinesInv, Lines!fill PROVE LinesInv'
<1>1. PICK k \in Lines!Pieces(MAXLINE) : read_buf' = Lines!Piece(k) /\ Lines!leave(k)
  BY DEF Lines!fill
<1>2. /\ k \in 1 .. Len(unread) /\ read_buf = <<>> /\ where = "in" /\ reader = "readline"
      /\ read_buf' = SubSeq(unread, 1, k) /\ unread' = SubSeq(unread, k + 1, Len(unread))
      /\ UNCHANGED <<reader, bytes, text, taken, done, returned, where>>
  BY <1>1 DEF Lines!fill, Lines!Pieces, Lines!Piece, Lines!leave
<1>3. /\ unread \in Seq(Char) /\ done \in Seq(Char) /\ taken \in Seq(Char)
      /\ done ++ taken \in Seq(Char)
  BY Grouped DEF LinesInv, LineTypes
<1>4. read_buf' \in Seq(Char) /\ unread' \in Seq(Char) /\ read_buf' ++ unread' = unread
  <2>1. PICK p, r \in Seq(Char) :
          p = SubSeq(unread, 1, k) /\ p ++ r = unread /\ r = SubSeq(unread, k + 1, Len(unread))
    BY <1>2, <1>3, Divided
  <2> QED
    BY Zenon, <1>2, <2>1
<1>5. LineTypes' /\ InOrder'
  <2>1. LineTypes'
    BY <1>2, <1>3, <1>4 DEF LinesInv, LineTypes
  <2>2. ((done ++ taken) ++ read_buf') ++ unread' = (done ++ taken) ++ (read_buf' ++ unread')
    BY <1>3, <1>4, Grouped
  <2>3. (done ++ taken) ++ <<>> = done ++ taken
    BY <1>3, GroupedEmpty
  <2> QED
    BY <1>2, <1>4, <2>1, <2>2, <2>3 DEF LinesInv, InOrder
<1>6. Kept' /\ InCall' /\ where' = "in"
  BY <1>2 DEF LinesInv, Kept, InCall
<1> QED
  BY <1>5, <1>6 DEF LinesInv

LEMMA moveKeeps ==
    ASSUME LinesInv, NEW asked \in Nat, Lines!move(asked),
           \/ reader = "readn" /\ asked = maxlen
           \/ reader = "writen" /\ asked = Len(bytes)
    PROVE  LinesInv'
<1>1. /\ LineTypes /\ Kept /\ where = "in" /\ InCall /\ InOrder /\ read_buf = <<>>
      /\ done \in Seq(Char) /\ taken \in Seq(Char) /\ unread \in Seq(Char)
      /\ text = taken
  BY DEF LinesInv, LineTypes, Kept, Lines!move
<1>2. PICK k \in Lines!Pieces(asked - Len(text)) :
        /\ text' = text \o Lines!Piece(k) /\ taken' = taken \o Lines!Piece(k) /\ Lines!leave(k)
        /\ IF Len(text') = asked THEN Lines!returns(asked) ELSE UNCHANGED <<where, returned>>
  BY DEF Lines!move
<1>3. /\ k \in 1 .. Len(unread) /\ k <= asked - Len(text)
      /\ taken' = taken ++ SubSeq(unread, 1, k) /\ text' = taken'
      /\ unread' = SubSeq(unread, k + 1, Len(unread))
      /\ UNCHANGED <<reader, bytes, read_buf, done>>
  BY <1>1, <1>2 DEF Lines!move, Lines!Pieces, Lines!Piece, Lines!leave, ++
<1>4. /\ taken' \in Seq(Char) /\ Len(taken') = Len(taken) + k /\ Len(taken) \in Nat
      /\ unread' \in Seq(Char) /\ Len(unread') = Len(unread) - k
      /\ (done ++ taken') ++ unread' = (done ++ taken) ++ unread
  <2>1. PICK p, r \in Seq(Char) :
           /\ p = SubSeq(unread, 1, k) /\ Len(p) = k /\ p ++ r = unread
           /\ r = SubSeq(unread, k + 1, Len(unread)) /\ Len(r) = Len(unread) - k
    BY <1>1, <1>3, Divided
  <2>3. /\ taken ++ p \in Seq(Char) /\ Len(taken ++ p) = Len(taken) + k
        /\ (done ++ (taken ++ p)) ++ r = (done ++ taken) ++ (p ++ r)
    <3>1. PICK d, t \in Seq(Char) : d = done /\ t = taken
      BY Zenon, <1>1
    <3>2. t ++ p \in Seq(Char) /\ Len(t ++ p) = Len(t) + Len(p)
      BY Grouped
    <3>3. (d ++ (t ++ p)) ++ r = (d ++ t) ++ (p ++ r)
      BY Regrouped
    <3> QED
      BY Zenon, <2>1, <3>1, <3>2, <3>3
  <2>2. Len(taken) \in Nat
    BY <1>1, LenProperties
  <2> QED
    BY Zenon, <1>3, <2>1, <2>2, <2>3
<1>5. Len(taken') <= asked /\ Len(taken') > 0
  BY <1>1, <1>3, <1>4
<1>6. InOrder'
  <2>1. (done ++ taken') ++ <<>> = done ++ taken' /\ (done ++ taken) ++ <<>> = done ++ taken
    BY <1>1, <1>4, Grouped, GroupedEmpty
  <2> QED
    BY <1>1, <1>3, <1>4, <2>1 DEF InOrder
<1>7. CASE Len(text') # asked
  <2>1. UNCHANGED <<where, returned>>
    BY <1>2, <1>7
  <2>2. LineTypes' /\ Kept'
    BY <1>1, <1>3, <1>4, <2>1 DEF LineTypes, Kept
  <2>3. InCall'
    <3>1. /\ reader' \notin Lines!LineReaders /\ reader' \notin {"readline", "readline_slow"}
          /\ reader' = "readn" => asked = maxlen
      BY <1>3 DEF Lines!LineReaders
    <3>2. Len(text') < asked
      <4>1. text' = taken'
        BY <1>3
      <4>2. Len(taken') \in Nat
        BY <1>4, LenProperties
      <4>3. Len(taken') <= asked /\ Len(taken') # asked
        BY <1>5, <1>7, <4>1
      <4> QED
        BY <4>1, <4>2, <4>3
    <3> QED
      BY <3>1, <3>2 DEF InCall
  <2> QED
    BY <1>1, <1>6, <2>1, <2>2, <2>3 DEF LinesInv
<1>8. CASE Len(text') = asked
  <2>1. where' = "out" /\ returned' = asked
    BY <1>2, <1>8 DEF Lines!returns
  <2>2. LineTypes' /\ Kept'
    BY <1>1, <1>3, <1>4, <2>1 DEF LineTypes, Kept
  <2>3. reader = "writen" => unread' = <<>>
    <3> SUFFICES ASSUME reader = "writen" PROVE unread' = <<>>
      OBVIOUS
    <3>1. done = <<>> /\ asked = Len(bytes)
      BY <1>1 DEF LineTypes
    <3>2. <<>> ++ taken' = taken' /\ taken' ++ <<>> = taken'
      BY <1>4, GroupedEmpty
    <3>3. bytes = taken' ++ unread'
      BY <1>1, <1>3, <1>6, <3>1, <3>2 DEF InOrder
    <3>4. Len(bytes) = Len(taken') + Len(unread')
      BY <1>4, <3>3, Grouped
    <3> QED
      BY <1>3, <1>4, <1>8, <3>1, <3>4, EmptySeq
  <2>4. Lines!Whole'
    BY <1>3, <1>8, <2>3 DEF Lines!Whole
  <2>5. text' = SubSeq(taken', 1, Len(text'))
    BY <1>3, <1>4, SubSeqFull
  <2>6. Lines!Returned'
    BY <1>3, <1>4, <1>5, <1>8, <2>1, <2>4, <2>5 DEF Lines!Returned, Lines!LineReaders
  <2> QED
    BY <1>6, <2>1, <2>2, <2>6 DEF LinesInv
<1> QED
  BY <1>7, <1>8

LEMMA endKeeps == ASSUME LinesInv, Lines!atEnd \/ Lines!fails PROVE LinesInv'
<1>1. /\ LineTypes /\ Kept /\ where = "in" /\ InCall /\ where' = "out"
      /\ UNCHANGED <<reader, bytes, unread, read_buf, text, taken, done>>
  BY DEF LinesInv, Lines!atEnd, Lines!fails, Lines!returns
<1>2. text \in Seq(Char) /\ taken \in Seq(Char) /\ Len(text) \in Nat
  BY <1>1 DEF LineTypes
<1>3. LineTypes' /\ Kept' /\ InOrder'
  BY <1>1, <1>2 DEF LinesInv, LineTypes, Kept, InOrder, Lines!atEnd, Lines!fails, Lines!returns
<1>4. CASE Lines!fails
  BY <1>1, <1>3, <1>4 DEF LinesInv, Lines!fails, Lines!returns
<1>5. CASE Lines!atEnd
  <2>1. returned' = Len(text) /\ unread' = <<>> /\ read_buf' = <<>>
    BY <1>1, <1>5 DEF Lines!atEnd, Lines!returns
  <2>2. text = SubSeq(taken, 1, Len(text)) /\ (reader # "readLine" => text = taken)
    BY <1>1, <1>2, SubSeqFull DEF Kept
  <2>3. /\ reader \in Lines!LineReaders => Len(text) < maxlen
        /\ reader = "readn" => Len(text) <= maxlen
    BY <1>1, <1>2, LinesAssumption DEF Kept, InCall, Lines!LineReaders
  <2>4. reader \in Lines!LineReaders => \A j \in 1 .. Len(taken) - 1 : taken[j] # Lines!NL
    BY <1>1, <1>2 DEF InCall
  <2>5. Lines!Returned'
    BY <1>1, <2>1, <2>2, <2>3, <2>4 DEF Lines!Returned
  <2> QED
    BY <1>1, <1>3, <2>5 DEF LinesInv
<1> QED
  BY <1>4, <1>5

LEMMA callKeeps == ASSUME LinesInv, Lines!call PROVE LinesInv'
<1>1. /\ reader # "writen" /\ where' = "in" /\ done' = done ++ taken
      /\ text' = <<>> /\ taken' = <<>>
      /\ UNCHANGED <<reader, bytes, unread, read_buf, returned>>
      /\ LineTypes /\ done \in Seq(Char) /\ taken \in Seq(Char)
  BY DEF Lines!call, LinesInv, LineTypes, ++
<1>2. done' \in Seq(Char) /\ done' ++ taken' = done ++ taken
  BY <1>1, Grouped, GroupedEmpty
<1>3. LineTypes' /\ InOrder'
  BY <1>1, <1>2 DEF LinesInv, LineTypes, InOrder
<1>4. Kept' /\ InCall'
  BY <1>1, LinesAssumption DEF Kept, InCall, Lines!LineReaders
<1> QED
  BY <1>1, <1>3, <1>4 DEF LinesInv

LEMMA LinesKept == LinesInv /\ [Lines!Next]_lineVars => LinesInv'
<1> SUFFICES ASSUME LinesInv, [Lines!Next]_lineVars PROVE LinesInv'
  OBVIOUS
<1>1. CASE Lines!readn
  <2>1. reader = "readn" /\ Lines!move(maxlen) /\ maxlen \in Nat
    BY <1>1, LinesAssumption DEF Lines!readn
  <2> QED
    BY <2>1, moveKeeps
<1>2. CASE Lines!writen
  <2>1. reader = "writen" /\ Lines!move(Len(bytes)) /\ Len(bytes) \in Nat
    BY <1>2 DEF Lines!writen, LinesInv, LineTypes
  <2> QED
    BY <2>1, moveKeeps
<1>3. CASE UNCHANGED lineVars
  BY <1>3 DEF lineVars, LinesInv, LineTypes, InOrder, Kept, InCall, Lines!Returned, Lines!Whole
<1> QED
  BY <1>1, <1>2, <1>3, byteKeeps, fillKeeps, endKeeps, callKeeps DEF Lines!Next

(* Whatever is read or written, in whatever pieces and however often it     *)
(* fails, no byte is lost, repeated or left to the next line               *)
(* (readlilne.c:12 and 43, read_line.c:37, readn.c:23, writen.c:11).       *)
THEOREM EveryByteOnce == TextSpec => []LinesTaken
<1>1. Starts => LinesInv
  BY LinesStart DEF Starts
<1>2. LinesInv /\ [Steps]_textVars => LinesInv'
  <2>1. [Steps]_textVars => [Lines!Next]_lineVars
    BY DEF Steps, textVars, lineVars
  <2> QED
    BY <2>1, LinesKept
<1>3. LinesInv => LinesTaken
  BY DEF LinesInv, InOrder, LinesTaken, Lines!TakenInOrder, ++
<1> QED
  BY <1>1, <1>2, <1>3, PTL DEF TextSpec

-----------------------------------------------------------------------------
(* tinyjson.                                                               *)

(* A text of tinyjson has no NUL in it, and one behind its end.             *)
IsText(s) == s \in Seq(STRING \ {Json!NUL})

LEMMA AtIs ==
    ASSUME NEW s, IsText(s)
    PROVE  /\ Len(s) \in Nat
           /\ \A p \in 1 .. Len(s) : Json!At(s, p) = s[p] /\ s[p] # Json!NUL
           /\ \A p \in Nat : p > Len(s) => Json!At(s, p) = Json!NUL
BY DEF IsText, Json!At

(* The first position, from p on, of what is not in C.                     *)
LEMMA AfterIs ==
    ASSUME NEW s, IsText(s), NEW p \in 1 .. Len(s) + 1, NEW C, Json!NUL \notin C
    PROVE  /\ Json!After(s, p, C) \in p .. Len(s) + 1
           /\ Json!At(s, Json!After(s, p, C)) \notin C
           /\ \A i \in p .. Json!After(s, p, C) - 1 : Json!At(s, i) \in C
<1> DEFINE S == {q \in p .. Len(s) + 1 : Json!At(s, q) \notin C}
<1>1. Len(s) \in Nat /\ S \in SUBSET Nat /\ Len(s) + 1 \in S
  BY AtIs
<1>2. Min(S) \in S /\ \A i \in S : Min(S) <= i
  BY <1>1, MinIs
<1>3. PICK a \in S : a = Json!After(s, p, C) /\ \A i \in S : a <= i
  BY <1>2 DEF Json!After, Json!Min, Min
<1>4. ASSUME NEW i \in p .. a - 1 PROVE Json!At(s, i) \in C
  BY <1>1, <1>3, <1>4
<1> QED
  BY <1>1, <1>3, <1>4

LEMMA AfterUnique ==
    ASSUME NEW s, IsText(s), NEW p \in 1 .. Len(s) + 1, NEW C, Json!NUL \notin C,
           NEW q \in p .. Len(s) + 1, Json!At(s, q) \notin C,
           \A i \in p .. q - 1 : Json!At(s, i) \in C
    PROVE  Json!After(s, p, C) = q
<1>1. Len(s) \in Nat
  BY AtIs
<1>2. PICK a \in p .. Len(s) + 1 :
        /\ a = Json!After(s, p, C) /\ Json!At(s, a) \notin C
        /\ \A i \in p .. a - 1 : Json!At(s, i) \in C
  BY AfterIs
<1> QED
  BY <1>1, <1>2

-----------------------------------------------------------------------------
(* Strings.  What is read from q on depends on the positions behind it, so *)
(* there is a function that says it of each.                               *)
ReadFrom(s, p, m, f) == \A q \in m .. Len(s) + 1 : f[q] = Json!read_from(s, p, q, f)

LEMMA ReadAlike ==
    ASSUME NEW s, IsText(s), NEW p, NEW q \in 1 .. Len(s) + 1, NEW f, NEW g,
           \A r \in q + 1 .. Len(s) + 1 : f[r] = g[r]
    PROVE  Json!read_from(s, p, q, f) = Json!read_from(s, p, q, g)
<1>1. Len(s) \in Nat /\ (q = Len(s) + 1 => Json!At(s, q) = Json!NUL)
      /\ (q = Len(s) => Json!At(s, q + 1) = Json!NUL)
  BY AtIs
<1>2. CASE Json!At(s, q) = "QUOTE"
  BY <1>2 DEF Json!read_from, Json!NUL
<1>3. CASE Json!At(s, q) = Json!NUL
  BY <1>3 DEF Json!read_from, Json!NUL
<1>4. CASE Json!At(s, q) = "\\" /\ Json!At(s, q + 1) \in Json!Escapes
  <2>1. f[q + 2] = g[q + 2]
    BY <1>1, <1>4 DEF Json!NUL, Json!Escapes
  <2> QED
    BY <1>4, <2>1 DEF Json!read_from, Json!NUL
<1>5. CASE Json!At(s, q) = "\\" /\ Json!At(s, q + 1) \notin Json!Escapes
  BY <1>5 DEF Json!read_from, Json!NUL
<1>6. CASE Json!At(s, q) \notin {"QUOTE", "\\", Json!NUL}
  <2>1. f[q + 1] = g[q + 1]
    BY <1>1, <1>6
  <2> QED
    BY <1>6, <2>1 DEF Json!read_from, Json!NUL
<1> QED
  BY <1>2, <1>3, <1>4, <1>5, <1>6

LEMMA Downward ==
    ASSUME NEW a \in Int, NEW b \in Int, NEW Good,
           \A q \in a .. b : (\A r \in q + 1 .. b : r \in Good) => q \in Good
    PROVE  \A q \in a .. b : q \in Good
<1> DEFINE Bad == {k \in Nat : k <= b - a /\ b - k \notin Good}
<1>1. SUFFICES ASSUME Bad # {} PROVE FALSE
  <2>1. ASSUME Bad = {}, NEW q \in a .. b PROVE q \in Good
    <3>1. b - q \in Nat /\ b - q <= b - a /\ b - (b - q) = q
      OBVIOUS
    <3> QED
      BY <2>1, <3>1
  <2> QED
    BY <2>1
<1>2. PICK k \in Bad : \A l \in Bad : k <= l
  BY <1>1, MinIs
<1>3. b - k \in a .. b
  OBVIOUS
<1>4. ASSUME NEW r \in b - k + 1 .. b PROVE r \in Good
  <2>1. b - r \in Nat /\ b - r <= b - a /\ b - (b - r) = r /\ b - r < k
    OBVIOUS
  <2> QED
    BY <1>2, <2>1
<1> QED
  BY <1>3, <1>4

LEMMA ReadExists ==
    ASSUME NEW s, IsText(s), NEW p \in 1 .. Len(s)
    PROVE  \E f : f = [q \in p + 1 .. Len(s) + 1 |-> Json!read_from(s, p, q, f)]
<1> DEFINE L == Len(s)
           Good == {m \in Nat : \E f : ReadFrom(s, p, m, f)}
<1>1. L \in Nat
  BY AtIs
<1>2. ASSUME NEW m \in p + 1 .. L + 1, \A r \in m + 1 .. L + 1 : r \in Good
      PROVE  m \in Good
  <2>1. \E f : ReadFrom(s, p, m + 1, f)
    <3>1. CASE m = L + 1
      BY <1>1, <3>1 DEF ReadFrom
    <3>2. CASE m # L + 1
      <4>1. m + 1 \in m + 1 .. L + 1
        BY <1>1, <3>2
      <4> QED
        BY <1>2, <4>1
    <3> QED
      BY <3>1, <3>2
  <2>2. PICK f : \A q \in m + 1 .. L + 1 : f[q] = Json!read_from(s, p, q, f)
    BY <2>1 DEF ReadFrom
  <2> DEFINE g == [q \in m .. L + 1 |-> IF q = m THEN Json!read_from(s, p, m, f) ELSE f[q]]
  <2>3. m \in 1 .. L + 1 /\ \A r \in m + 1 .. L + 1 : f[r] = g[r] /\ r # m
    BY <1>1
  <2>4. ASSUME NEW q \in m .. L + 1 PROVE g[q] = Json!read_from(s, p, q, g)
    <3>1. Json!read_from(s, p, q, f) = Json!read_from(s, p, q, g)
      <4>1. q \in 1 .. L + 1 /\ \A r \in q + 1 .. L + 1 : f[r] = g[r]
        BY <1>1, <2>3
      <4> HIDE DEF g
      <4> QED
        BY <4>1, ReadAlike
    <3>2. CASE q = m
      BY <3>1, <3>2
    <3>3. CASE q # m
      <4>1. q \in m + 1 .. L + 1
        BY <1>1, <2>3, <3>3
      <4> QED
        BY <2>2, <2>3, <3>1, <4>1
    <3> QED
      BY <3>2, <3>3
  <2>5. ReadFrom(s, p, m, g)
    BY <2>4 DEF ReadFrom
  <2> QED
    BY <2>3, <2>5
<1>3. PICK f : \A q \in p + 1 .. L + 1 : f[q] = Json!read_from(s, p, q, f)
  <2>1. p + 1 \in Int /\ L + 1 \in Int /\ p + 1 \in p + 1 .. L + 1
    BY <1>1
  <2>2. p + 1 \in Good
    <3> HIDE DEF Good
    <3>1. PICK a \in Int, b \in Int : a = p + 1 /\ b = L + 1
      BY <2>1
    <3>2. \A q \in a .. b : (\A i \in q + 1 .. b : i \in Good) => q \in Good
      BY Zenon, <1>2, <3>1
    <3>3. \A q \in a .. b : q \in Good
      BY Zenon, <3>2, Downward
    <3> QED
      BY Zenon, <2>1, <3>1, <3>3
  <2> QED
    BY <2>2 DEF ReadFrom
<1> DEFINE g == [q \in p + 1 .. L + 1 |-> f[q]]
<1>4. ASSUME NEW q \in p + 1 .. L + 1 PROVE g[q] = Json!read_from(s, p, q, g)
  <2>1. g[q] = f[q] /\ f[q] = Json!read_from(s, p, q, f)
    BY <1>3
  <2>2. q \in 1 .. L + 1 /\ \A r \in q + 1 .. L + 1 : f[r] = g[r]
    BY <1>1
  <2>3. Json!read_from(s, p, q, f) = Json!read_from(s, p, q, g)
    <3> HIDE DEF g
    <3> QED
      BY <2>2, ReadAlike
  <2> QED
    BY <2>1, <2>3
<1>5. g = [q \in p + 1 .. L + 1 |-> Json!read_from(s, p, q, g)]
  <2>1. g = [q \in p + 1 .. L + 1 |-> g[q]]
    OBVIOUS
  <2> HIDE DEF g
  <2> QED
    BY <1>4, <2>1
<1> QED
  BY <1>5

LEMMA StringRead ==
    ASSUME NEW s, IsText(s), NEW p \in 1 .. Len(s)
    PROVE  \E f : ReadFrom(s, p, p + 1, f) /\ Json!parse_string(s, p) = f[p + 1]
<1>1. PICK f : /\ f = [q \in p + 1 .. Len(s) + 1 |-> Json!read_from(s, p, q, f)]
               /\ Json!parse_string(s, p) = f[p + 1]
  BY Zenon, ReadExists DEF Json!parse_string
<1>2. ReadFrom(s, p, p + 1, f)
  BY <1>1 DEF ReadFrom
<1> QED
  BY <1>1, <1>2

(* What is read from q on, by the character there.                         *)
ReadBy(s, p, f, q) ==
    /\ Json!At(s, q) = "QUOTE" => f[q] = Json!Result("OK", q + 1, "STRING", <<>>)
    /\ \/ Json!At(s, q) = Json!NUL
       \/ Json!At(s, q) = "\\" /\ Json!At(s, q + 1) \notin Json!Escapes
       => \E code : code # "OK" /\ f[q] = Json!Fail(code, p + 1)
    /\ Json!At(s, q) = "\\" /\ Json!At(s, q + 1) \in Json!Escapes =>
         f[q] = IF f[q + 2].code # "OK" THEN f[q + 2]
                ELSE [f[q + 2] EXCEPT !.chars = Json!escaped(s[q + 1]) \o @]
    /\ Json!At(s, q) \notin {"QUOTE", "\\", Json!NUL} =>
         f[q] = IF f[q + 1].code # "OK" THEN f[q + 1]
                ELSE [f[q + 1] EXCEPT !.chars = <<s[q]>> \o @]

LEMMA ReadsBy ==
    ASSUME NEW s, NEW p, NEW f, NEW q \in p + 1 .. Len(s) + 1, ReadFrom(s, p, p + 1, f)
    PROVE  ReadBy(s, p, f, q)
<1>1. f[q] = Json!read_from(s, p, q, f)
  BY DEF ReadFrom
<1>2. CASE Json!At(s, q) = "QUOTE"
  BY <1>1, <1>2 DEF Json!read_from, Json!NUL, ReadBy
<1>3. CASE Json!At(s, q) = Json!NUL
  BY <1>1, <1>3 DEF Json!read_from, Json!NUL, ReadBy, Json!Fail, Json!Result
<1>4. CASE Json!At(s, q) = "\\" /\ Json!At(s, q + 1) \in Json!Escapes
  BY <1>1, <1>4 DEF Json!read_from, Json!NUL, ReadBy
<1>5. CASE Json!At(s, q) = "\\" /\ Json!At(s, q + 1) \notin Json!Escapes
  BY <1>1, <1>5 DEF Json!read_from, Json!NUL, ReadBy, Json!Fail, Json!Result
<1>6. CASE Json!At(s, q) \notin {"QUOTE", "\\", Json!NUL}
  BY <1>1, <1>6 DEF Json!read_from, Json!NUL, ReadBy
<1> QED
  BY <1>2, <1>3, <1>4, <1>5, <1>6

(* Nothing but a quotation mark ends a string, and a string that is refused*)
(* is null.                                                                *)
Outcome(s, q, r) ==
    /\ {"code", "next", "type", "chars"} \subseteq DOMAIN r
    /\ r.code = "OK" => /\ r.type = "STRING" /\ r.next \in q + 1 .. Len(s) + 1
                        /\ s[r.next - 1] = "QUOTE"
    /\ r.code # "OK" => r.type = "NULL"

LEMMA StringOutcome ==
    ASSUME NEW s, IsText(s), NEW p \in 1 .. Len(s), NEW f, ReadFrom(s, p, p + 1, f)
    PROVE  \A q \in p + 1 .. Len(s) + 1 : Outcome(s, q, f[q])
<1> DEFINE Good == {q \in p + 1 .. Len(s) + 1 : Outcome(s, q, f[q])}
<1>0. /\ Len(s) \in Nat /\ p \in Nat
      /\ \A i \in 1 .. Len(s) : Json!At(s, i) = s[i] /\ s[i] # Json!NUL
      /\ \A i \in Nat : i > Len(s) => Json!At(s, i) = Json!NUL
  BY AtIs DEF IsText
<1>1. ASSUME NEW q \in p + 1 .. Len(s) + 1, \A r \in q + 1 .. Len(s) + 1 : r \in Good
      PROVE  q \in Good
  <2>0. q \in Nat /\ \A r \in q + 1 .. Len(s) + 1 : Outcome(s, r, f[r])
    BY <1>0, <1>1
  <2>1. ReadBy(s, p, f, q)
    BY ReadsBy
  <2>2. CASE Json!At(s, q) = "QUOTE"
    <3>1. q \in 1 .. Len(s) /\ s[q] = "QUOTE"
      BY <1>0, <2>2 DEF Json!NUL
    <3> QED
      BY <1>0, <2>0, <2>1, <2>2, <3>1 DEF Outcome, ReadBy, Json!Result
  <2>3. CASE \/ Json!At(s, q) = Json!NUL
             \/ Json!At(s, q) = "\\" /\ Json!At(s, q + 1) \notin Json!Escapes
    <3>1. PICK code : code # "OK" /\ f[q] = Json!Fail(code, p + 1)
      BY <2>1, <2>3 DEF ReadBy
    <3>2. Outcome(s, q, f[q])
      BY <3>1 DEF Outcome, Json!Fail, Json!Result
    <3> QED
      BY <3>2
  <2>4. CASE Json!At(s, q) = "\\" /\ Json!At(s, q + 1) \in Json!Escapes
    <3>1. q + 2 \in q + 1 .. Len(s) + 1
      BY <1>0, <2>0, <2>4 DEF Json!Escapes, Json!NUL
    <3>2. Outcome(s, q + 2, f[q + 2])
      BY <2>0, <3>1
    <3>3. /\ DOMAIN f[q] = DOMAIN f[q + 2] /\ f[q].code = f[q + 2].code
          /\ f[q].type = f[q + 2].type /\ f[q].next = f[q + 2].next
      BY <2>1, <2>4, <3>2 DEF Outcome, ReadBy
    <3>4. Outcome(s, q, f[q])
      BY <1>0, <2>0, <3>2, <3>3 DEF Outcome
    <3> QED
      BY <3>4
  <2>5. CASE Json!At(s, q) \notin {"QUOTE", "\\", Json!NUL}
    <3>1. q + 1 \in q + 1 .. Len(s) + 1
      BY <1>0, <2>0, <2>5
    <3>2. Outcome(s, q + 1, f[q + 1])
      BY <2>0, <3>1
    <3>3. /\ DOMAIN f[q] = DOMAIN f[q + 1] /\ f[q].code = f[q + 1].code
          /\ f[q].type = f[q + 1].type /\ f[q].next = f[q + 1].next
      BY <2>1, <2>5, <3>2 DEF Outcome, ReadBy
    <3>4. Outcome(s, q, f[q])
      BY <1>0, <2>0, <3>2, <3>3 DEF Outcome
    <3> QED
      BY <3>4
  <2> QED
    BY <2>2, <2>3, <2>4, <2>5
<1>2. p + 1 \in Int /\ Len(s) + 1 \in Int
  BY <1>0
<1>3. \A q \in p + 1 .. Len(s) + 1 : q \in Good
  <2> HIDE DEF Good
  <2> QED
    BY <1>1, <1>2, Downward
<1> QED
  BY <1>3

(* What is written from q to e is the rest of a string, whose escaped      *)
(* characters are taken.                                                   *)
Taken(s, q, e, escapes) ==
    \A i \in q .. e - 1 :
        /\ (i \in escapes) <=> (i - 1 \notin escapes /\ i > q /\ s[i - 1] = "\\")
        /\ i \in escapes => s[i] \in Json!Escapes
        /\ i \notin escapes => s[i] # "QUOTE"
        /\ s[i] = "\\" /\ i \notin escapes => i + 1 \in escapes
RestOfString(s, q, e) ==
    q <= e /\ s[e] = "QUOTE" /\ \E escapes \in SUBSET (q .. e - 1) : Taken(s, q, e, escapes)

LEMMA RestPlain ==
    ASSUME NEW s, NEW q \in Nat, NEW e \in Nat, q < e, s[q] # "\\"
    PROVE  RestOfString(s, q, e) <=> s[q] # "QUOTE" /\ RestOfString(s, q + 1, e)
<1>1. ASSUME RestOfString(s, q, e) PROVE s[q] # "QUOTE" /\ RestOfString(s, q + 1, e)
  <2>1. PICK escapes \in SUBSET (q .. e - 1) : Taken(s, q, e, escapes)
    BY <1>1 DEF RestOfString
  <2>2. q \notin escapes /\ s[q] # "QUOTE"
    BY <2>1 DEF Taken
  <2>3. escapes \in SUBSET (q + 1 .. e - 1) /\ q + 1 <= e
    BY <2>2
  <2>4. Taken(s, q + 1, e, escapes)
    BY <2>1, <2>2 DEF Taken
  <2> QED
    BY <1>1, <2>2, <2>3, <2>4 DEF RestOfString
<1>2. ASSUME s[q] # "QUOTE", RestOfString(s, q + 1, e) PROVE RestOfString(s, q, e)
  <2>1. PICK escapes \in SUBSET (q + 1 .. e - 1) : Taken(s, q + 1, e, escapes)
    BY <1>2 DEF RestOfString
  <2>2. q \notin escapes /\ q - 1 \notin escapes /\ escapes \in SUBSET (q .. e - 1)
    OBVIOUS
  <2>3. Taken(s, q, e, escapes)
    BY <1>2, <2>1, <2>2 DEF Taken
  <2> QED
    BY <1>2, <2>2, <2>3 DEF RestOfString
<1> QED
  BY <1>1, <1>2

LEMMA RestEscaped ==
    ASSUME NEW s, NEW q \in Nat, NEW e \in Nat, q < e, s[q] = "\\"
    PROVE  RestOfString(s, q, e) <=>
             q + 2 <= e /\ s[q + 1] \in Json!Escapes /\ RestOfString(s, q + 2, e)
<1>1. ASSUME RestOfString(s, q, e)
      PROVE  q + 2 <= e /\ s[q + 1] \in Json!Escapes /\ RestOfString(s, q + 2, e)
  <2>1. PICK escapes \in SUBSET (q .. e - 1) : Taken(s, q, e, escapes)
    BY <1>1 DEF RestOfString
  <2>2. q \notin escapes /\ q + 1 \in escapes /\ q + 1 <= e - 1
    BY <2>1 DEF Taken
  <2>3. s[q + 1] \in Json!Escapes
    BY <2>1, <2>2 DEF Taken
  <2> DEFINE E == escapes \ {q + 1}
  <2>4. E \in SUBSET (q + 2 .. e - 1) /\ \A i \in Nat : i > q + 1 => (i \in E <=> i \in escapes)
    BY <2>2
  <2>5. q + 2 <= e - 1 => q + 2 \notin escapes
    BY <2>1, <2>2 DEF Taken
  <2>6. ASSUME NEW i \in q + 2 .. e - 1
        PROVE  /\ (i \in E) <=> (i - 1 \notin E /\ i > q + 2 /\ s[i - 1] = "\\")
               /\ i \in E => s[i] \in Json!Escapes
               /\ i \notin E => s[i] # "QUOTE"
               /\ s[i] = "\\" /\ i \notin E => i + 1 \in E
    <3>1. /\ (i \in escapes) <=> (i - 1 \notin escapes /\ i > q /\ s[i - 1] = "\\")
          /\ i \in escapes => s[i] \in Json!Escapes
          /\ i \notin escapes => s[i] # "QUOTE"
          /\ s[i] = "\\" /\ i \notin escapes => i + 1 \in escapes
      BY <2>1 DEF Taken
    <3>2. /\ i \in E <=> i \in escapes
          /\ i + 1 \in E <=> i + 1 \in escapes
          /\ i > q + 2 => (i - 1 \in E <=> i - 1 \in escapes)
      BY <2>4
    <3> QED
      BY <2>5, <3>1, <3>2
  <2>7. Taken(s, q + 2, e, E)
    BY <2>6 DEF Taken
  <2> QED
    BY <1>1, <2>2, <2>3, <2>4, <2>7 DEF RestOfString
<1>2. ASSUME q + 2 <= e, s[q + 1] \in Json!Escapes, RestOfString(s, q + 2, e)
      PROVE  RestOfString(s, q, e)
  <2>1. PICK escapes \in SUBSET (q + 2 .. e - 1) : Taken(s, q + 2, e, escapes)
    BY <1>2 DEF RestOfString
  <2> DEFINE E == escapes \cup {q + 1}
  <2>2. /\ E \in SUBSET (q .. e - 1) /\ \A i \in Nat : i > q + 1 => (i \in E <=> i \in escapes)
        /\ q + 1 \in E /\ q \notin E /\ q - 1 \notin E
    BY <1>2
  <2>3. ASSUME NEW i \in q .. e - 1
        PROVE  /\ (i \in E) <=> (i - 1 \notin E /\ i > q /\ s[i - 1] = "\\")
               /\ i \in E => s[i] \in Json!Escapes
               /\ i \notin E => s[i] # "QUOTE"
               /\ s[i] = "\\" /\ i \notin E => i + 1 \in E
    <3>1. CASE i = q
      BY <2>2, <3>1
    <3>2. CASE i = q + 1
      BY <1>2, <2>2, <3>2
    <3>3. CASE i > q + 1
      <4>1. /\ (i \in escapes) <=> (i - 1 \notin escapes /\ i > q + 2 /\ s[i - 1] = "\\")
            /\ i \in escapes => s[i] \in Json!Escapes
            /\ i \notin escapes => s[i] # "QUOTE"
            /\ s[i] = "\\" /\ i \notin escapes => i + 1 \in escapes
        BY <2>1, <3>3 DEF Taken
      <4>2. /\ i \in E <=> i \in escapes
            /\ i + 1 \in E <=> i + 1 \in escapes
            /\ i > q + 2 => (i - 1 \in E <=> i - 1 \in escapes)
            /\ i = q + 2 => i - 1 \in E
        BY <2>2, <3>3
      <4> QED
        BY <3>3, <4>1, <4>2
    <3> QED
      BY <3>1, <3>2, <3>3
  <2>4. Taken(s, q, e, E)
    BY <2>3 DEF Taken
  <2> QED
    BY <1>2, <2>2, <2>4 DEF RestOfString
<1> QED
  BY <1>1, <1>2

LEMMA RestQuote ==
    ASSUME NEW s, NEW q \in Nat, NEW e \in Nat, q <= e, s[q] = "QUOTE"
    PROVE  RestOfString(s, q, e) <=> e = q
<1>1. ASSUME e = q PROVE RestOfString(s, q, e)
  <2>1. Taken(s, q, e, {})
    BY <1>1 DEF Taken
  <2> QED
    BY <1>1, <2>1 DEF RestOfString
<1>2. ASSUME e # q PROVE ~RestOfString(s, q, e)
  BY <1>2, RestPlain
<1> QED
  BY <1>1, <1>2

(* A string is read to its end, if it has one, and, without escapes, as it *)
(* is written.                                                             *)
ReadTo(s, q, r) ==
    \A e \in q .. Len(s) :
        /\ (r.code = "OK" /\ r.next = e + 1) <=> RestOfString(s, q, e)
        /\ RestOfString(s, q, e) /\ (\A i \in q .. e : s[i] # "\\") =>
             r.chars = SubSeq(s, q, e - 1)

LEMMA StringEnds ==
    ASSUME NEW s, IsText(s), NEW p \in 1 .. Len(s), NEW f, ReadFrom(s, p, p + 1, f)
    PROVE  \A q \in p + 1 .. Len(s) + 1 : ReadTo(s, q, f[q])
<1> DEFINE Good == {q \in p + 1 .. Len(s) + 1 : ReadTo(s, q, f[q])}
<1>0. /\ Len(s) \in Nat /\ p \in Nat
      /\ \A i \in 1 .. Len(s) : Json!At(s, i) = s[i] /\ s[i] # Json!NUL
      /\ \A i \in Nat : i > Len(s) => Json!At(s, i) = Json!NUL
  BY AtIs DEF IsText
<1>1. ASSUME NEW q \in p + 1 .. Len(s) + 1, \A r \in q + 1 .. Len(s) + 1 : r \in Good
      PROVE  ReadTo(s, q, f[q])
  <2>0. /\ q \in Nat /\ q >= 1
        /\ \A r \in q + 1 .. Len(s) + 1 : ReadTo(s, r, f[r]) /\ Outcome(s, r, f[r])
    BY <1>0, <1>1, StringOutcome
  <2>1. ReadBy(s, p, f, q) /\ Outcome(s, q, f[q])
    BY ReadsBy, StringOutcome
  <2>2. SUFFICES ASSUME NEW e \in q .. Len(s)
        PROVE  /\ (f[q].code = "OK" /\ f[q].next = e + 1) <=> RestOfString(s, q, e)
               /\ RestOfString(s, q, e) /\ (\A i \in q .. e : s[i] # "\\") =>
                    f[q].chars = SubSeq(s, q, e - 1)
    BY DEF ReadTo
  <2>3. q \in 1 .. Len(s) /\ e \in Nat /\ q <= e /\ Json!At(s, q) = s[q] /\ s[q] # Json!NUL
    BY <1>0, <2>0
  <2>4. CASE s[q] = "QUOTE"
    <3>1. f[q].code = "OK" /\ f[q].next = q + 1 /\ f[q].chars = <<>>
      BY <2>1, <2>3, <2>4 DEF ReadBy, Json!Result
    <3>2. RestOfString(s, q, e) <=> e = q
      BY <2>0, <2>3, <2>4, RestQuote
    <3>3. SubSeq(s, q, q - 1) = <<>>
      BY <2>3
    <3> QED
      BY <2>0, <2>3, <3>1, <3>2, <3>3
  <2>5. CASE s[q] = "\\"
    <3>1. CASE Json!At(s, q + 1) \notin Json!Escapes
      <4>1. f[q].code # "OK"
        <5>1. PICK code : code # "OK" /\ f[q] = Json!Fail(code, p + 1)
          BY <2>1, <2>3, <2>5, <3>1 DEF ReadBy
        <5> QED
          BY <5>1 DEF Json!Fail, Json!Result
      <4>2. ~RestOfString(s, q, e)
        <5>1. CASE e = q
          BY <2>5, <5>1 DEF RestOfString
        <5>2. CASE q < e
          <6>1. q + 1 \in 1 .. Len(s)
            BY <1>0, <2>3, <5>2
          <6> QED
            BY <1>0, <2>0, <2>3, <2>5, <3>1, <5>2, <6>1, RestEscaped
        <5> QED
          BY <2>3, <5>1, <5>2
      <4> QED
        BY <4>1, <4>2
    <3>2. CASE Json!At(s, q + 1) \in Json!Escapes
      <4>1. q + 1 \in 1 .. Len(s) /\ s[q + 1] \in Json!Escapes
        BY <1>0, <2>3, <3>2 DEF Json!Escapes, Json!NUL
      <4>2. q + 2 \in q + 1 .. Len(s) + 1
        BY <1>0, <2>3, <4>1
      <4>3. ReadTo(s, q + 2, f[q + 2]) /\ Outcome(s, q + 2, f[q + 2])
        BY <2>0, <4>2
      <4>4. f[q].code = f[q + 2].code /\ f[q].next = f[q + 2].next
        BY <2>1, <2>3, <2>5, <3>2, <4>3 DEF ReadBy, Outcome
      <4>5. RestOfString(s, q, e) <=> q + 2 <= e /\ RestOfString(s, q + 2, e)
        <5>1. CASE e = q
          BY <2>3, <2>5, <5>1 DEF RestOfString
        <5>2. CASE q < e
          BY <2>0, <2>3, <2>5, <4>1, <5>2, RestEscaped
        <5> QED
          BY <2>3, <5>1, <5>2
      <4>6. f[q].code = "OK" /\ f[q].next = e + 1 => q + 2 <= e
        BY <1>0, <2>3, <4>3, <4>4 DEF Outcome
      <4>7. q + 2 <= e => e \in q + 2 .. Len(s)
        BY <1>0, <2>3
      <4> QED
        BY <2>3, <2>5, <4>3, <4>4, <4>5, <4>6, <4>7 DEF ReadTo
    <3> QED
      BY <3>1, <3>2
  <2>6. CASE s[q] \notin {"QUOTE", "\\"}
    <3>1. q + 1 \in q + 1 .. Len(s) + 1
      BY <1>0, <2>3
    <3>2. ReadTo(s, q + 1, f[q + 1]) /\ Outcome(s, q + 1, f[q + 1])
      BY <2>0, <3>1
    <3>3. /\ f[q].code = f[q + 1].code /\ f[q].next = f[q + 1].next
          /\ f[q].code = "OK" => f[q].chars = <<s[q]>> \o f[q + 1].chars
      BY <2>1, <2>3, <2>6, <3>2 DEF ReadBy, Outcome
    <3>4. RestOfString(s, q, e) <=> q + 1 <= e /\ RestOfString(s, q + 1, e)
      <4>1. CASE e = q
        BY <2>3, <2>6, <4>1 DEF RestOfString
      <4>2. CASE q < e
        BY <2>0, <2>3, <2>6, <4>2, RestPlain
      <4> QED
        BY <2>3, <4>1, <4>2
    <3>5. f[q].code = "OK" /\ f[q].next = e + 1 => q + 1 <= e
      BY <1>0, <2>3, <3>2, <3>3 DEF Outcome
    <3>6. q + 1 <= e => e \in q + 1 .. Len(s)
      BY <1>0, <2>3
    <3>7. (f[q].code = "OK" /\ f[q].next = e + 1) <=> RestOfString(s, q, e)
      BY <3>2, <3>3, <3>4, <3>5, <3>6 DEF ReadTo
    <3>8. ASSUME RestOfString(s, q, e), \A i \in q .. e : s[i] # "\\"
          PROVE  f[q].chars = SubSeq(s, q, e - 1)
      <4>1. f[q + 1].chars = SubSeq(s, q + 1, e - 1) /\ q <= e - 1
        BY <2>3, <3>2, <3>4, <3>6, <3>8 DEF ReadTo
      <4>2. <<s[q]>> \o SubSeq(s, q + 1, e - 1) = SubSeq(s, q, e - 1)
        BY <1>0, <2>3, <4>1, SubSeqRecursiveFirst DEF IsText
      <4> QED
        BY <3>3, <3>7, <3>8, <4>1, <4>2
    <3> QED
      BY <3>7, <3>8
  <2> QED
    BY <2>4, <2>5, <2>6
<1>2. p + 1 \in Int /\ Len(s) + 1 \in Int
  BY <1>0
<1>3. \A q \in p + 1 .. Len(s) + 1 : q \in Good
  <2>1. ASSUME NEW q \in p + 1 .. Len(s) + 1, \A r \in q + 1 .. Len(s) + 1 : r \in Good
        PROVE  q \in Good
    BY <1>1, <2>1
  <2> HIDE DEF Good
  <2> QED
    BY <1>2, <2>1, Downward
<1> QED
  BY <1>3

LEMMA StringValue ==
    ASSUME NEW s, IsText(s), NEW p \in 1 .. Len(s), s[p] = "QUOTE", NEW e \in p .. Len(s)
    PROVE  /\ Outcome(s, p + 1, Json!parse_string(s, p))
           /\ (/\ Json!parse_string(s, p).code = "OK"
               /\ Json!parse_string(s, p).next = e + 1) <=> Json!IsString(s, p, e)
           /\ Json!IsString(s, p, e) /\ (\A i \in p .. e : s[i] # "\\") =>
                Json!parse_string(s, p).chars = SubSeq(s, p + 1, e - 1)
<1>1. PICK f : ReadFrom(s, p, p + 1, f) /\ Json!parse_string(s, p) = f[p + 1]
  BY StringRead
<1>2. Len(s) \in Nat /\ p + 1 \in p + 1 .. Len(s) + 1
  BY AtIs
<1>3. Outcome(s, p + 1, f[p + 1]) /\ ReadTo(s, p + 1, f[p + 1])
  BY <1>1, <1>2, StringOutcome, StringEnds
<1>4. Json!IsString(s, p, e) <=> e \in p + 1 .. Len(s) /\ RestOfString(s, p + 1, e)
  <2>1. p < e <=> e \in p + 1 .. Len(s)
    BY <1>2
  <2>2. p < e <=> p + 1 <= e
    BY <1>2
  <2> QED
    BY Zenon, <2>1, <2>2 DEF Json!IsString, RestOfString, Taken
<1>5. f[p + 1].code = "OK" /\ f[p + 1].next = e + 1 => e \in p + 1 .. Len(s)
  BY <1>2, <1>3 DEF Outcome
<1>6. (f[p + 1].code = "OK" /\ f[p + 1].next = e + 1) <=> Json!IsString(s, p, e)
  BY <1>3, <1>4, <1>5 DEF ReadTo
<1>7. Json!IsString(s, p, e) /\ (\A i \in p .. e : s[i] # "\\") =>
        f[p + 1].chars = SubSeq(s, p + 1, e - 1)
  BY <1>2, <1>3, <1>4 DEF ReadTo
<1> QED
  BY <1>1, <1>3, <1>6, <1>7

-----------------------------------------------------------------------------
(* Numbers: each part ends where its grammar says that it ends.            *)
LEMMA DigitsEnd ==
    ASSUME NEW s, IsText(s), NEW p \in 1 .. Len(s) + 1
    PROVE  /\ Json!digits(s, p) # 0 =>
                /\ Json!digits(s, p) \in p + 1 .. Len(s) + 1
                /\ Json!IsDigits(s, p, Json!digits(s, p) - 1)
           /\ \A e \in p .. Len(s) :
                Json!IsDigits(s, p, e) /\ Json!At(s, e + 1) \notin Json!Digits =>
                   Json!digits(s, p) = e + 1
<1>0. /\ Len(s) \in Nat /\ p \in Nat /\ p >= 1 /\ Json!NUL \notin Json!Digits
      /\ \A i \in 1 .. Len(s) : Json!At(s, i) = s[i]
      /\ \A i \in Nat : i > Len(s) => Json!At(s, i) = Json!NUL
  BY AtIs DEF Json!NUL, Json!Digits
<1>1. PICK a \in p .. Len(s) + 1 :
        /\ a = Json!After(s, p, Json!Digits) /\ Json!At(s, a) \notin Json!Digits
        /\ \A i \in p .. a - 1 : Json!At(s, i) \in Json!Digits
  BY <1>0, AfterIs
<1>2. ASSUME Json!digits(s, p) # 0
      PROVE  /\ Json!digits(s, p) \in p + 1 .. Len(s) + 1
             /\ Json!IsDigits(s, p, Json!digits(s, p) - 1)
  <2>1. Json!At(s, p) \in Json!Digits /\ Json!digits(s, p) = a
    BY <1>1, <1>2 DEF Json!digits
  <2>2. a # p
    BY <1>1, <2>1
  <2>3. \A i \in p .. a - 1 : s[i] \in Json!Digits
    BY <1>0, <1>1
  <2> QED
    BY <1>0, <2>1, <2>2, <2>3 DEF Json!IsDigits
<1>3. ASSUME NEW e \in p .. Len(s), Json!IsDigits(s, p, e), Json!At(s, e + 1) \notin Json!Digits
      PROVE  Json!digits(s, p) = e + 1
  <2>1. /\ p <= e /\ \A i \in p .. e : Json!At(s, i) \in Json!Digits
        /\ e + 1 \in p .. Len(s) + 1 /\ (e + 1) - 1 = e
    BY <1>0, <1>3 DEF Json!IsDigits
  <2>2. a = e + 1
    <3>1. a \notin p .. e
      BY <1>1, <2>1
    <3>2. e + 1 \notin p .. a - 1
      BY <1>1, <1>3
    <3> QED
      BY <1>0, <1>1, <2>1, <3>1, <3>2
  <2> QED
    BY <1>0, <1>1, <2>1, <2>2 DEF Json!digits
<1> QED
  BY <1>2, <1>3

LEMMA IntegerEnds ==
    ASSUME NEW s, IsText(s), NEW p \in 1 .. Len(s) + 1
    PROVE  /\ Json!integer(s, p) # 0 =>
                /\ Json!integer(s, p) \in p + 1 .. Len(s) + 1
                /\ s[Json!integer(s, p) - 1] \in Json!Digits
                /\ Json!IsInteger(s, p, Json!integer(s, p) - 1)
           /\ \A j \in p + 1 .. Len(s) + 1 :
                Json!IsInteger(s, p, j - 1) /\ Json!At(s, j) \notin Json!Digits =>
                   Json!integer(s, p) = j
<1>0. /\ Len(s) \in Nat /\ p \in Nat /\ p >= 1 /\ "0" \in Json!Digits
      /\ \A i \in 1 .. Len(s) : Json!At(s, i) = s[i] /\ s[i] # Json!NUL
      /\ \A i \in Nat : i > Len(s) => Json!At(s, i) = Json!NUL
  BY AtIs DEF Json!Digits
<1>1. CASE Json!At(s, p) = "0"
  <2>1. p \in 1 .. Len(s) /\ s[p] = "0"
    BY <1>0, <1>1 DEF Json!NUL
  <2>2. ASSUME NEW j \in p + 1 .. Len(s) + 1, Json!IsInteger(s, p, j - 1) PROVE j = p + 1
    BY <2>1, <2>2 DEF Json!IsInteger
  <2> QED
    BY <1>0, <1>1, <2>1, <2>2 DEF Json!integer, Json!IsInteger
<1>2. CASE Json!At(s, p) # "0"
  <2>1. Json!integer(s, p) = Json!digits(s, p)
    BY <1>2 DEF Json!integer
  <2>2. p <= Len(s) => s[p] # "0"
    BY <1>0, <1>2
  <2>3. ASSUME Json!digits(s, p) # 0
        PROVE  /\ Json!digits(s, p) \in p + 1 .. Len(s) + 1
               /\ s[Json!digits(s, p) - 1] \in Json!Digits
               /\ Json!IsInteger(s, p, Json!digits(s, p) - 1)
    <3>1. PICK d \in p + 1 .. Len(s) + 1 : d = Json!digits(s, p) /\ Json!IsDigits(s, p, d - 1)
      BY <2>3, DigitsEnd
    <3> QED
      BY <1>0, <2>2, <3>1 DEF Json!IsDigits, Json!IsInteger
  <2>4. ASSUME NEW j \in p + 1 .. Len(s) + 1, Json!IsInteger(s, p, j - 1),
               Json!At(s, j) \notin Json!Digits
        PROVE  Json!digits(s, p) = j
    <3>1. j - 1 \in p .. Len(s) /\ (j - 1) + 1 = j /\ p <= Len(s)
      BY <1>0
    <3>2. Json!IsDigits(s, p, j - 1)
      BY <2>2, <2>4, <3>1 DEF Json!IsInteger
    <3> QED
      BY <2>4, <3>1, <3>2, DigitsEnd
  <2> QED
    BY <2>1, <2>3, <2>4
<1> QED
  BY <1>1, <1>2

LEMMA FractionEnds ==
    ASSUME NEW s, IsText(s), NEW j \in 1 .. Len(s) + 1
    PROVE  /\ Json!fraction(s, j) # 0 /\ Json!fraction(s, j) # j =>
                /\ Json!fraction(s, j) \in j + 1 .. Len(s) + 1
                /\ s[Json!fraction(s, j) - 1] \in Json!Digits /\ s[j] = "."
                /\ Json!IsDigits(s, j + 1, Json!fraction(s, j) - 1)
           /\ Json!At(s, j) # "." => Json!fraction(s, j) = j
           /\ \A k \in j + 1 .. Len(s) + 1 :
                /\ s[j] = "." /\ Json!IsDigits(s, j + 1, k - 1)
                /\ Json!At(s, k) \notin Json!Digits
                => Json!fraction(s, j) = k
<1>0. /\ Len(s) \in Nat /\ j \in Nat /\ j >= 1 /\ j # 0
      /\ \A i \in 1 .. Len(s) : Json!At(s, i) = s[i] /\ s[i] # Json!NUL
      /\ \A i \in Nat : i > Len(s) => Json!At(s, i) = Json!NUL
  BY AtIs
<1>1. CASE Json!At(s, j) = "."
  <2>1. j \in 1 .. Len(s) /\ s[j] = "." /\ j + 1 \in 1 .. Len(s) + 1
    BY <1>0, <1>1 DEF Json!NUL
  <2>2. Json!fraction(s, j) = Json!digits(s, j + 1)
    BY <1>0, <1>1 DEF Json!fraction
  <2>3. ASSUME Json!digits(s, j + 1) # 0
        PROVE  /\ Json!digits(s, j + 1) \in j + 1 .. Len(s) + 1
               /\ s[Json!digits(s, j + 1) - 1] \in Json!Digits
               /\ Json!IsDigits(s, j + 1, Json!digits(s, j + 1) - 1)
    <3>1. PICK d \in j + 2 .. Len(s) + 1 :
            d = Json!digits(s, j + 1) /\ Json!IsDigits(s, j + 1, d - 1)
      BY <2>1, <2>3, DigitsEnd
    <3> QED
      BY <1>0, <3>1 DEF Json!IsDigits
  <2>4. ASSUME NEW k \in j + 1 .. Len(s) + 1, Json!IsDigits(s, j + 1, k - 1),
               Json!At(s, k) \notin Json!Digits
        PROVE  Json!digits(s, j + 1) = k
    <3>1. k - 1 \in j + 1 .. Len(s) /\ (k - 1) + 1 = k
      BY <1>0, <2>4 DEF Json!IsDigits
    <3> QED
      BY <2>1, <2>4, <3>1, DigitsEnd
  <2> QED
    BY <1>1, <2>1, <2>2, <2>3, <2>4
<1>2. CASE Json!At(s, j) # "."
  <2>1. Json!fraction(s, j) = j
    BY <1>2 DEF Json!fraction
  <2>2. \A k \in j + 1 .. Len(s) + 1 : s[j] # "."
    BY <1>0, <1>2
  <2> QED
    BY <2>1, <2>2
<1> QED
  BY <1>1, <1>2

LEMMA ExponentEnds ==
    ASSUME NEW s, IsText(s), NEW k \in 1 .. Len(s) + 1
    PROVE  /\ Json!exponent(s, k) # 0 /\ Json!exponent(s, k) # k =>
                /\ Json!exponent(s, k) \in k + 1 .. Len(s) + 1
                /\ s[Json!exponent(s, k) - 1] \in Json!Digits
                /\ Json!IsExponent(s, k, Json!exponent(s, k) - 1)
           /\ Json!At(s, k) \notin {"e", "E"} => Json!exponent(s, k) = k
           /\ \A e \in k .. Len(s) :
                Json!IsExponent(s, k, e) /\ Json!At(s, e + 1) \notin Json!Digits =>
                   Json!exponent(s, k) = e + 1
<1>0. /\ Len(s) \in Nat /\ k \in Nat /\ k >= 1 /\ k # 0
      /\ \A i \in 1 .. Len(s) : Json!At(s, i) = s[i] /\ s[i] # Json!NUL
      /\ \A i \in Nat : i > Len(s) => Json!At(s, i) = Json!NUL
  BY AtIs
<1>1. CASE Json!At(s, k) \in {"e", "E"}
  <2> DEFINE d == IF Json!At(s, k + 1) \in {"+", "-"} THEN k + 2 ELSE k + 1
  <2>1. k \in 1 .. Len(s) /\ s[k] \in {"e", "E"} /\ d \in k + 1 .. Len(s) + 1
    BY <1>0, <1>1 DEF Json!NUL
  <2>2. d \in 1 .. Len(s) + 1 /\ Json!exponent(s, k) = Json!digits(s, d)
    BY <1>0, <1>1, <2>1 DEF Json!exponent
  <2>3. k + 1 <= Len(s) => d = IF s[k + 1] \in {"+", "-"} THEN k + 2 ELSE k + 1
    BY <1>0
  <2> HIDE DEF d
  <2>4. ASSUME Json!digits(s, d) # 0
        PROVE  /\ Json!digits(s, d) \in k + 1 .. Len(s) + 1
               /\ s[Json!digits(s, d) - 1] \in Json!Digits
               /\ Json!IsExponent(s, k, Json!digits(s, d) - 1)
    <3>1. PICK c \in d + 1 .. Len(s) + 1 : c = Json!digits(s, d) /\ Json!IsDigits(s, d, c - 1)
      BY <2>2, <2>4, DigitsEnd
    <3>2. s[c - 1] \in Json!Digits /\ k < c - 1 /\ k + 1 <= Len(s)
      BY <1>0, <2>1, <3>1 DEF Json!IsDigits
    <3> QED
      BY <1>0, <2>1, <2>3, <3>1, <3>2 DEF Json!IsExponent
  <2>5. ASSUME NEW e \in k .. Len(s), Json!IsExponent(s, k, e),
               Json!At(s, e + 1) \notin Json!Digits
        PROVE  Json!digits(s, d) = e + 1
    <3>1. k + 1 <= Len(s) /\ Json!IsDigits(s, d, e)
      BY <1>0, <2>3, <2>5 DEF Json!IsExponent
    <3>2. e \in d .. Len(s)
      BY <1>0, <2>1, <3>1 DEF Json!IsDigits
    <3> QED
      BY <2>2, <2>5, <3>1, <3>2, DigitsEnd
  <2> QED
    BY <1>1, <2>2, <2>4, <2>5
<1>2. CASE Json!At(s, k) \notin {"e", "E"}
  <2>1. Json!exponent(s, k) = k
    BY <1>2 DEF Json!exponent
  <2>2. \A e \in k .. Len(s) : ~Json!IsExponent(s, k, e)
    BY <1>0, <1>2 DEF Json!IsExponent
  <2> QED
    BY <1>2, <2>1, <2>2
<1> QED
  BY <1>1, <1>2

(* The three parts of a number, one behind the other.                      *)
Scanned(s, p) == Json!exponent(s, Json!fraction(s, Json!integer(s, p)))

LEMMA ScannedParts ==
    ASSUME NEW s, IsText(s), NEW p \in 1 .. Len(s) + 1, Scanned(s, p) # 0
    PROVE  \E j, k, n \in p + 1 .. Len(s) + 1 :
             /\ n = Scanned(s, p) /\ s[n - 1] \in Json!Digits /\ j <= k /\ k <= n
             /\ Json!IsInteger(s, p, j - 1)
             /\ j = k \/ (j < k /\ s[j] = "." /\ Json!IsDigits(s, j + 1, k - 1))
             /\ k = n \/ Json!IsExponent(s, k, n - 1)
<1>0. Len(s) \in Nat
  BY AtIs
<1>1. Json!fraction(s, Json!integer(s, p)) # 0
  BY DEF Scanned, Json!exponent
<1>2. Json!integer(s, p) # 0
  BY <1>1 DEF Json!fraction
<1>3. PICK j \in p + 1 .. Len(s) + 1 :
        j = Json!integer(s, p) /\ s[j - 1] \in Json!Digits /\ Json!IsInteger(s, p, j - 1)
  BY <1>2, IntegerEnds
<1>4. j \in 1 .. Len(s) + 1
  BY <1>0
<1>5. PICK k \in j .. Len(s) + 1 :
        /\ k = Json!fraction(s, j) /\ s[k - 1] \in Json!Digits
        /\ j = k \/ (j < k /\ s[j] = "." /\ Json!IsDigits(s, j + 1, k - 1))
  <2>1. CASE Json!fraction(s, j) = j
    BY <1>0, <1>3, <2>1
  <2>2. CASE Json!fraction(s, j) # j
    <3>1. /\ Json!fraction(s, j) \in j + 1 .. Len(s) + 1
          /\ s[Json!fraction(s, j) - 1] \in Json!Digits /\ s[j] = "."
          /\ Json!IsDigits(s, j + 1, Json!fraction(s, j) - 1)
      BY <1>1, <1>3, <1>4, <2>2, FractionEnds
    <3>2. PICK k \in j .. Len(s) + 1 : k = Json!fraction(s, j) /\ j < k
      BY <1>0, <1>4, <3>1
    <3> QED
      BY <3>1, <3>2
  <2> QED
    BY <2>1, <2>2
<1>6. k \in 1 .. Len(s) + 1 /\ k \in p + 1 .. Len(s) + 1
  BY <1>0
<1>7. PICK n \in k .. Len(s) + 1 :
        /\ n = Json!exponent(s, k) /\ s[n - 1] \in Json!Digits
        /\ k = n \/ Json!IsExponent(s, k, n - 1)
  <2>1. CASE Json!exponent(s, k) = k
    BY <1>0, <1>5, <2>1
  <2>2. CASE Json!exponent(s, k) # k
    <3>1. Json!exponent(s, k) # 0
      BY <1>3, <1>5 DEF Scanned
    <3> QED
      BY <1>0, <1>6, <2>2, <3>1, ExponentEnds
  <2> QED
    BY <2>1, <2>2
<1>8. n \in p + 1 .. Len(s) + 1 /\ j <= k /\ k <= n /\ n = Scanned(s, p)
  BY <1>0, <1>3, <1>5, <1>6, <1>7 DEF Scanned
<1> QED
  BY <1>3, <1>5, <1>6, <1>7, <1>8

LEMMA PartsScanned ==
    ASSUME NEW s, IsText(s), NEW p \in 1 .. Len(s), NEW e \in p .. Len(s),
           Json!At(s, e + 1) \notin Json!Digits \cup {".", "e", "E"},
           NEW j \in p .. e + 1, NEW k \in p .. e + 1,
           Json!IsInteger(s, p, j - 1),
           j = k \/ (j < k /\ s[j] = "." /\ Json!IsDigits(s, j + 1, k - 1)),
           k = e + 1 \/ Json!IsExponent(s, k, e)
    PROVE  Scanned(s, p) = e + 1
<1>0. /\ Len(s) \in Nat /\ p \in 1 .. Len(s) + 1 /\ j \in Nat /\ k \in Nat
      /\ \A i \in 1 .. Len(s) : Json!At(s, i) = s[i]
      /\ "e" \notin Json!Digits \cup {"."} /\ "E" \notin Json!Digits \cup {"."}
      /\ "." \notin Json!Digits
  BY AtIs DEF Json!Digits
<1>1. Json!At(s, k) \notin Json!Digits \cup {"."}
  <2>1. CASE k = e + 1
    BY <2>1
  <2>2. CASE Json!IsExponent(s, k, e)
    <3>1. k \in 1 .. Len(s) /\ s[k] \in {"e", "E"}
      BY <1>0, <2>2 DEF Json!IsExponent
    <3> QED
      BY <1>0, <3>1
  <2> QED
    BY <2>1, <2>2
<1>2. Json!At(s, j) \notin Json!Digits
  <2>1. CASE j = k
    BY <1>1, <2>1
  <2>2. CASE j < k /\ s[j] = "."
    <3>1. j \in 1 .. Len(s)
      BY <1>0, <2>2
    <3> QED
      BY <1>0, <2>2, <3>1
  <2> QED
    BY <2>1, <2>2
<1>3. j \in p + 1 .. Len(s) + 1
  BY <1>0 DEF Json!IsInteger, Json!IsDigits
<1>4. Json!integer(s, p) = j
  BY <1>0, <1>2, <1>3, IntegerEnds
<1>5. j \in 1 .. Len(s) + 1 /\ k \in 1 .. Len(s) + 1 /\ (j < k => k \in j + 1 .. Len(s) + 1)
  BY <1>0, <1>3
<1>6. Json!fraction(s, j) = k
  <2>1. CASE j = k
    BY <1>1, <1>5, <2>1, FractionEnds
  <2>2. CASE j < k /\ s[j] = "." /\ Json!IsDigits(s, j + 1, k - 1)
    BY <1>1, <1>5, <2>2, FractionEnds
  <2> QED
    BY <2>1, <2>2
<1>7. Json!exponent(s, k) = e + 1
  <2>1. CASE k = e + 1
    BY <1>5, <2>1, ExponentEnds
  <2>2. CASE Json!IsExponent(s, k, e)
    <3>1. e \in k .. Len(s)
      BY <1>0, <2>2 DEF Json!IsExponent
    <3> QED
      BY <1>5, <2>2, <3>1, ExponentEnds
  <2> QED
    BY <2>1, <2>2
<1> QED
  BY <1>4, <1>6, <1>7 DEF Scanned

LEMMA FirstOfNumber ==
    ASSUME NEW s, NEW p \in Nat, NEW e \in Nat, p <= e, Json!IsNumber(s, p, e)
    PROVE  s[p] \in Json!Digits \cup {"-"}
BY DEF Json!IsNumber, Json!IsInteger, Json!IsDigits, Json!Digits

LEMMA NumberValue ==
    ASSUME NEW s, IsText(s), NEW p \in 1 .. Len(s), NEW e \in p .. Len(s),
           Json!At(s, e + 1) \notin Json!Digits \cup {".", "e", "E"}
    PROVE  LET r == Json!parse_number(s, p)
           IN  /\ r.code = "OK" => /\ r.type = "NUMBER" /\ r.next \in p + 1 .. Len(s) + 1
                                   /\ s[r.next - 1] \in Json!Digits
               /\ r.code # "OK" => r.type = "NULL"
               /\ (r.code = "OK" /\ r.next = e + 1)
                    <=> Json!IsNumber(s, p, e) /\ ~Json!TooBig(SubSeq(s, p, e))
<1> DEFINE start == IF Json!At(s, p) = "-" THEN p + 1 ELSE p
           n == Scanned(s, start)
           r == Json!parse_number(s, p)
<1>0. /\ Len(s) \in Nat /\ p \in Nat /\ Json!At(s, p) = s[p] /\ start \in 1 .. Len(s) + 1
      /\ start \in {p, p + 1} /\ "-" \notin Json!Digits
      /\ \A i \in 1 .. Len(s) : Json!At(s, i) = s[i] /\ s[i] # Json!NUL
  BY AtIs DEF Json!Digits
<1>1. r = IF n = 0 THEN Json!Fail("INVALID_VALUE", p)
          ELSE IF Json!TooBig(SubSeq(s, p, n - 1)) THEN Json!Fail("NUMBER_TOO_BIG", p)
          ELSE Json!Result("OK", n, "NUMBER", <<>>)
  BY DEF Json!parse_number, Scanned
<1>2. r.code = "OK" => n # 0 /\ r.next = n /\ r.type = "NUMBER" /\ ~Json!TooBig(SubSeq(s, p, n - 1))
  BY <1>1 DEF Json!Fail, Json!Result
<1>3. r.code # "OK" => r.type = "NULL" /\ (n = 0 \/ Json!TooBig(SubSeq(s, p, n - 1)))
  BY <1>1 DEF Json!Fail, Json!Result
<1>4. n # 0 => n \in p + 1 .. Len(s) + 1 /\ s[n - 1] \in Json!Digits /\ Json!IsNumber(s, p, n - 1)
  <2> SUFFICES ASSUME n # 0
               PROVE  /\ n \in p + 1 .. Len(s) + 1 /\ s[n - 1] \in Json!Digits
                      /\ Json!IsNumber(s, p, n - 1)
    OBVIOUS
  <2> HIDE DEF start
  <2>1. PICK j, k, m \in start + 1 .. Len(s) + 1 :
             /\ m = n /\ s[m - 1] \in Json!Digits /\ j <= k /\ k <= m
             /\ Json!IsInteger(s, start, j - 1)
             /\ j = k \/ (j < k /\ s[j] = "." /\ Json!IsDigits(s, j + 1, k - 1))
             /\ k = m \/ Json!IsExponent(s, k, m - 1)
    BY <1>0, ScannedParts
  <2>2. m \in p + 1 .. Len(s) + 1 /\ (m - 1) + 1 = m
    BY <1>0
  <2>3. start \in p .. m - 1 /\ j \in p .. m /\ k \in p .. m
    BY <1>0, <2>1
  <2>4. start = p \/ (start = p + 1 /\ s[p] = "-")
    BY <1>0 DEF start
  <2>5. Json!IsNumber(s, p, m - 1)
    BY <2>1, <2>2, <2>3, <2>4 DEF Json!IsNumber
  <2> QED
    BY <2>1, <2>2, <2>5
<1>5. Json!IsNumber(s, p, e) => n = e + 1
  <2> SUFFICES ASSUME Json!IsNumber(s, p, e) PROVE n = e + 1
    OBVIOUS
  <2>1. PICK i \in p .. e, j \in p .. e + 1, k \in p .. e + 1 :
          /\ i = p \/ (i = p + 1 /\ s[p] = "-")
          /\ Json!IsInteger(s, i, j - 1)
          /\ j = k \/ (j < k /\ s[j] = "." /\ Json!IsDigits(s, j + 1, k - 1))
          /\ k = e + 1 \/ Json!IsExponent(s, k, e)
    BY DEF Json!IsNumber
  <2>2. i = p => s[p] # "-"
    BY <1>0, <2>1 DEF Json!IsInteger, Json!IsDigits, Json!Digits
  <2>3. i = start
    BY <1>0, <2>1, <2>2
  <2>4. start \in 1 .. Len(s) /\ e \in start .. Len(s)
    BY <1>0, <2>3
  <2>5. j \in start .. e + 1 /\ k \in start .. e + 1
    BY <1>0, <2>1, <2>3 DEF Json!IsInteger, Json!IsDigits
  <2> HIDE DEF start
  <2> QED
    BY <2>1, <2>3, <2>4, <2>5, PartsScanned
<1> HIDE DEF n, r
<1>6. (r.code = "OK" /\ r.next = e + 1)
        <=> Json!IsNumber(s, p, e) /\ ~Json!TooBig(SubSeq(s, p, e))
  <2>1. n = e + 1 => n - 1 = e
    BY <1>0
  <2>2. e + 1 # 0
    BY <1>0
  <2> QED
    BY <1>2, <1>3, <1>4, <1>5, <2>1, <2>2
<1> QED
  BY <1>2, <1>3, <1>4, <1>6 DEF r

-----------------------------------------------------------------------------
Letters == {"n", "u", "l", "t", "r", "e", "f", "a", "s"}
NullWord == <<"n", "u", "l", "l">>
TrueWord == <<"t", "r", "u", "e">>
FalseWord == <<"f", "a", "l", "s", "e">>

(* A literal is read to where its letters end.                             *)
LiteralRead(s, p, e, literal, type, r) ==
    /\ r.code = "OK" => /\ r.type = type /\ r.next \in p + 1 .. Len(s) + 1
                        /\ s[r.next - 1] \notin Json!Space
    /\ r.code # "OK" => r.type = "NULL"
    /\ (r.code = "OK" /\ r.next = e + 1) <=> SubSeq(s, p, e) = literal

LEMMA LiteralValue ==
    ASSUME NEW s, IsText(s), NEW p \in 1 .. Len(s), NEW e \in p .. Len(s),
           NEW literal \in Seq(Letters), Len(literal) > 1, NEW type,
           \A i \in 1 .. Len(literal) : literal[i] \notin Json!Space \cup {Json!NUL}
    PROVE  LiteralRead(s, p, e, literal, type, Json!parse_literal(s, p, literal, type))
<1> DEFINE r == Json!parse_literal(s, p, literal, type)
           n == Len(literal)
           Same == \A i \in 1 .. n : Json!At(s, p + i - 1) = literal[i]
<1>0. /\ Len(s) \in Nat /\ p \in Nat /\ n \in Nat /\ n > 1
      /\ \A i \in 1 .. Len(s) : Json!At(s, i) = s[i] /\ s[i] # Json!NUL
      /\ \A i \in Nat : i > Len(s) => Json!At(s, i) = Json!NUL
  BY AtIs
<1>1. /\ Same => r = Json!Result("OK", p + n, type, <<>>)
      /\ ~Same => r = Json!Fail("INVALID_VALUE", p + 1)
  BY DEF Json!parse_literal
<1>2. (r.code = "OK" <=> Same) /\ (Same => r.next = p + n /\ r.type = type)
      /\ (~Same => r.type = "NULL")
  BY <1>1 DEF Json!Result, Json!Fail
<1>3. ASSUME Same PROVE p + n - 1 <= Len(s) /\ s[p + n - 1] = literal[n]
  <2>1. n \in 1 .. n
    BY <1>0
  <2>2. Json!At(s, p + n - 1) = literal[n] /\ literal[n] # Json!NUL
    BY <1>3, <2>1
  <2> QED
    BY <1>0, <2>2
<1>4. ASSUME Same, p + n = e + 1 PROVE SubSeq(s, p, e) = literal
  <2> DEFINE C == STRING \cup Letters
  <2>0. s \in Seq(C) /\ literal \in Seq(C)
    BY DEF IsText
  <2>1. SubSeq(s, p, e) \in Seq(C) /\ Len(SubSeq(s, p, e)) = n
    <3> HIDE DEF C
    <3> QED
      BY <1>0, <1>4, <2>0
  <2>2. ASSUME NEW i \in 1 .. n PROVE SubSeq(s, p, e)[i] = literal[i]
    <3>1. SubSeq(s, p, e)[i] = s[p + i - 1] /\ p + i - 1 \in 1 .. Len(s)
      BY <1>0, <1>4 DEF IsText
    <3> QED
      BY <1>0, <1>4, <3>1
  <2> HIDE DEF C
  <2> QED
    BY <2>0, <2>1, <2>2, SeqEqual
<1>5. ASSUME SubSeq(s, p, e) = literal PROVE Same /\ p + n = e + 1
  <2>0. Len(SubSeq(s, p, e)) = e - p + 1
    BY DEF IsText
  <2>1. n = e - p + 1
    BY Zenon, <1>5, <2>0
  <2>2. ASSUME NEW i \in 1 .. n PROVE Json!At(s, p + i - 1) = literal[i]
    <3>1. SubSeq(s, p, e)[i] = s[p + i - 1] /\ p + i - 1 \in 1 .. Len(s)
      BY <1>0, <2>1 DEF IsText
    <3> QED
      BY <1>0, <1>5, <3>1
  <2> QED
    BY <1>0, <2>1, <2>2
<1>6. Same => /\ p + n \in p + 1 .. Len(s) + 1 /\ s[(p + n) - 1] \notin Json!Space
  BY <1>0, <1>3
<1> HIDE DEF r, Same
<1>7. (r.code = "OK" /\ r.next = e + 1) <=> SubSeq(s, p, e) = literal
  BY <1>2, <1>4, <1>5
<1> QED
  BY <1>2, <1>6, <1>7 DEF r, LiteralRead

LEMMA Literals ==
    /\ \A literal \in {NullWord, TrueWord, FalseWord} :
          /\ literal \in Seq(Letters) /\ Len(literal) > 1
          /\ \A i \in 1 .. Len(literal) : literal[i] \notin Json!Space \cup {Json!NUL}
    /\ NullWord[1] = "n" /\ TrueWord[1] = "t" /\ FalseWord[1] = "f"
<1>1. NullWord \in Seq(Letters) /\ Len(NullWord) = 4 /\ Len(NullWord) > 1
  BY DEF NullWord, Letters
<1>2. TrueWord \in Seq(Letters) /\ Len(TrueWord) = 4 /\ Len(TrueWord) > 1
  BY DEF TrueWord, Letters
<1>3. FalseWord \in Seq(Letters) /\ Len(FalseWord) = 5 /\ Len(FalseWord) > 1
  BY DEF FalseWord, Letters
<1>4. \A i \in 1 .. Len(NullWord) : NullWord[i] \notin Json!Space \cup {Json!NUL}
  BY <1>1 DEF NullWord, Json!Space, Json!NUL
<1>5. \A i \in 1 .. Len(TrueWord) : TrueWord[i] \notin Json!Space \cup {Json!NUL}
  BY <1>2 DEF TrueWord, Json!Space, Json!NUL
<1>6. \A i \in 1 .. Len(FalseWord) : FalseWord[i] \notin Json!Space \cup {Json!NUL}
  BY <1>3 DEF FalseWord, Json!Space, Json!NUL
<1>7. NullWord[1] = "n" /\ TrueWord[1] = "t" /\ FalseWord[1] = "f"
  BY DEF NullWord, TrueWord, FalseWord
<1>8. ASSUME NEW literal \in {NullWord, TrueWord, FalseWord}
      PROVE  /\ literal \in Seq(Letters) /\ Len(literal) > 1
             /\ \A i \in 1 .. Len(literal) : literal[i] \notin Json!Space \cup {Json!NUL}
  <2>1. CASE literal = NullWord
    BY Zenon, <1>1, <1>4, <2>1
  <2>2. CASE literal = TrueWord
    BY Zenon, <1>2, <1>5, <2>2
  <2>3. CASE literal = FalseWord
    BY Zenon, <1>3, <1>6, <2>3
  <2> QED
    BY <2>1, <2>2, <2>3
<1> QED
  BY <1>7, <1>8

(* What parse_value and the grammar say of a value: they agree.            *)
Agrees(s, p, e, r) ==
    /\ r.code = "OK" => r.next \in p + 1 .. Len(s) + 1 /\ s[r.next - 1] \notin Json!Space
    /\ r.code # "OK" => r.type = "NULL"
    /\ IF r.code = "OK" /\ r.next = e + 1 THEN r.type = Json!TypeOf(s, p, e)
       ELSE Json!TypeOf(s, p, e) = "none"
    /\ r.code = "OK" => r.type \in {"NULL", "TRUE", "FALSE", "NUMBER", "STRING"}
    /\ r.code = "OK" /\ r.type = "STRING" => s[p] = "QUOTE"
    /\ Json!TypeOf(s, p, e) = "STRING" /\ (\A i \in p .. e : s[i] # "\\") =>
         r.chars = SubSeq(s, p + 1, e - 1)

LEMMA ValueAgrees ==
    ASSUME NEW s, IsText(s), NEW p \in 1 .. Len(s), s[p] \notin Json!Space,
           NEW e \in p .. Len(s), Json!At(s, e + 1) \in Json!Space \cup {Json!NUL}
    PROVE  Agrees(s, p, e, Json!parse_value(s, p))
<1> DEFINE word == SubSeq(s, p, e)
           r == Json!parse_value(s, p)
<1>0. /\ Len(s) \in Nat /\ p \in Nat /\ e \in Nat /\ p <= e
      /\ Json!At(s, p) = s[p] /\ s[p] # Json!NUL /\ word[1] = s[p]
      /\ NullWord[1] = "n" /\ TrueWord[1] = "t" /\ FalseWord[1] = "f"
  BY AtIs, Literals DEF IsText
<1>1. Json!At(s, e + 1) \notin Json!Digits \cup {".", "e", "E"}
  BY DEF Json!Digits, Json!Space, Json!NUL
<1>2. /\ s[p] # "n" => word # NullWord
      /\ s[p] # "t" => word # TrueWord
      /\ s[p] # "f" => word # FalseWord
  BY <1>0
<1>3. Json!IsNumber(s, p, e) => s[p] \in Json!Digits \cup {"-"}
  BY <1>0, FirstOfNumber
<1>4. Json!IsString(s, p, e) => s[p] = "QUOTE"
  BY DEF Json!IsString
<1>5. /\ word = NullWord => Json!TypeOf(s, p, e) = "NULL"
      /\ word = TrueWord => Json!TypeOf(s, p, e) = "TRUE"
      /\ word = FalseWord => Json!TypeOf(s, p, e) = "FALSE"
  BY <1>0, <1>3, <1>4 DEF Json!TypeOf, NullWord, TrueWord, FalseWord, Json!Digits
<1>6. word \notin {NullWord, TrueWord, FalseWord} =>
        Json!TypeOf(s, p, e) = IF Json!IsNumber(s, p, e) /\ ~Json!TooBig(word) THEN "NUMBER"
                               ELSE IF Json!IsString(s, p, e) THEN "STRING" ELSE "none"
  BY <1>3, <1>4 DEF Json!TypeOf, NullWord, TrueWord, FalseWord, Json!Digits
<1> HIDE DEF word, r
<1>7. CASE s[p] = "n"
  <2>1. r = Json!parse_literal(s, p, NullWord, "NULL")
    BY <1>0, <1>7 DEF r, Json!parse_value, NullWord, Json!NUL
  <2>2. /\ r.code = "OK" => /\ r.type = "NULL" /\ r.next \in p + 1 .. Len(s) + 1
                            /\ s[r.next - 1] \notin Json!Space
        /\ r.code # "OK" => r.type = "NULL"
        /\ (r.code = "OK" /\ r.next = e + 1) <=> word = NullWord
    <3>1. /\ NullWord \in Seq(Letters) /\ Len(NullWord) > 1
          /\ \A i \in 1 .. Len(NullWord) : NullWord[i] \notin Json!Space \cup {Json!NUL}
      BY Literals
    <3>2. LiteralRead(s, p, e, NullWord, "NULL", r)
      BY Zenon, <2>1, <3>1, LiteralValue
    <3> QED
      BY Zenon, <3>2 DEF LiteralRead, word
  <2>3. ~Json!IsNumber(s, p, e) /\ ~Json!IsString(s, p, e)
    BY <1>3, <1>4, <1>7 DEF Json!Digits
  <2> QED
    BY <1>2, <1>5, <1>6, <1>7, <2>2, <2>3 DEF Agrees, r
<1>8. CASE s[p] = "t"
  <2>1. r = Json!parse_literal(s, p, TrueWord, "TRUE")
    BY <1>0, <1>8 DEF r, Json!parse_value, TrueWord, Json!NUL
  <2>2. /\ r.code = "OK" => /\ r.type = "TRUE" /\ r.next \in p + 1 .. Len(s) + 1
                            /\ s[r.next - 1] \notin Json!Space
        /\ r.code # "OK" => r.type = "NULL"
        /\ (r.code = "OK" /\ r.next = e + 1) <=> word = TrueWord
    <3>1. /\ TrueWord \in Seq(Letters) /\ Len(TrueWord) > 1
          /\ \A i \in 1 .. Len(TrueWord) : TrueWord[i] \notin Json!Space \cup {Json!NUL}
      BY Literals
    <3>2. LiteralRead(s, p, e, TrueWord, "TRUE", r)
      BY Zenon, <2>1, <3>1, LiteralValue
    <3> QED
      BY Zenon, <3>2 DEF LiteralRead, word
  <2>3. ~Json!IsNumber(s, p, e) /\ ~Json!IsString(s, p, e)
    BY <1>3, <1>4, <1>8 DEF Json!Digits
  <2> QED
    BY <1>2, <1>5, <1>6, <1>8, <2>2, <2>3 DEF Agrees, r
<1>9. CASE s[p] = "f"
  <2>1. r = Json!parse_literal(s, p, FalseWord, "FALSE")
    BY <1>0, <1>9 DEF r, Json!parse_value, FalseWord, Json!NUL
  <2>2. /\ r.code = "OK" => /\ r.type = "FALSE" /\ r.next \in p + 1 .. Len(s) + 1
                            /\ s[r.next - 1] \notin Json!Space
        /\ r.code # "OK" => r.type = "NULL"
        /\ (r.code = "OK" /\ r.next = e + 1) <=> word = FalseWord
    <3>1. /\ FalseWord \in Seq(Letters) /\ Len(FalseWord) > 1
          /\ \A i \in 1 .. Len(FalseWord) : FalseWord[i] \notin Json!Space \cup {Json!NUL}
      BY Literals
    <3>2. LiteralRead(s, p, e, FalseWord, "FALSE", r)
      BY Zenon, <2>1, <3>1, LiteralValue
    <3> QED
      BY Zenon, <3>2 DEF LiteralRead, word
  <2>3. ~Json!IsNumber(s, p, e) /\ ~Json!IsString(s, p, e)
    BY <1>3, <1>4, <1>9 DEF Json!Digits
  <2> QED
    BY <1>2, <1>5, <1>6, <1>9, <2>2, <2>3 DEF Agrees, r
<1>10. CASE s[p] = "QUOTE"
  <2>1. r = Json!parse_string(s, p)
    BY <1>0, <1>10 DEF r, Json!parse_value, Json!NUL
  <2>2. /\ Outcome(s, p + 1, r)
        /\ (r.code = "OK" /\ r.next = e + 1) <=> Json!IsString(s, p, e)
        /\ Json!IsString(s, p, e) /\ (\A i \in p .. e : s[i] # "\\") =>
             r.chars = SubSeq(s, p + 1, e - 1)
    BY <1>10, <2>1, StringValue
  <2>3. ~Json!IsNumber(s, p, e) /\ word \notin {NullWord, TrueWord, FalseWord}
    BY <1>2, <1>3, <1>10 DEF Json!Digits
  <2>4. r.code = "OK" => r.next \in p + 1 .. Len(s) + 1 /\ s[r.next - 1] \notin Json!Space
    BY <1>0, <2>2 DEF Outcome, Json!Space
  <2>5. Json!TypeOf(s, p, e) = IF Json!IsString(s, p, e) THEN "STRING" ELSE "none"
    BY <1>6, <2>3
  <2> QED
    BY <1>10, <2>2, <2>4, <2>5 DEF Agrees, Outcome, r
<1>11. CASE s[p] \notin {"n", "t", "f", "QUOTE"}
  <2>1. r = Json!parse_number(s, p)
    BY <1>0, <1>11 DEF r, Json!parse_value, Json!NUL
  <2>2. /\ r.code = "OK" => /\ r.type = "NUMBER" /\ r.next \in p + 1 .. Len(s) + 1
                            /\ s[r.next - 1] \in Json!Digits
        /\ r.code # "OK" => r.type = "NULL"
        /\ (r.code = "OK" /\ r.next = e + 1)
             <=> Json!IsNumber(s, p, e) /\ ~Json!TooBig(word)
    BY <1>1, <2>1, NumberValue DEF word
  <2>3. Json!TypeOf(s, p, e)
          = IF Json!IsNumber(s, p, e) /\ ~Json!TooBig(word) THEN "NUMBER" ELSE "none"
    BY <1>2, <1>4, <1>6, <1>11
  <2>4. r.code = "OK" => s[r.next - 1] \notin Json!Space
    BY <2>2 DEF Json!Digits, Json!Space
  <2> QED
    BY <2>2, <2>3, <2>4 DEF Agrees, r
<1> QED
  BY <1>7, <1>8, <1>9, <1>10, <1>11

(* A text is one value between white space, or it is refused.              *)
StringStarts(s) ==
    Json!parse(s).type = "STRING" =>
        Json!At(s, Json!parse_whitespace(s, 1)) = "QUOTE" /\ Json!parse(s).code = "OK"

LEMMA TextRead ==
    ASSUME NEW s, IsText(s)
    PROVE  Json!ReadAsWritten(s) /\ StringStarts(s)
<1> DEFINE written == {i \in DOMAIN s : s[i] \notin Json!Space}
           p == Json!parse_whitespace(s, 1)
           r == Json!parse_value(s, p)
<1>0. /\ Len(s) \in Nat /\ DOMAIN s = 1 .. Len(s) /\ Json!NUL \notin Json!Space
      /\ \A i \in 1 .. Len(s) : Json!At(s, i) = s[i] /\ s[i] # Json!NUL
      /\ \A i \in Nat : i > Len(s) => Json!At(s, i) = Json!NUL
      /\ 1 \in 1 .. Len(s) + 1
  BY AtIs DEF IsText, Json!Space, Json!NUL
<1>1. /\ p \in 1 .. Len(s) + 1 /\ Json!At(s, p) \notin Json!Space
      /\ \A i \in 1 .. p - 1 : Json!At(s, i) \in Json!Space
  BY <1>0, AfterIs DEF Json!parse_whitespace
<1> HIDE DEF p
<1>2. CASE written = {}
  <2>1. p = Len(s) + 1
    BY <1>0, <1>1, <1>2
  <2>2. r = Json!Fail("EXPECT_VALUE", p)
    BY <1>0, <2>1 DEF Json!parse_value, Json!NUL
  <2>3. r.code # "OK" /\ r.type = "NULL"
    BY <2>2 DEF Json!Fail, Json!Result
  <2>4. Json!parse(s) = r
    BY <2>3 DEF Json!parse, p
  <2> HIDE DEF r
  <2> QED
    BY <1>2, <2>3, <2>4 DEF Json!ReadAsWritten, StringStarts
<1>3. CASE written # {}
  <2>1. written \in SUBSET Nat
    BY <1>0
  <2>2. PICK m \in written : m = Json!Min(written) /\ \A i \in written : m <= i
    <3> HIDE DEF written
    <3> QED
      BY <1>3, <2>1, MinIs DEF Min, Json!Min
  <2>3. p = Json!Min(written)
    <3>1. p # Len(s) + 1
      BY <1>0, <1>1, <2>2
    <3>2. p \in written
      BY <1>0, <1>1, <3>1
    <3>3. m \notin 1 .. p - 1
      BY <1>0, <1>1
    <3>4. m <= p /\ m \in 1 .. Len(s)
      BY <1>0, <2>2, <3>2
    <3> QED
      BY <1>1, <2>2, <3>3, <3>4
  <2> DEFINE Behind == {i \in Nat : i <= Len(s) /\ Len(s) - i \in written}
  <2>4. \E x \in written : \A i \in written : x >= i
    <3>1. Len(s) - p \in Behind
      BY <1>0, <2>2, <2>3
    <3>2. PICK k \in Behind : \A i \in Behind : k <= i
      BY <3>1, MinIs
    <3>3. ASSUME NEW i \in written PROVE Len(s) - k >= i
      <4>1. Len(s) - i \in Behind
        BY <1>0
      <4> QED
        BY <1>0, <3>2, <4>1
    <3> QED
      BY <3>2, <3>3
  <2>5. PICK e \in written : e = Json!Max(written) /\ \A i \in written : e >= i
    BY <2>4 DEF Json!Max
  <2> HIDE DEF Behind
  <2>6. /\ p \in 1 .. Len(s) /\ s[p] \notin Json!Space /\ e \in p .. Len(s)
        /\ s[e] \notin Json!Space /\ \A i \in e + 1 .. Len(s) : s[i] \in Json!Space
    <3>1. p \in 1 .. Len(s) /\ s[p] \notin Json!Space /\ p <= e
      BY <1>0, <2>2, <2>3, <2>5
    <3>2. e \in 1 .. Len(s) /\ s[e] \notin Json!Space
      BY <1>0
    <3>3. ASSUME NEW i \in e + 1 .. Len(s) PROVE s[i] \in Json!Space
      <4>1. i \in 1 .. Len(s) /\ ~(e >= i)
        BY <1>0, <3>2
      <4> QED
        BY <1>0, <2>5, <4>1
    <3> QED
      BY <1>0, <3>1, <3>2, <3>3
  <2>7. Json!At(s, e + 1) \in Json!Space \cup {Json!NUL}
    BY <1>0, <2>6
  <2>8. Agrees(s, p, e, r)
    BY <2>6, <2>7, ValueAgrees
  <2> DEFINE end == Json!parse_whitespace(s, r.next)
  <2>9. r.code = "OK" => (Json!At(s, end) = Json!NUL <=> r.next = e + 1)
    <3> SUFFICES ASSUME r.code = "OK" PROVE Json!At(s, end) = Json!NUL <=> r.next = e + 1
      OBVIOUS
    <3>1. r.next \in p + 1 .. Len(s) + 1 /\ s[r.next - 1] \notin Json!Space
      BY <2>8 DEF Agrees
    <3>2. r.next \in 1 .. Len(s) + 1 /\ r.next - 1 \in 1 .. Len(s) /\ r.next <= e + 1
      BY <1>0, <2>6, <3>1
    <3>3. /\ end \in r.next .. Len(s) + 1 /\ Json!At(s, end) \notin Json!Space
          /\ \A i \in r.next .. end - 1 : Json!At(s, i) \in Json!Space
      BY <1>0, <3>2, AfterIs DEF Json!parse_whitespace
    <3> HIDE DEF end, r
    <3>4. CASE r.next = e + 1
      <4>1. end = Len(s) + 1
        BY <1>0, <2>6, <3>2, <3>3, <3>4
      <4> QED
        BY <1>0, <3>4, <4>1
    <3>5. CASE r.next # e + 1
      <4>1. e \notin r.next .. end - 1
        BY <1>0, <2>6, <3>3
      <4>2. end \in 1 .. Len(s)
        BY <1>0, <2>6, <3>2, <3>3, <3>5, <4>1
      <4> QED
        BY <1>0, <3>5, <4>2
    <3> QED
      BY <3>4, <3>5
  <2>10. Json!parse(s) = IF r.code = "OK" /\ r.next # e + 1
                         THEN [r EXCEPT !.code = "ROOT_NOT_SINGULAR", !.type = "NULL"]
                         ELSE r
    BY <2>9 DEF Json!parse, p
  <2> HIDE DEF r, written
  <2>11. ASSUME r.code = "OK", r.next # e + 1 PROVE Json!ReadAsWritten(s)
    BY <1>3, <2>3, <2>5, <2>8, <2>10, <2>11 DEF Agrees, Json!ReadAsWritten, written
  <2>12. ASSUME ~(r.code = "OK" /\ r.next # e + 1) PROVE Json!ReadAsWritten(s)
    BY <1>3, <2>3, <2>5, <2>8, <2>10, <2>12 DEF Agrees, Json!ReadAsWritten, written
  <2>13. StringStarts(s)
    BY <1>0, <2>6, <2>8, <2>10 DEF Agrees, StringStarts, p
  <2> QED
    BY <2>11, <2>12, <2>13
<1> QED
  BY <1>2, <1>3

-----------------------------------------------------------------------------
(* The string of a value is allocated, whatever is called.                 *)
LEMMA parseKeeps ==
    ASSUME NEW s, IsText(s), Json!StringLive, Json!tjson_parse(s)
    PROVE  Json!StringLive'
<1>1. StringStarts(s)
  BY TextRead
<1>2. CASE /\ Json!At(s, Json!parse_whitespace(s, 1)) = "QUOTE"
           /\ Json!parse(s).code \in {"OK", "ROOT_NOT_SINGULAR"}
  BY <1>2 DEF Json!tjson_parse, Json!StringLive, Json!tjson_init
<1>3. CASE ~ (/\ Json!At(s, Json!parse_whitespace(s, 1)) = "QUOTE"
              /\ Json!parse(s).code \in {"OK", "ROOT_NOT_SINGULAR"})
  <2>1. value' = [type |-> Json!parse(s).type, s |-> Json!None]
    BY <1>3 DEF Json!tjson_parse
  <2>2. Json!parse(s).type # "STRING"
    BY <1>1, <1>3 DEF StringStarts
  <2> QED
    BY <2>1, <2>2 DEF Json!StringLive
<1> QED
  BY <1>2, <1>3

LEMMA StringKept == Json!StringLive /\ [Json!Next(ValueTexts)]_jsonVars => Json!StringLive'
<1> SUFFICES ASSUME Json!StringLive, [Json!Next(ValueTexts)]_jsonVars PROVE Json!StringLive'
  OBVIOUS
<1>1. CASE Json!tjson_free
  BY <1>1 DEF Json!StringLive, Json!tjson_free, Json!tjson_init
<1>2. CASE Json!tjson_set_string
  BY <1>2 DEF Json!StringLive, Json!tjson_set_string
<1>3. ASSUME NEW type \in {"NUMBER", "TRUE", "FALSE"}, Json!tjson_set(type)
      PROVE  Json!StringLive'
  BY <1>3 DEF Json!StringLive, Json!tjson_set
<1>4. ASSUME NEW s \in ValueTexts, Json!tjson_parse(s) PROVE Json!StringLive'
  BY <1>4, parseKeeps, ValuesAssumption DEF IsText
<1>5. CASE UNCHANGED jsonVars
  BY <1>5 DEF Json!StringLive, jsonVars
<1> QED
  BY <1>1, <1>2, <1>3, <1>4, <1>5 DEF Json!Next

(* The bytes of a code point, of each of the four lengths.                 *)
LEMMA Bytes ==
    /\ \A w \in 0 .. 63 : (w + 128) % 64 = w /\ w + 128 \in 0 .. 255 /\ (w + 128) \div 64 = 2
    /\ \A x \in 0 .. 31 : (x + 192) % 32 = x /\ x + 192 \in 0 .. 255 /\ (x + 192) \div 32 = 6
    /\ \A x \in 0 .. 15 : (x + 224) % 16 = x /\ x + 224 \in 0 .. 255 /\ (x + 224) \div 16 = 14
    /\ \A x \in 0 .. 7 : (x + 240) % 8 = x /\ x + 240 \in 0 .. 255 /\ (x + 240) \div 8 = 30
BY SMT

LEMMA By64 ==
    ASSUME NEW u \in Nat
    PROVE  \E t \in Nat, w \in 0 .. 63 : u = 64 * t + w /\ t = u \div 64 /\ w = u % 64
<1>1. u \div 64 \in Nat /\ u % 64 \in 0 .. 63 /\ u = 64 * (u \div 64) + (u % 64)
  BY SMT
<1> QED
  BY <1>1

LEMMA Encoded == ASSUME NEW u \in CodePoint PROVE Json!EncodedExactly(u)
<1>0. u \in Nat /\ u <= 1114111
  BY SMT DEF CodePoint
<1>1. CASE u <= 127
  <2>1. Json!parse_utf8(u) = <<u>>
    BY SMT, <1>1 DEF Json!parse_utf8
  <2> QED
    BY SMT, <1>0, <1>1, <2>1 DEF Json!EncodedExactly, Json!Utf8Value
<1>2. CASE 127 < u /\ u <= 2047
  <2>1. PICK x \in 0 .. 31, w \in 0 .. 63 : u = 64 * x + w /\ x = u \div 64 /\ w = u % 64
    BY SMT, <1>0, <1>2
  <2>2. (u \div 64) % 32 = x /\ ~(u <= 127)
    BY SMT, <1>0, <1>2, <2>1
  <2>3. PICK b : b = <<x + 192, w + 128>>
    OBVIOUS
  <2>4. Json!parse_utf8(u) = b
    <3>1. (u \div 64) % 32 = x /\ u % 64 = w /\ u <= 2047
      BY SMT, <1>2, <2>1, <2>2
    <3> QED
      BY SMT, <2>2, <2>3, <3>1 DEF Json!parse_utf8
  <2>5. Len(b) = 2 /\ b[1] = x + 192 /\ b[2] = w + 128 /\ DOMAIN b = 1 .. 2
    BY SMT, <2>3
  <2>6. Json!Utf8Value(b) = u
    <3>1. b[1] % 32 = x /\ b[2] % 64 = w
      BY SMT, <2>5, Bytes
    <3> QED
      BY SMT, <2>1, <2>5, <3>1 DEF Json!Utf8Value
  <2> QED
    BY SMT, <2>4, <2>5, <2>6, Bytes DEF Json!EncodedExactly
<1>3. CASE 2047 < u /\ u <= 65535
  <2>1. PICK v \in Nat, w \in 0 .. 63 : u = 64 * v + w /\ v = u \div 64 /\ w = u % 64
    BY SMT, <1>0, By64
  <2>2. PICK x \in Nat, y \in 0 .. 63 : v = 64 * x + y /\ x = v \div 64 /\ y = v % 64
    BY SMT, By64
  <2>3. u = 4096 * x + 64 * y + w
    <3>1. u = 64 * v + w /\ v = 64 * x + y
      BY Zenon, <2>1, <2>2
    <3> QED
      BY SMT, <3>1
  <2>10. x \in 0 .. 15 /\ ~(u <= 127) /\ ~(u <= 2047)
    BY SMT, <1>0, <1>3, <2>3
  <2>11. (u \div 4096) % 16 = x /\ (u \div 64) % 64 = y /\ u % 64 = w
    <3>1. u \div 4096 = x
      BY SMT, <1>0, <2>3
    <3>2. x % 16 = x
      BY SMT, <2>10
    <3>3. (u \div 4096) % 16 = x
      BY SMT, <3>1, <3>2
    <3>4. (u \div 64) % 64 = y /\ u % 64 = w
      BY Zenon, <2>1, <2>2
    <3> QED
      BY <3>3, <3>4
  <2>4. PICK b : b = <<x + 224, y + 128, w + 128>>
    OBVIOUS
  <2>5. Json!parse_utf8(u) = b
    BY SMT, <1>3, <2>4, <2>10, <2>11 DEF Json!parse_utf8
  <2>6. Len(b) = 3 /\ b[1] = x + 224 /\ b[2] = y + 128 /\ b[3] = w + 128 /\ DOMAIN b = 1 .. 3
    BY SMT, <2>4
  <2>7. Json!Utf8Value(b) = u
    <3>1. b[1] % 16 = x /\ b[2] % 64 = y /\ b[3] % 64 = w
      BY SMT, <2>6, <2>10, Bytes
    <3> QED
      BY SMT, <2>3, <2>6, <3>1 DEF Json!Utf8Value
  <2> QED
    BY SMT, <2>5, <2>6, <2>7, <2>10, Bytes DEF Json!EncodedExactly
<1>4. CASE 65535 < u
  <2>1. PICK t \in Nat, w \in 0 .. 63 : u = 64 * t + w /\ t = u \div 64 /\ w = u % 64
    BY SMT, <1>0, By64
  <2>2. PICK v \in Nat, y \in 0 .. 63 : t = 64 * v + y /\ v = t \div 64 /\ y = t % 64
    BY SMT, By64
  <2>3. PICK x \in Nat, z \in 0 .. 63 : v = 64 * x + z /\ x = v \div 64 /\ z = v % 64
    BY SMT, By64
  <2>4. u = 4096 * v + 64 * y + w /\ u = 262144 * x + 4096 * z + 64 * y + w
    <3>1. u = 64 * t + w /\ t = 64 * v + y /\ v = 64 * x + z
      BY Zenon, <2>1, <2>2, <2>3
    <3> QED
      BY SMT, <3>1
  <2>5. x \in 0 .. 7
    <3>1. x <= 4
      BY SMT, <1>0, <2>4
    <3> QED
      BY SMT, <3>1
  <2>6. ~(u <= 127) /\ ~(u <= 2047) /\ ~(u <= 65535)
    BY SMT, <1>0, <1>4
  <2>7. /\ (u \div 262144) % 8 = x /\ (u \div 4096) % 64 = z
        /\ (u \div 64) % 64 = y /\ u % 64 = w
    <3>1. u \div 4096 = v
      BY SMT, <1>0, <2>4
    <3>2. u \div 262144 = x
      BY SMT, <1>0, <2>4
    <3>3. x % 8 = x
      BY SMT, <2>5
    <3>4. v % 64 = z
      BY Zenon, <2>3
    <3>5. t \div 64 = v /\ (u \div 64) % 64 = y /\ u % 64 = w
      BY Zenon, <2>1, <2>2
    <3>6. (u \div 4096) % 64 = z
      BY SMT, <3>1, <3>4
    <3>7. (u \div 262144) % 8 = x
      BY SMT, <3>2, <3>3
    <3> QED
      BY SMT, <3>5, <3>6, <3>7
  <2>8. PICK b : b = <<x + 240, z + 128, y + 128, w + 128>>
    OBVIOUS
  <2>9. Json!parse_utf8(u) = b
    BY SMT, <2>6, <2>7, <2>8 DEF Json!parse_utf8
  <2>10. /\ Len(b) = 4 /\ DOMAIN b = 1 .. 4
         /\ b[1] = x + 240 /\ b[2] = z + 128 /\ b[3] = y + 128 /\ b[4] = w + 128
    BY SMT, <2>8
  <2>11. Json!Utf8Value(b) = u
    <3>1. b[1] % 8 = x /\ b[2] % 64 = z /\ b[3] % 64 = y /\ b[4] % 64 = w
      BY SMT, <2>5, <2>10, Bytes
    <3> QED
      BY SMT, <2>4, <2>10, <3>1 DEF Json!Utf8Value
  <2> QED
    BY SMT, <2>5, <2>9, <2>10, <2>11, Bytes DEF Json!EncodedExactly
<1> QED
  BY SMT, <1>0, <1>1, <1>2, <1>3, <1>4

(* Every text is read as the grammar says, every code point is encoded, and*)
(* no call frees the string of a value twice, or hands out a freed one     *)
(* (tinyjson.c:250, 170, 31 and 59).                                       *)
THEOREM TextsRead == TextSpec => []ValuesRight
<1> DEFINE Inv == Inputs /\ Json!StringLive
<1>1. Starts /\ Inputs => Inv
  BY DEF Starts, Json!Init, Json!tjson_init, Json!StringLive
<1>2. Inv /\ [Steps]_textVars => Inv'
  <2>1. [Steps]_textVars => [Json!Next(ValueTexts)]_jsonVars
    BY DEF Steps, textVars, jsonVars
  <2>2. Inputs /\ [Steps]_textVars => Inputs'
    BY DEF Inputs, Steps, textVars
  <2> QED
    BY <2>1, <2>2, StringKept
<1>3. Inv => ValuesRight
  <2>1. ASSUME running = "json", input \in JsonTexts PROVE Json!ReadAsWritten(input)
    BY <2>1, TextRead, ValuesAssumption DEF IsText
  <2>2. ASSUME running = "utf8", input \in CodePoints PROVE Json!EncodedExactly(input)
    BY <2>2, Encoded, ValuesAssumption
  <2> QED
    BY <2>1, <2>2 DEF Inputs, ValuesRight
<1> QED
  BY <1>1, <1>2, <1>3, PTL DEF TextSpec

-----------------------------------------------------------------------------
(* MyFrame.                                                                *)

(* Two bytes hold every number below U16.                                  *)
LEMMA TwoBytes ==
    /\ Lines!U16 \in Nat /\ Lines!U16 >= 9 /\ Base \in Nat
    /\ \A x \in Nat : x < Lines!U16 =>
          /\ x % Lines!U16 = x
          /\ (x \div Base) % Base \in Nat /\ x % Base \in Nat
          /\ Lines!from_be_bytes((x \div Base) % Base, x % Base) = x
<1>1. Lines!U16 \in Nat /\ Lines!U16 >= 9 /\ Base \in Nat /\ Base > 0
  BY SMT, FramesAssumption DEF Lines!U16
<1>2. ASSUME NEW x \in Nat, x < Lines!U16
      PROVE  /\ x % Lines!U16 = x
             /\ (x \div Base) % Base \in Nat /\ x % Base \in Nat
             /\ Lines!from_be_bytes((x \div Base) % Base, x % Base) = x
  <2>1. x % Lines!U16 = x
    BY SMT, <1>1, <1>2
  <2>2. PICK q \in Nat, r \in 0 .. Base - 1 :
          q = x \div Base /\ r = x % Base /\ x = Base * q + r
    <3>1. /\ x \div Base \in Nat
          /\ x % Base \in 0 .. Base - 1 /\ x = Base * (x \div Base) + (x % Base)
      BY SMT, <1>1
    <3> QED
      BY <3>1
  <2>3. q < Base
    BY SMT, <1>1, <1>2, <2>2 DEF Lines!U16
  <2>4. q % Base = q
    BY SMT, <1>1, <2>3
  <2>5. Lines!from_be_bytes(q, r) = x
    BY SMT, <1>1, <2>2 DEF Lines!from_be_bytes
  <2> QED
    BY <2>1, <2>2, <2>4, <2>5
<1> QED
  BY <1>1, <1>2

LEMMA Remainder ==
    ASSUME NEW M \in Nat, M > 0, NEW q \in Nat, NEW r \in 0 .. M - 1
    PROVE  (M * q + r) % M = r
BY SMT

LEMMA Quotient ==
    ASSUME NEW M \in Nat, M > 0, NEW n \in Nat
    PROVE  n = M * (n \div M) + (n % M) /\ n \div M \in Nat /\ n % M \in 0 .. M - 1
BY SMT

(* What a length is when it is kept in two bytes.                          *)
LEMMA RestKept ==
    ASSUME NEW M \in Nat, M > 0, NEW k \in Nat, NEW t \in Nat
    PROVE  /\ k % M \in Nat /\ k % M < M /\ k % M <= k
           /\ t <= k % M => (k - t) % M = (k % M) - t
<1>1. PICK q \in Nat, r \in 0 .. M - 1 : k = M * q + r /\ r = k % M
  <2>1. k = M * (k \div M) + (k % M) /\ k \div M \in Nat /\ k % M \in 0 .. M - 1
    BY Quotient
  <2> QED
    BY Zenon, <2>1
<1>2. M * q \in Nat
  BY SMT
<1>3. r \in Nat /\ r < M /\ r <= k
  BY <1>1, <1>2
<1>4. ASSUME t <= r PROVE (k - t) % M = r - t
  <2>1. PICK s \in 0 .. M - 1 : s = r - t
    BY <1>3, <1>4
  <2>2. k - t = M * q + s
    BY <1>1, <1>2, <2>1
  <2>3. (M * q + s) % M = s
    BY Remainder
  <2> QED
    BY Zenon, <2>1, <2>2, <2>3
<1> QED
  BY Zenon, <1>1, <1>3, <1>4

LEMMA Wrapped ==
    \A k, t \in Nat :
        /\ k % Lines!U16 \in Nat /\ k % Lines!U16 < Lines!U16 /\ k % Lines!U16 <= k
        /\ t <= k % Lines!U16 => (k - t) % Lines!U16 = (k % Lines!U16) - t
<1>1. Lines!U16 \in Nat /\ Lines!U16 > 0
  BY TwoBytes
<1> SUFFICES ASSUME NEW k \in Nat, NEW t \in Nat
             PROVE  /\ k % Lines!U16 \in Nat /\ k % Lines!U16 < Lines!U16 /\ k % Lines!U16 <= k
                    /\ t <= k % Lines!U16 => (k - t) % Lines!U16 = (k % Lines!U16) - t
  OBVIOUS
<1> QED
  BY Zenon, <1>1, RestKept

(* A part of a sequence.                                                   *)
LEMMA PartIs ==
    ASSUME NEW S, NEW s \in Seq(S), NEW from \in Nat, NEW to \in Nat,
           1 <= from, from <= to + 1, to <= Len(s)
    PROVE  /\ SubSeq(s, from, to) \in Seq(S) /\ Len(SubSeq(s, from, to)) = to - from + 1
           /\ \A i \in 1 .. to - from + 1 : SubSeq(s, from, to)[i] = s[from + i - 1]
<1>1. \A i \in from .. to : s[i] \in S
  OBVIOUS
<1>2. /\ SubSeq(s, from, to) \in Seq(S)
      /\ Len(SubSeq(s, from, to)) = IF from <= to THEN to - from + 1 ELSE 0
      /\ \A i \in 1 .. to - from + 1 : SubSeq(s, from, to)[i] = s[from + i - 1]
  BY <1>1, SubSeqProperties
<1> QED
  BY <1>2

(* The same of a part of a sequence of numbers.                            *)
LEMMA NumbersPart ==
    \A s \in Seq(Nat), from, to \in Nat :
        1 <= from /\ from <= to + 1 /\ to <= Len(s) =>
            /\ SubSeq(s, from, to) \in Seq(Nat) /\ Len(SubSeq(s, from, to)) = to - from + 1
            /\ \A i \in 1 .. to - from + 1 : SubSeq(s, from, to)[i] = s[from + i - 1]
BY PartIs

LEMMA NumbersHead ==
    \A s \in Seq(Nat), n \in Nat :
        n <= Len(s) =>
            /\ SubSeq(s, 1, n) \in Seq(Nat) /\ Len(SubSeq(s, 1, n)) = n
            /\ \A i \in 1 .. n : SubSeq(s, 1, n)[i] = s[i]
<1> SUFFICES ASSUME NEW s \in Seq(Nat), NEW n \in Nat, n <= Len(s)
             PROVE  /\ SubSeq(s, 1, n) \in Seq(Nat) /\ Len(SubSeq(s, 1, n)) = n
                    /\ \A i \in 1 .. n : SubSeq(s, 1, n)[i] = s[i]
  OBVIOUS
<1>1. /\ SubSeq(s, 1, n) \in Seq(Nat) /\ Len(SubSeq(s, 1, n)) = n - 1 + 1
      /\ \A i \in 1 .. n - 1 + 1 : SubSeq(s, 1, n)[i] = s[1 + i - 1]
  BY PartIs
<1>2. n - 1 + 1 = n /\ \A i \in 1 .. n : 1 + i - 1 = i
  OBVIOUS
<1> QED
  BY Zenon, <1>1, <1>2

LEMMA Through == \A a, b, c \in Nat : a <= b /\ b <= c => a <= c
OBVIOUS

LEMMA FrameIs ==
    ASSUME NEW tag \in Nat, NEW payload \in Seq(Nat), Len(payload) + 1 < Lines!U16
    PROVE  \E f \in Seq(Nat) :
             /\ f = Lines!encode(Lines!Message(tag, payload), FALSE)
             /\ Lines!encode(Lines!Message(tag, payload), TRUE) =
                   IF Len(f) >= Lines!U16 THEN Lines!Panic ELSE f
             /\ Len(f) = Len(payload) + 3
             /\ Lines!from_be_bytes(f[1], f[2]) = Len(payload) + 1
             /\ f[3] = tag /\ \A i \in 1 .. Len(payload) : f[3 + i] = payload[i]
<1> DEFINE L == Len(payload)
           m == Lines!Message(tag, payload)
<1>1. m[2] = tag /\ m[3] = payload
  BY DEF Lines!Message
<1>2. L \in Nat /\ L % Lines!U16 = L
  BY TwoBytes
<1>3. /\ Lines!encode(m, FALSE) = Lines!to_be_bytes(L + 1) \o <<tag>> \o payload
      /\ Lines!encode(m, TRUE) = IF L + 3 >= Lines!U16 THEN Lines!Panic
                                 ELSE Lines!encode(m, FALSE)
  <2> HIDE DEF m
  <2> QED
    BY Zenon, <1>1, <1>2 DEF Lines!encode
<1>4. PICK h \in Nat, l \in Nat :
        Lines!to_be_bytes(L + 1) = <<h, l>> /\ Lines!from_be_bytes(h, l) = L + 1
  <2>1. L + 1 \in Nat /\ L + 1 < Lines!U16
    BY <1>2, TwoBytes
  <2> QED
    BY <2>1, TwoBytes DEF Lines!to_be_bytes
<1>5. Lines!encode(m, FALSE) = <<h, l>> \o <<tag>> \o payload
  BY <1>3, <1>4
<1>6. PICK head \in Seq(Nat) : /\ head = <<h, l>> \o <<tag>> /\ Len(head) = 3
                               /\ head[1] = h /\ head[2] = l /\ head[3] = tag
  <2>1. <<h, l>> \in Seq(Nat) /\ <<tag>> \in Seq(Nat)
    OBVIOUS
  <2>2. /\ <<h, l>> \o <<tag>> \in Seq(Nat) /\ Len(<<h, l>> \o <<tag>>) = 3
        /\ (<<h, l>> \o <<tag>>)[1] = h /\ (<<h, l>> \o <<tag>>)[2] = l
        /\ (<<h, l>> \o <<tag>>)[3] = tag
    BY <2>1
  <2> QED
    BY Zenon, <2>2
<1>7. PICK f \in Seq(Nat) : f = head \o payload
  <2>1. head \o payload \in Seq(Nat)
    BY <1>6
  <2> QED
    BY Zenon, <2>1
<1>8. Len(f) = L + 3 /\ \A i \in 1 .. Len(f) : f[i] = IF i <= 3 THEN head[i] ELSE payload[i - 3]
  BY <1>6, <1>7
<1>9. f[1] = h /\ f[2] = l /\ f[3] = tag /\ \A i \in 1 .. L : f[3 + i] = payload[i]
  <2>1. f[1] = head[1] /\ f[2] = head[2] /\ f[3] = head[3]
    <3>1. \A i \in {1, 2, 3} : i \in 1 .. Len(f) /\ i <= 3
      <4>1. Len(f) = L + 3 /\ L \in Nat
        BY Zenon, <1>2, <1>8
      <4> QED
        BY <4>1
    <3> QED
      BY Zenon, <1>8, <3>1
  <2>2. ASSUME NEW i \in 1 .. L PROVE f[3 + i] = payload[i]
    <3>1. 3 + i \in 1 .. L + 3 /\ ~(3 + i <= 3) /\ (3 + i) - 3 = i
      BY <1>2
    <3> QED
      BY Zenon, <1>8, <3>1
  <2> QED
    BY <1>6, <2>1, <2>2
<1> HIDE DEF m
<1>10. f = Lines!encode(m, FALSE)
  BY Zenon, <1>5, <1>6, <1>7
<1>11. Lines!encode(m, TRUE) = IF Len(f) >= Lines!U16 THEN Lines!Panic ELSE f
  BY Zenon, <1>3, <1>8, <1>10
<1> QED
  BY Zenon, <1>4, <1>8, <1>9, <1>10, <1>11 DEF m

(* Where the frames of no length end.                                      *)
LEMMA PassedIs ==
    ASSUME NEW src \in Seq(Nat), NEW j \in Nat, 2 * j <= Len(src) % Lines!U16,
           (Len(src) % Lines!U16) - 2 * j < 2 \/ Lines!length_behind(src, j) # 0,
           \A i \in 0 .. j - 1 : Lines!length_behind(src, i) = 0
    PROVE  /\ Lines!passed(src) = j
           /\ Lines!b_len_behind(src, j) = (Len(src) % Lines!U16) - 2 * j
<1> DEFINE EndsAt(k) ==
             /\ Lines!b_len_behind(src, k) < 2 \/ Lines!length_behind(src, k) # 0
             /\ \A i \in 0 .. k - 1 :
                   Lines!b_len_behind(src, i) >= 2 /\ Lines!length_behind(src, i) = 0
<1>0. PICK R \in Nat : R = Len(src) % Lines!U16 /\ R <= Len(src) /\ Len(src) \in Nat
  <2>1. Len(src) \in Nat
    OBVIOUS
  <2> QED
    BY Zenon, <2>1, Wrapped
<1>r. 2 * j <= R /\ (R - 2 * j < 2 \/ Lines!length_behind(src, j) # 0)
  BY Zenon, <1>0
<1>1. ASSUME NEW k \in Nat, 2 * k <= R
      PROVE  Lines!b_len_behind(src, k) = R - 2 * k
  <2>1. 2 * k \in Nat
    OBVIOUS
  <2> QED
    BY Zenon, <1>0, <1>1, <2>1, Wrapped DEF Lines!b_len_behind
<1>2. j \in 0 .. Len(src) /\ EndsAt(j)
  <2>1. ASSUME NEW i \in 0 .. j - 1 PROVE Lines!b_len_behind(src, i) >= 2
    <3>1. i \in Nat /\ 2 * i + 2 <= R /\ 2 * i <= R
      BY <1>r
    <3>2. Lines!b_len_behind(src, i) = R - 2 * i
      BY <1>1, <3>1
    <3> QED
      BY <3>1, <3>2
  <2>2. j \in 0 .. Len(src) /\ Lines!b_len_behind(src, j) = R - 2 * j
    BY <1>0, <1>r, <1>1
  <2> QED
    BY <1>r, <2>1, <2>2
<1>3. ASSUME NEW k \in 0 .. Len(src), EndsAt(k) PROVE k = j
  <2>1. CASE k > j
    <3>1. j \in 0 .. k - 1 /\ Lines!b_len_behind(src, j) = R - 2 * j
      BY <1>r, <1>1, <2>1
    <3> QED
      BY <1>r, <1>3, <3>1
  <2>2. CASE k < j
    <3>1. k \in 0 .. j - 1 /\ 2 * k + 2 <= R /\ Lines!b_len_behind(src, k) = R - 2 * k
      BY <1>r, <1>1, <2>2
    <3> QED
      BY <1>3, <3>1
  <2> QED
    BY <2>1, <2>2
<1>4. Lines!passed(src) = CHOOSE k \in 0 .. Len(src) : EndsAt(k)
  BY DEF Lines!passed
<1> HIDE DEF EndsAt
<1>5. Lines!passed(src) = j
  BY <1>2, <1>3, <1>4
<1> QED
  BY Zenon, <1>0, <1>r, <1>1, <1>5

(* The frame of a message, and where it is in what was sent.               *)
MessageFrame(f, tag, payload) ==
    /\ Len(f) = Len(payload) + 3 /\ Lines!from_be_bytes(f[1], f[2]) = Len(payload) + 1
    /\ f[3] = tag /\ \A i \in 1 .. Len(payload) : f[3 + i] = payload[i]

Following(sent, empties, f) ==
    /\ 2 * empties + Len(f) <= Len(sent)
    /\ \A i \in 1 .. 2 * empties : sent[i] = 0
    /\ \A i \in 1 .. Len(f) : sent[2 * empties + i] = f[i]

(* A number is even or odd.                                                *)
LEMMA Halved == \A n \in Nat : n \div 2 \in Nat /\ n - 2 * (n \div 2) \in {0, 1}
BY SMT

(* What decode makes of the first k bytes of what was sent.                *)
LEMMA FrameCut ==
    ASSUME NEW tag \in Nat, NEW payload \in Seq(Nat), NEW empties \in Nat, NEW checked \in BOOLEAN,
           NEW f \in Seq(Nat), MessageFrame(f, tag, payload),
           NEW sent \in Seq(Nat), Following(sent, empties, f),
           Len(payload) + 1 < Lines!U16, NEW k \in Nat, k <= Len(sent)
    PROVE  Lines!decode(SubSeq(sent, 1, k), checked) =
             Lines!Decoded(Lines!Message(tag, payload), f, checked,
                           (k % Lines!U16) - 2 * empties, k - 2 * empties)
<1> DEFINE L == Len(payload)
           m == Lines!Message(tag, payload)
<1> HIDE DEF m
<1>l. L \in Nat /\ Len(f) = L + 3 /\ Lines!U16 \in Nat
  BY TwoBytes DEF MessageFrame
<1>2. /\ f[3] = tag /\ Lines!from_be_bytes(f[1], f[2]) = L + 1
      /\ \A i \in 1 .. L : f[3 + i] = payload[i]
  BY Zenon DEF MessageFrame
<1>3. /\ \A i \in 1 .. 2 * empties : sent[i] = 0
      /\ \A i \in 1 .. Len(f) : sent[2 * empties + i] = f[i]
  BY Zenon DEF Following
<1> DEFINE src == SubSeq(sent, 1, k)
<1>4. src \in Seq(Nat) /\ Len(src) = k /\ k \in Nat /\ \A i \in 1 .. k : src[i] = sent[i]
  BY Zenon, NumbersHead
<1> HIDE DEF src
<1>5. ASSUME NEW i \in Nat, 2 * i + 2 <= 2 * empties, 2 * i + 2 <= k
      PROVE  Lines!length_behind(src, i) = 0
  <2>1. src[2 * i + 1] = 0 /\ src[2 * i + 2] = 0
    <3>1. /\ 2 * i + 1 \in 1 .. 2 * empties /\ 2 * i + 2 \in 1 .. 2 * empties
          /\ 2 * i + 1 \in 1 .. k /\ 2 * i + 2 \in 1 .. k
      BY <1>5
    <3> QED
      BY Zenon, <1>3, <1>4, <3>1
  <2> QED
    BY <2>1, TwoBytes DEF Lines!length_behind, Lines!from_be_bytes
<1>r. PICK R \in Nat : R = k % Lines!U16 /\ R <= k
  BY Zenon, <1>4, Wrapped
<1>q. R <= k
  BY Zenon, <1>r
<1>d. Lines!Decoded(m, f, checked, R - 2 * empties, k - 2 * empties) =
        IF R - 2 * empties < 5 THEN Lines!None
        ELSE IF L + 3 < Lines!U16 THEN IF R - 2 * empties >= L + 3 THEN m ELSE Lines!None
        ELSE IF checked \/ k - 2 * empties < L + 3 THEN Lines!Panic ELSE m
  <2>1. Len(f) = L + 3 /\ Lines!U16 \in Nat
    BY Zenon, <1>l
  <2> DEFINE u == Lines!U16
  <2> HIDE DEF u
  <2>2. u \in Nat /\ R - 2 * empties \in Int /\ L + 3 \in Int
    BY <1>l, <2>1 DEF u
  <2>3. /\ R - 2 * empties < 5 <=> ~(R - 2 * empties >= 5)
        /\ L + 3 < u <=> ~(L + 3 >= u)
    BY <2>2
  <2> QED
    BY Zenon, <2>1, <2>3 DEF Lines!Decoded, u
<1>6. CASE R < 2 * empties + 2
  <2>1. PICK j \in Nat : R - 2 * j \in {0, 1}
    <3>1. R \div 2 \in Nat /\ R - 2 * (R \div 2) \in {0, 1}
      BY Zenon, Halved
    <3> QED
      BY Zenon, <3>1
  <2>2. j <= empties /\ 2 * j <= R
    BY <1>6, <2>1
  <2>3. \A i \in 0 .. j - 1 : Lines!length_behind(src, i) = 0
    <3>1. ASSUME NEW i \in 0 .. j - 1 PROVE Lines!length_behind(src, i) = 0
      <4>1. i \in Nat /\ 2 * i + 2 <= 2 * empties /\ 2 * i + 2 <= k
        BY <1>q, <2>2
      <4> QED
        BY <1>5, <4>1
    <3> QED
      BY <3>1
  <2>4. Lines!passed(src) = j /\ Lines!b_len_behind(src, j) = R - 2 * j
    <3>0. 2 * j <= R /\ R - 2 * j < 2
      BY <2>1, <2>2
    <3>1. 2 * j <= Len(src) % Lines!U16 /\ (Len(src) % Lines!U16) - 2 * j < 2
      BY Zenon, <1>4, <1>r, <3>0
    <3>2. Lines!passed(src) = j /\ Lines!b_len_behind(src, j) = (Len(src) % Lines!U16) - 2 * j
      BY Zenon, <1>4, <2>3, <3>1, PassedIs
    <3> QED
      BY Zenon, <1>4, <1>r, <3>2
  <2>5. Lines!decode(src, checked) = Lines!None
    <3>1. R - 2 * j < 5
      BY <2>1
    <3> QED
      BY Zenon, <2>4, <3>1 DEF Lines!decode
  <2> QED
    <3>1. R - 2 * empties < 5
      BY <1>6
    <3> QED
      BY Zenon, <1>r, <1>d, <2>5, <3>1 DEF src, m
<1>7. CASE R >= 2 * empties + 2
  <2>1. src[2 * empties + 1] = f[1] /\ src[2 * empties + 2] = f[2]
    <3>1. /\ 1 \in 1 .. Len(f) /\ 2 \in 1 .. Len(f)
          /\ 2 * empties + 1 \in 1 .. k /\ 2 * empties + 2 \in 1 .. k
      BY <1>l, <1>q, <1>7
    <3>2. sent[2 * empties + 1] = f[1] /\ sent[2 * empties + 2] = f[2]
      BY <1>3, <3>1
    <3> QED
      BY <1>4, <3>1, <3>2
  <2>2. Lines!length_behind(src, empties) = L + 1
    BY <1>2, <2>1 DEF Lines!length_behind
  <2>3. \A i \in 0 .. empties - 1 : Lines!length_behind(src, i) = 0
    <3>1. ASSUME NEW i \in 0 .. empties - 1 PROVE Lines!length_behind(src, i) = 0
      <4>1. i \in Nat /\ 2 * i + 2 <= 2 * empties /\ 2 * i + 2 <= k
        BY <1>q, <1>7
      <4> QED
        BY <1>5, <4>1
    <3> QED
      BY <3>1
  <2>4. Lines!passed(src) = empties /\ Lines!b_len_behind(src, empties) = R - 2 * empties
    <3>0. 2 * empties <= R /\ L + 1 # 0
      BY <1>l, <1>7
    <3>1. 2 * empties <= Len(src) % Lines!U16 /\ Lines!length_behind(src, empties) # 0
      BY Zenon, <1>4, <1>r, <2>2, <3>0
    <3>2. /\ Lines!passed(src) = empties
          /\ Lines!b_len_behind(src, empties) = (Len(src) % Lines!U16) - 2 * empties
      BY Zenon, <1>4, <2>3, <3>1, PassedIs
    <3> QED
      BY Zenon, <1>4, <1>r, <3>2
  <2> DEFINE frame == Lines!Drop(src, 2 * empties)
             read == Lines!Message(frame[3],
                                   IF L + 1 = 1 THEN <<>> ELSE SubSeq(frame, 4, 2 + (L + 1)))
  <2>5. Lines!decode(src, checked) =
          IF R - 2 * empties < 5 THEN Lines!None
          ELSE IF checked /\ 2 + (L + 1) >= Lines!U16 THEN Lines!Panic
          ELSE IF ~Lines!complete(R - 2 * empties, L + 1) THEN Lines!None
          ELSE IF 2 + (L + 1) > Len(frame) THEN Lines!Panic
          ELSE read
    BY Zenon, <2>2, <2>4 DEF Lines!decode
  <2>l. Len(frame) = k - 2 * empties /\ frame \in Seq(Nat)
    <3>1. 2 * empties + 1 \in Nat /\ 2 * empties + 1 <= k + 1
      BY <1>q, <1>7
    <3>2. SubSeq(src, 2 * empties + 1, k) \in Seq(Nat)
          /\ Len(SubSeq(src, 2 * empties + 1, k)) = k - (2 * empties + 1) + 1
      <4>1. 1 <= 2 * empties + 1 /\ k <= Len(src)
        BY <1>4
      <4> QED
        BY Zenon, <1>4, <3>1, <4>1, NumbersPart
    <3>3. k - (2 * empties + 1) + 1 = k - 2 * empties
      OBVIOUS
    <3> QED
      BY Zenon, <1>4, <3>2, <3>3 DEF Lines!Drop
  <2>6. /\ 2 + (L + 1) = L + 3
        /\ L + 3 < Lines!U16 => (2 + (L + 1)) % Lines!U16 = L + 3
        /\ ~(L + 3 < Lines!U16) => (2 + (L + 1)) % Lines!U16 \in {0, 1}
    <3>1. /\ L \in Nat /\ Lines!U16 \in Nat /\ Lines!U16 > 2
          /\ L + 1 < Lines!U16 /\ 2 + (L + 1) = L + 3
      BY <1>l, TwoBytes
    <3>2. CASE L + 3 < Lines!U16
      <4>1. L + 3 \in Nat
        BY <3>1
      <4> QED
        BY Zenon, <3>1, <3>2, <4>1, TwoBytes
    <3>3. CASE ~(L + 3 < Lines!U16)
      <4>1. PICK t \in {0, 1} : L + 3 = Lines!U16 + t
        <5>1. L + 3 = Lines!U16 + 0 \/ L + 3 = Lines!U16 + 1
          BY SMTT(40), <3>1, <3>3
        <5> QED
          BY Zenon, <5>1
      <4>2. (Lines!U16 + t) % Lines!U16 = t
        <5>1. t \in 0 .. Lines!U16 - 1 /\ Lines!U16 * 1 + t = Lines!U16 + t /\ Lines!U16 > 0
          BY <3>1
        <5>2. (Lines!U16 * 1 + t) % Lines!U16 = t
          BY <3>1, <5>1, Remainder
        <5> QED
          BY Zenon, <5>1, <5>2
      <4> QED
        BY Zenon, <3>1, <3>3, <4>1, <4>2
    <3> QED
      BY Zenon, <3>1, <3>2, <3>3
  <2>7. ASSUME R - 2 * empties >= 5
        PROVE  Lines!complete(R - 2 * empties, L + 1) <=>
                  (R - 2 * empties >= L + 3 \/ ~(L + 3 < Lines!U16))
    <3>1. CASE L + 3 < Lines!U16
      BY Zenon, <2>6, <3>1 DEF Lines!complete
    <3>2. CASE ~(L + 3 < Lines!U16)
      <4>1. PICK t \in {0, 1} : (2 + (L + 1)) % Lines!U16 = t
        BY Zenon, <2>6, <3>2
      <4>2. R - 2 * empties >= t
        BY <2>7, <4>1
      <4> QED
        BY Zenon, <3>2, <4>1, <4>2 DEF Lines!complete
    <3> QED
      BY Zenon, <3>1, <3>2
  <2>8. ASSUME k - 2 * empties >= Len(f) PROVE read = m
    <3>1. /\ frame \in Seq(Nat) /\ Len(frame) = k - 2 * empties
          /\ \A i \in 1 .. Len(f) : frame[i] = f[i]
      <4>2. ASSUME NEW i \in 1 .. Len(f) PROVE frame[i] = f[i]
        <5>1. 2 * empties + i \in 1 .. k /\ i \in 1 .. k - 2 * empties
          BY <1>l, <1>4, <2>8
        <5>2. frame[i] = src[2 * empties + i]
          <6>1. /\ 2 * empties + 1 \in Nat /\ 1 <= 2 * empties + 1 /\ 2 * empties + 1 <= k + 1
                /\ k <= Len(src) /\ i \in 1 .. k - (2 * empties + 1) + 1
                /\ 2 * empties + 1 + i - 1 = 2 * empties + i
            BY <1>4, <1>q, <1>7, <5>1
          <6>2. frame = SubSeq(src, 2 * empties + 1, k)
            BY Zenon, <1>4 DEF Lines!Drop
          <6> HIDE DEF frame
          <6>3. SubSeq(src, 2 * empties + 1, k)[i] = src[2 * empties + 1 + i - 1]
            BY ZenonT(40), <1>4, <6>1, NumbersPart
          <6> QED
            BY Zenon, <6>1, <6>2, <6>3
        <5> QED
          BY Zenon, <1>3, <1>4, <4>2, <5>1, <5>2
      <4> QED
        BY Zenon, <2>l, <4>2
    <3> HIDE DEF frame
    <3>2. frame[3] = tag
      <4>1. 3 \in 1 .. Len(f)
        BY <1>l
      <4> QED
        BY Zenon, <1>2, <3>1, <4>1
    <3>3. SubSeq(frame, 4, L + 3) = payload
      <4>0. PICK from, to : from = 4 /\ to = L + 3
        OBVIOUS
      <4>1. /\ from \in Nat /\ to \in Nat /\ 1 <= from /\ from <= to + 1
            /\ to <= Len(frame) /\ to - from + 1 = L
        <5>1. Len(frame) = k - 2 * empties
          BY Zenon, <3>1
        <5> QED
          BY <1>l, <2>8, <4>0, <5>1
      <4>2. PICK t \in Seq(Nat) :
              t = SubSeq(frame, from, to) /\ Len(t) = L /\ \A i \in 1 .. L : t[i] = frame[from + i - 1]
        <5>1. frame \in Seq(Nat)
          BY Zenon, <3>1
        <5>2. /\ SubSeq(frame, from, to) \in Seq(Nat) /\ Len(SubSeq(frame, from, to)) = to - from + 1
              /\ \A i \in 1 .. to - from + 1 : SubSeq(frame, from, to)[i] = frame[from + i - 1]
          BY Zenon, <4>1, <5>1, NumbersPart
        <5> QED
          BY Zenon, <4>1, <5>2
      <4>3. ASSUME NEW i \in 1 .. L PROVE t[i] = payload[i]
        <5>1. from + i - 1 = 3 + i /\ 3 + i \in 1 .. Len(f)
          BY <1>l, <4>0
        <5> QED
          BY Zenon, <1>2, <3>1, <4>2, <5>1
      <4>4. t = payload
        <5>1. Len(t) = Len(payload) /\ \A i \in 1 .. Len(t) : t[i] = payload[i]
          BY Zenon, <4>2, <4>3
        <5> QED
          BY <5>1, SeqEqual
      <4> QED
        BY Zenon, <4>0, <4>2, <4>4
    <3>4. L = 0 => payload = <<>>
      BY EmptySeq
    <3>5. (IF L + 1 = 1 THEN <<>> ELSE SubSeq(frame, 4, 2 + (L + 1))) = payload
      BY <3>3, <3>4
    <3> QED
      BY <3>2, <3>5 DEF m
  <2> HIDE DEF frame
  <2> HIDE DEF read
  <2>9. Lines!decode(src, checked) =
          Lines!Decoded(m, f, checked, R - 2 * empties, k - 2 * empties)
    <3>1. /\ R - 2 * empties >= L + 3 => k - 2 * empties >= L + 3
          /\ R - 2 * empties < 5 <=> ~(R - 2 * empties >= 5)
          /\ L + 3 > k - 2 * empties <=> ~(k - 2 * empties >= L + 3)
          /\ k - 2 * empties < L + 3 <=> ~(k - 2 * empties >= L + 3)
      BY <1>l, <1>q
    <3>2. L + 3 < Lines!U16 <=> ~(L + 3 >= Lines!U16)
      BY <1>l, TwoBytes
    <3>3. /\ 2 + (L + 1) >= Lines!U16 <=> L + 3 >= Lines!U16
          /\ 2 + (L + 1) > Len(frame) <=> ~(k - 2 * empties >= L + 3)
      BY Zenon, <2>l, <2>6, <3>1
    <3>4. k - 2 * empties >= L + 3 => read = m
      BY Zenon, <1>l, <2>8
    <3>5. CASE R - 2 * empties < 5
      BY Zenon, <1>d, <2>5, <3>5
    <3>6. CASE R - 2 * empties >= 5 /\ L + 3 < Lines!U16
      <4>1. /\ ~(R - 2 * empties < 5) /\ ~(2 + (L + 1) >= Lines!U16)
            /\ Lines!complete(R - 2 * empties, L + 1) <=> R - 2 * empties >= L + 3
        BY Zenon, <2>7, <3>1, <3>2, <3>3, <3>6
      <4>2. CASE R - 2 * empties >= L + 3
        <5>1. k - 2 * empties >= L + 3
          BY Zenon, <3>1, <4>2
        <5>2. ~(2 + (L + 1) > Len(frame)) /\ read = m
          BY Zenon, <3>3, <3>4, <5>1
        <5>3. Lines!decode(src, checked) = m
          BY Zenon, <2>5, <4>1, <4>2, <5>2
        <5> QED
          BY Zenon, <1>d, <3>6, <4>1, <4>2, <5>3
      <4>3. CASE ~(R - 2 * empties >= L + 3)
        BY Zenon, <1>d, <2>5, <3>6, <4>1, <4>3
      <4> QED
        BY Zenon, <4>2, <4>3
    <3>7. CASE R - 2 * empties >= 5 /\ ~(L + 3 < Lines!U16)
      <4>1. /\ ~(R - 2 * empties < 5) /\ 2 + (L + 1) >= Lines!U16
            /\ Lines!complete(R - 2 * empties, L + 1)
        BY Zenon, <2>7, <3>1, <3>2, <3>3, <3>7
      <4>2. CASE checked
        BY Zenon, <1>d, <2>5, <3>7, <4>1, <4>2
      <4>3. CASE ~checked /\ k - 2 * empties >= L + 3
        BY Zenon, <1>d, <2>5, <3>1, <3>3, <3>4, <3>7, <4>1, <4>3
      <4>4. CASE ~checked /\ ~(k - 2 * empties >= L + 3)
        BY Zenon, <1>d, <2>5, <3>1, <3>3, <3>7, <4>1, <4>4
      <4> QED
        BY Zenon, <4>2, <4>3, <4>4
    <3> QED
      BY Zenon, <3>1, <3>5, <3>6, <3>7
  <2> QED
    BY Zenon, <1>r, <2>9 DEF src, m
<1>8. R < 2 * empties + 2 \/ R >= 2 * empties + 2
  OBVIOUS
<1> QED
  BY Zenon, <1>6, <1>7, <1>8

(* What decode makes of the first bytes of what was sent, wherever the end  *)
(* is, and what is sent of a payload that is one byte too long.             *)
LEMMA FrameDecoded ==
    ASSUME NEW tag \in Nat, NEW payload \in Seq(Nat), NEW next \in Seq(Nat), NEW empties \in Nat,
           NEW checked \in BOOLEAN
    PROVE  Lines!FirstDecoded(Lines!Message(tag, payload), next, empties, checked)
<1> DEFINE m == Lines!Message(tag, payload)
           F == Lines!encode(m, FALSE)
           flow == [i \in 1 .. 2 * empties |-> 0] \o F \o next
<1>1. m[3] = payload /\ m[2] = tag
  BY DEF Lines!Message
<1>2. ASSUME Len(payload) + 1 < Lines!U16
      PROVE  Lines!encode(m, TRUE) = IF Len(F) >= Lines!U16 THEN Lines!Panic ELSE F
  BY Zenon, <1>2, FrameIs
<1>3. ASSUME Len(payload) + 1 < Lines!U16, NEW k \in 0 .. Len(flow)
      PROVE  Lines!decode(SubSeq(flow, 1, k), checked) =
               Lines!Decoded(m, F, checked, (k % Lines!U16) - 2 * empties, k - 2 * empties)
  <2>1. PICK f \in Seq(Nat) : f = F /\ MessageFrame(f, tag, payload)
    BY Zenon, <1>3, FrameIs DEF MessageFrame
  <2>2. PICK z \in Seq(Nat) :
          /\ z = [i \in 1 .. 2 * empties |-> 0] /\ Len(z) = 2 * empties
          /\ \A i \in 1 .. 2 * empties : z[i] = 0
    <3>1. PICK Z : Z = [i \in 1 .. 2 * empties |-> 0]
      OBVIOUS
    <3>2. Z \in Seq(Nat) /\ Len(Z) = 2 * empties /\ \A i \in 1 .. 2 * empties : Z[i] = 0
      <4>1. 2 * empties \in Nat
        OBVIOUS
      <4> QED
        BY <3>1, <4>1
    <3> QED
      BY Zenon, <3>1, <3>2
  <2>3. PICK sent \in Seq(Nat) :
          /\ sent = z \o f \o next
          /\ Len(sent) = Len(z) + Len(f) + Len(next)
          /\ \A i \in 1 .. Len(z) : sent[i] = z[i]
          /\ \A i \in 1 .. Len(f) : sent[Len(z) + i] = f[i]
    <3>1. PICK both \in Seq(Nat) : both = z \o f
      <4>1. z \o f \in Seq(Nat)
        OBVIOUS
      <4> QED
        BY Zenon, <4>1
    <3>2. PICK all \in Seq(Nat) : all = both \o next
      <4>1. both \o next \in Seq(Nat)
        OBVIOUS
      <4> QED
        BY Zenon, <4>1
    <3>3. Len(all) = Len(z) + Len(f) + Len(next)
      BY <3>1, <3>2
    <3>4. ASSUME NEW i \in 1 .. Len(z) PROVE all[i] = z[i]
      BY <3>1, <3>2
    <3>5. ASSUME NEW i \in 1 .. Len(f) PROVE all[Len(z) + i] = f[i]
      BY <3>1, <3>2
    <3> QED
      BY Zenon, <3>1, <3>2, <3>3, <3>4, <3>5
  <2>4. flow = sent
    BY Zenon, <2>1, <2>2, <2>3
  <2> HIDE DEF flow, F, m
  <2>5. k \in Nat /\ k <= Len(sent) /\ 2 * empties + Len(f) <= Len(sent)
    <3>1. k \in 0 .. Len(sent)
      BY Zenon, <1>3, <2>4
    <3>2. Len(sent) = 2 * empties + Len(f) + Len(next) /\ Len(f) \in Nat /\ Len(next) \in Nat
      BY <2>2, <2>3
    <3> QED
      BY <3>1, <3>2
  <2>6. Lines!decode(SubSeq(sent, 1, k), checked) =
          Lines!Decoded(Lines!Message(tag, payload), f, checked, (k % Lines!U16) - 2 * empties,
                        k - 2 * empties)
    <3>1. Following(sent, empties, f)
      <4>1. ASSUME NEW i \in 1 .. 2 * empties PROVE sent[i] = 0
        BY Zenon, <2>2, <2>3
      <4>2. ASSUME NEW i \in 1 .. Len(f) PROVE sent[2 * empties + i] = f[i]
        <5>1. Len(z) = 2 * empties
          BY Zenon, <2>2
        <5>2. sent[Len(z) + i] = f[i]
          BY Zenon, <2>3
        <5> QED
          BY Zenon, <5>1, <5>2
      <4> QED
        BY Zenon, <2>5, <4>1, <4>2 DEF Following
    <3>2. MessageFrame(f, tag, payload) /\ k \in Nat /\ k <= Len(sent)
      BY Zenon, <2>1, <2>5
    <3> QED
      BY <1>3, <3>1, <3>2, FrameCut
  <2> QED
    BY Zenon, <2>1, <2>4, <2>6 DEF m
<1>4. ASSUME Len(payload) + 1 = Lines!U16
      PROVE  Lines!encode(m, TRUE) = Lines!Panic /\ SubSeq(F, 1, 2) = <<0, 0>>
  <2>1. /\ Len(payload) \in Nat /\ Len(payload) < Lines!U16 /\ Len(payload) + 3 >= Lines!U16
        /\ Lines!U16 \in Nat
    BY <1>4, TwoBytes
  <2>2. Len(payload) % Lines!U16 = Len(payload)
    BY Zenon, <2>1, TwoBytes
  <2>3. Lines!to_be_bytes(Lines!U16) = <<0, 0>>
    <3>1. Base \in Nat /\ Base > 0
      BY SMT, FramesAssumption
    <3>2. (Base * Base) \div Base = Base /\ Base % Base = 0 /\ (Base * Base) % Base = 0
      BY SMT, <3>1
    <3> QED
      BY Zenon, <3>2 DEF Lines!to_be_bytes, Lines!U16
  <2> HIDE DEF m
  <2>4. /\ Lines!encode(m, TRUE) = Lines!Panic
        /\ Lines!encode(m, FALSE) = Lines!to_be_bytes(Len(payload) + 1) \o <<tag>> \o payload
    BY Zenon, <1>1, <2>1, <2>2 DEF Lines!encode
  <2>5. F = <<0, 0>> \o <<tag>> \o payload
    BY Zenon, <1>4, <2>3, <2>4
  <2>6. SubSeq(<<0, 0>> \o <<tag>> \o payload, 1, 2) = <<0, 0>>
    <3>1. PICK head \in Seq(Nat) :
            head = <<0, 0>> \o <<tag>> /\ Len(head) = 3 /\ head[1] = 0 /\ head[2] = 0
      <4>1. /\ <<0, 0>> \o <<tag>> \in Seq(Nat) /\ Len(<<0, 0>> \o <<tag>>) = 3
            /\ (<<0, 0>> \o <<tag>>)[1] = 0 /\ (<<0, 0>> \o <<tag>>)[2] = 0
        OBVIOUS
      <4> QED
        BY Zenon, <4>1
    <3>2. PICK s \in Seq(Nat) :
            s = <<0, 0>> \o <<tag>> \o payload /\ 2 <= Len(s) /\ s[1] = 0 /\ s[2] = 0
      <4>1. PICK t \in Seq(Nat) : t = head \o payload
        <5>1. head \o payload \in Seq(Nat)
          OBVIOUS
        <5> QED
          BY Zenon, <5>1
      <4>2. 2 <= Len(t) /\ t[1] = head[1] /\ t[2] = head[2]
        BY <3>1, <4>1
      <4> QED
        BY Zenon, <3>1, <4>1, <4>2
    <3>3. PICK t \in Seq(Nat) : t = SubSeq(s, 1, 2) /\ Len(t) = 2 /\ t[1] = 0 /\ t[2] = 0
      <4>1. 1 \in 1 .. 2 /\ 2 \in 1 .. 2 /\ 2 \in Nat
        OBVIOUS
      <4>2. SubSeq(s, 1, 2) \in Seq(Nat) /\ Len(SubSeq(s, 1, 2)) = 2
            /\ \A i \in 1 .. 2 : SubSeq(s, 1, 2)[i] = s[i]
        BY Zenon, <3>2, <4>1, NumbersHead
      <4>3. SubSeq(s, 1, 2)[1] = 0 /\ SubSeq(s, 1, 2)[2] = 0
        BY Zenon, <3>2, <4>1, <4>2
      <4> QED
        BY Zenon, <4>2, <4>3
    <3>4. t = <<0, 0>>
      <4>1. PICK zeros \in Seq(Nat) :
              zeros = <<0, 0>> /\ Len(zeros) = 2 /\ zeros[1] = 0 /\ zeros[2] = 0
        <5>1. /\ <<0, 0>> \in Seq(Nat) /\ Len(<<0, 0>>) = 2
              /\ <<0, 0>>[1] = 0 /\ <<0, 0>>[2] = 0
          OBVIOUS
        <5> QED
          BY Zenon, <5>1
      <4>2. Len(t) = Len(zeros) /\ \A i \in 1 .. Len(t) : t[i] = zeros[i]
        <5>1. \A i \in 1 .. 2 : i = 1 \/ i = 2
          OBVIOUS
        <5> QED
          BY Zenon, <3>3, <4>1, <5>1
      <4> QED
        BY <4>1, <4>2, SeqEqual
    <3> QED
      BY Zenon, <3>2, <3>3, <3>4
  <2> QED
    BY Zenon, <2>4, <2>5, <2>6
<1> HIDE DEF m
<1> QED
  BY Zenon, <1>1, <1>2, <1>3, <1>4 DEF Lines!FirstDecoded, m
-----------------------------------------------------------------------------
(* One sequence of numbers behind another.                                 *)
Joined(u, s, t) ==
    /\ Len(u) = Len(s) + Len(t)
    /\ \A i \in 1 .. Len(s) : u[i] = s[i]
    /\ \A i \in 1 .. Len(t) : u[Len(s) + i] = t[i]

LEMMA JoinIs ==
    \A s, t \in Seq(Nat) : s \o t \in Seq(Nat) /\ Joined(s \o t, s, t)
<1>1. SUFFICES ASSUME NEW s \in Seq(Nat), NEW t \in Seq(Nat)
               PROVE  s \o t \in Seq(Nat) /\ Joined(s \o t, s, t)
  OBVIOUS
<1>2. s \o t \in Seq(Nat) /\ Len(s \o t) = Len(s) + Len(t)
  OBVIOUS
<1>3. ASSUME NEW i \in 1 .. Len(s) PROVE (s \o t)[i] = s[i]
  OBVIOUS
<1>4. ASSUME NEW i \in 1 .. Len(t) PROVE (s \o t)[Len(s) + i] = t[i]
  OBVIOUS
<1> QED
  BY Zenon, <1>2, <1>3, <1>4 DEF Joined

LEMMA BytesAreNumbers == Seq(Lines!Byte) \subseteq Seq(Nat)
<1>1. Lines!Byte \subseteq Nat
  BY DEF Lines!Byte
<1>2. ASSUME NEW s \in Seq(Lines!Byte) PROVE s \in Seq(Nat)
  <2>1. ASSUME NEW i \in 1 .. Len(s) PROVE s[i] \in Nat
    BY Zenon, <1>1, ElementOfSeq
  <2>2. Len(s) \in Nat /\ s = [i \in 1 .. Len(s) |-> s[i]]
    OBVIOUS
  <2> QED
    BY <2>1, <2>2
<1> QED
  BY <1>2

(* WebSocket frames.                                                       *)
LEMMA XorBack ==
    ASSUME NEW of \in Seq(Lines!Byte), NEW mask \in Seq(Lines!Byte), Len(mask) = 4
    PROVE  /\ Lines!xor(of, mask) \in Seq(Lines!Byte) /\ Len(Lines!xor(of, mask)) = Len(of)
           /\ Lines!xor(Lines!xor(of, mask), mask) = of
<1> DEFINE k(i) == 1 + ((i - 1) % 4)
           L == Len(of)
<1>1. L \in Nat /\ DOMAIN of = 1 .. L
  OBVIOUS
<1>2. ASSUME NEW i \in 1 .. L PROVE k(i) \in 1 .. 4
  <2>1. (i - 1) % 4 \in 0 .. 3
    BY SMT
  <2> QED
    BY <2>1
<1> HIDE DEF k
<1>3. ASSUME NEW i \in 1 .. L
      PROVE  /\ XOR[of[i]][mask[k(i)]] \in Lines!Byte
             /\ XOR[XOR[of[i]][mask[k(i)]]][mask[k(i)]] = of[i]
  <2>1. of[i] \in Lines!Byte
    BY <1>1
  <2>2. ASSUME NEW j \in 1 .. 4 PROVE mask[j] \in Lines!Byte
    BY ElementOfSeq
  <2> QED
    BY Zenon, <1>2, <2>1, <2>2, XorAssumption
<1>4. PICK x : x = [i \in 1 .. L |-> XOR[of[i]][mask[k(i)]]]
  OBVIOUS
<1>5. x = Lines!xor(of, mask)
  BY Zenon, <1>1, <1>4 DEF Lines!xor, k
<1>6. x \in Seq(Lines!Byte) /\ Len(x) = L /\ \A i \in 1 .. L : x[i] = XOR[of[i]][mask[k(i)]]
  BY <1>1, <1>3, <1>4
<1>7. PICK y : y = [i \in 1 .. L |-> XOR[x[i]][mask[k(i)]]]
  OBVIOUS
<1>8. y = Lines!xor(x, mask)
  <2>1. DOMAIN x = 1 .. L
    BY <1>6
  <2> QED
    BY Zenon, <2>1, <1>7 DEF Lines!xor, k
<1>9. y = of
  <2>1. ASSUME NEW i \in 1 .. L PROVE y[i] = of[i]
    BY Zenon, <1>3, <1>6, <1>7
  <2>2. y = [i \in 1 .. L |-> of[i]]
    BY Zenon, <1>7, <2>1
  <2>3. of = [i \in 1 .. L |-> of[i]]
    OBVIOUS
  <2> QED
    BY Zenon, <2>2, <2>3
<1> QED
  BY <1>5, <1>6, <1>8, <1>9

(* The length in the first bytes of a frame, and how many more there are   *)
(* for it.                                                                 *)
More(len) == IF len <= 125 THEN 0 ELSE IF len <= 65535 THEN 2 ELSE 8
Two(a, b) == a * 256 + b
Big(a, b, c, d, e, f, g, h) ==
    65536 * (65536 * (65536 * Two(a, b) + Two(c, d)) + Two(e, f)) + Two(g, h)

LengthIn(b, len) ==
    /\ Len(b) = 1 + More(len)
    /\ len <= 125 => b[1] = len
    /\ len > 125 /\ len <= 65535 => b[1] = 126 /\ Two(b[2], b[3]) = len
    /\ len > 65535 => b[1] = 127 /\ Big(b[2], b[3], b[4], b[5], b[6], b[7], b[8], b[9]) = len

LEMMA LengthIs ==
    ASSUME NEW len \in Length
    PROVE  \E b \in Seq(Nat) : b = Lines!length_bytes(len) /\ LengthIn(b, len)
<1>1. len \in Nat /\ len \div 16777216 < 256
  BY SMT DEF Length
<1>2. CASE len <= 125
  <2>1. PICK b \in Seq(Nat) : b = <<len>> /\ Len(b) = 1 /\ b[1] = len
    <3>1. <<len>> \in Seq(Nat) /\ Len(<<len>>) = 1 /\ <<len>>[1] = len
      BY SMT, <1>1, <1>2
    <3> QED
      BY Zenon, <3>1
  <2>2. b = Lines!length_bytes(len) /\ More(len) = 0
    BY SMT, <1>1, <1>2, <2>1 DEF Lines!length_bytes, More
  <2>3. LengthIn(b, len)
    BY SMT, <1>1, <1>2, <2>1, <2>2 DEF LengthIn
  <2> QED
    BY Zenon, <2>2, <2>3
<1>3. CASE len > 125 /\ len <= 65535
  <2>1. PICK h \in Nat, l \in Nat :
          h = len \div 256 /\ l = len % 256 /\ h < 256 /\ l < 256 /\ len = h * 256 + l
    <3>1. /\ len \div 256 \in Nat /\ len % 256 \in Nat /\ len \div 256 < 256 /\ len % 256 < 256
          /\ len = (len \div 256) * 256 + (len % 256)
      BY SMT, <1>1, <1>3
    <3> QED
      BY SMT, <3>1
  <2>2. PICK b \in Seq(Nat) :
          b = <<126, h, l>> /\ Len(b) = 3 /\ b[1] = 126 /\ b[2] = h /\ b[3] = l
    <3>1. /\ <<126, h, l>> \in Seq(Nat) /\ Len(<<126, h, l>>) = 3
          /\ <<126, h, l>>[1] = 126 /\ <<126, h, l>>[2] = h /\ <<126, h, l>>[3] = l
      BY SMT, <2>1
    <3> QED
      BY Zenon, <3>1
  <2>3. b = Lines!length_bytes(len) /\ More(len) = 2
    BY SMT, <1>1, <1>3, <2>1, <2>2 DEF Lines!length_bytes, More
  <2>4. ~(len <= 125) /\ ~(len > 65535)
    BY SMT, <1>1, <1>3
  <2>5. LengthIn(b, len)
    BY SMT, <2>1, <2>2, <2>3, <2>4 DEF LengthIn, Two
  <2> QED
    BY Zenon, <2>3, <2>5
<1>4. CASE len > 65535
  <2>1. PICK e \in Nat, f \in Nat, g \in Nat, h \in Nat :
          /\ e = len \div 16777216 /\ f = (len \div 65536) % 256
          /\ g = (len \div 256) % 256 /\ h = len % 256
          /\ e < 256 /\ f < 256 /\ g < 256 /\ h < 256
          /\ len = 65536 * (e * 256 + f) + (g * 256 + h)
    <3>1. PICK q \in Nat, r \in Nat :
            q = len \div 65536 /\ r = len % 65536 /\ r < 65536 /\ len = 65536 * q + r
      <4>1. len \div 65536 \in Nat /\ len % 65536 \in Nat /\ len % 65536 < 65536
            /\ len = 65536 * (len \div 65536) + (len % 65536)
        BY SMT, <1>1
      <4> QED
        BY SMT, <4>1
    <3>2. PICK e \in Nat, f \in Nat : e = q \div 256 /\ f = q % 256 /\ f < 256 /\ q = e * 256 + f
      <4>1. /\ q \div 256 \in Nat /\ q % 256 \in Nat
            /\ q % 256 < 256 /\ q = (q \div 256) * 256 + (q % 256)
        BY SMT
      <4> QED
        BY SMT, <4>1
    <3>3. PICK g \in Nat, h \in Nat :
            g = r \div 256 /\ h = r % 256 /\ g < 256 /\ h < 256 /\ r = g * 256 + h
      <4>1. /\ r \div 256 \in Nat /\ r % 256 \in Nat
            /\ r \div 256 < 256 /\ r % 256 < 256 /\ r = (r \div 256) * 256 + (r % 256)
        BY SMT, <3>1
      <4> QED
        BY SMT, <4>1
    <3>4. len = 16777216 * e + 65536 * f + r /\ 65536 * f + r < 16777216
      BY SMT, <3>1, <3>2
    <3>5. len \div 16777216 = e
      BY SMT, <1>1, <3>1, <3>2, <3>4
    <3>6. len = 256 * (256 * q + g) + h
      BY SMT, <3>1, <3>3
    <3>7. len \div 256 = 256 * q + g /\ len % 256 = h
      BY SMT, <3>3, <3>6
    <3>8. (256 * q + g) % 256 = g
      BY SMT, <3>3
    <3>9. len = 65536 * (e * 256 + f) + (g * 256 + h)
      BY SMT, <3>1, <3>2, <3>3
    <3>10. e < 256
      BY SMT, <1>1, <3>5
    <3>11. /\ e = len \div 16777216 /\ f = (len \div 65536) % 256
           /\ g = (len \div 256) % 256 /\ h = len % 256
      BY SMT, <3>1, <3>2, <3>5, <3>7, <3>8
    <3> QED
      BY SMT, <3>2, <3>3, <3>9, <3>10, <3>11
  <2>2. PICK b \in Seq(Nat) :
          /\ b = <<127, 0, 0, 0, 0, e, f, g, h>> /\ Len(b) = 9 /\ b[1] = 127 /\ b[2] = 0 /\ b[3] = 0
          /\ b[4] = 0 /\ b[5] = 0 /\ b[6] = e /\ b[7] = f /\ b[8] = g /\ b[9] = h
    <3> DEFINE t == <<127, 0, 0, 0, 0, e, f, g, h>>
    <3>1. /\ t \in Seq(Nat) /\ Len(t) = 9 /\ t[1] = 127 /\ t[2] = 0 /\ t[3] = 0
          /\ t[4] = 0 /\ t[5] = 0 /\ t[6] = e /\ t[7] = f /\ t[8] = g /\ t[9] = h
      BY SMT, <2>1
    <3> QED
      BY Zenon, <3>1
  <2>3. ~(len <= 125) /\ ~(len <= 65535)
    BY SMT, <1>1, <1>4
  <2>4. b = Lines!length_bytes(len) /\ More(len) = 8
    BY SMT, <2>1, <2>2, <2>3 DEF Lines!length_bytes, More
  <2>5. Big(b[2], b[3], b[4], b[5], b[6], b[7], b[8], b[9]) = len
    <3>1. Big(b[2], b[3], b[4], b[5], b[6], b[7], b[8], b[9]) = Big(0, 0, 0, 0, e, f, g, h)
      BY Zenon, <2>2
    <3> DEFINE n == 65536 * (e * 256 + f) + (g * 256 + h)
    <3>2. Big(0, 0, 0, 0, e, f, g, h) = n
      BY SMT DEF Big, Two
    <3>3. len = n
      BY SMT, <2>1
    <3> HIDE DEF n
    <3> QED
      BY Zenon, <3>1, <3>2, <3>3
  <2>6. Len(b) = 1 + More(len)
    BY SMT, <2>2, <2>4
  <2>7. LengthIn(b, len)
    BY SMT, <2>2, <2>3, <2>4, <2>5, <2>6 DEF LengthIn
  <2> QED
    BY Zenon, <2>4, <2>7
<1>5. len <= 125 \/ (len > 125 /\ len <= 65535) \/ len > 65535
  BY SMT, <1>1
<1> QED
  BY SMT, <1>2, <1>3, <1>4, <1>5
(* A frame of a client.                                                    *)
LengthAt(s, len) ==
    /\ len <= 125 => s[2] = 128 + len
    /\ len > 125 /\ len <= 65535 => s[2] = 254 /\ Two(s[3], s[4]) = len
    /\ len > 65535 => s[2] = 255 /\ Big(s[3], s[4], s[5], s[6], s[7], s[8], s[9], s[10]) = len
FrameOf(s, is_text, payload, mask) ==
    LET len == Len(payload)
        more == More(len)
    IN  /\ Len(s) = 6 + more + len /\ s[1] = 128 + (IF is_text THEN 1 ELSE 2)
        /\ LengthAt(s, len)
        /\ \A j \in 1 .. 4 : s[2 + more + j] = mask[j]
        /\ \A i \in 1 .. len : s[6 + more + i] = Lines!xor(payload, mask)[i]

LEMMA MaskedIs ==
    ASSUME NEW is_text \in BOOLEAN, NEW payload \in Seq(Lines!Byte), Len(payload) \in Length,
           NEW mask \in Seq(Lines!Byte), Len(mask) = 4
    PROVE  \E f \in Seq(Nat) :
             f = Lines!Masked(is_text, payload, mask) /\ FrameOf(f, is_text, payload, mask)
<1> DEFINE len == Len(payload)
           more == More(len)
           one == 128 + (IF is_text THEN 1 ELSE 2)
<1>1. len \in Nat /\ more \in Nat
  BY SMT DEF More
<1>s. payload \in Seq(Nat) /\ mask \in Seq(Nat)
  BY Zenon, BytesAreNumbers
<1>2. PICK b \in Seq(Nat) : b = Lines!length_bytes(len) /\ LengthIn(b, len)
  BY Zenon, LengthIs
<1> HIDE DEF more
<1>3. Len(b) = 1 + more /\ b[1] \in Nat /\ b[1] <= 127
  <2>1. b[1] \in Nat
    BY SMT, <1>1, <1>2 DEF LengthIn, more
  <2>2. len <= 125 \/ (len > 125 /\ len <= 65535) \/ len > 65535
    BY SMT, <1>1
  <2>3. (len <= 125 => b[1] = len) /\ (len > 125 /\ len <= 65535 => b[1] = 126)
        /\ (len > 65535 => b[1] = 127) /\ Len(b) = 1 + more
    BY SMT, <1>2 DEF LengthIn, more
  <2>4. b[1] <= 127
    BY SMT, <1>1, <2>2, <2>3
  <2>5. Len(b) = 1 + more
    BY SMT, <2>3
  <2> QED
    BY Zenon, <2>1, <2>4, <2>5
<1>4. PICK w \in Seq(Nat) :
        /\ w = Lines!ws_encode(is_text, payload) /\ Len(w) = 2 + more + len
        /\ w[1] = one /\ \A i \in 1 .. 1 + more : w[1 + i] = b[i]
  <2>1. PICK o \in Seq(Nat) : o = <<one>> /\ Len(o) = 1 /\ o[1] = one
    <3>1. <<one>> \in Seq(Nat) /\ Len(<<one>>) = 1 /\ <<one>>[1] = one
      BY SMT
    <3> HIDE DEF one
    <3> QED
      BY Zenon, <3>1
  <2> HIDE DEF one
  <2>a. PICK ob \in Seq(Nat) :
          ob = o \o b /\ Joined(ob, o, b)
    BY Zenon, <1>s, JoinIs
  <2>2. PICK w \in Seq(Nat) :
          w = ob \o payload /\ Joined(w, ob, payload)
    BY Zenon, <1>s, JoinIs
  <2>3. Len(w) = 2 + more + len
    <3>1. Len(ob) = Len(o) + Len(b) /\ Len(w) = Len(ob) + len
      BY Zenon, <2>a, <2>2 DEF Joined
    <3> QED
      BY <1>1, <1>3, <2>1, <3>1
  <2>4. w[1] = one
    BY <1>1, <1>3, <2>1, <2>a, <2>2 DEF Joined
  <2>5. ASSUME NEW i \in 1 .. 1 + more PROVE w[1 + i] = b[i]
    <3>1. 1 + i \in 1 .. Len(ob) /\ i \in 1 .. Len(b)
      BY <1>1, <1>3, <2>1, <2>a DEF Joined
    <3> QED
      BY Zenon, <2>1, <2>a, <2>2, <3>1 DEF Joined
  <2>6. w = Lines!ws_encode(is_text, payload)
    BY Zenon, <1>2, <2>1, <2>a, <2>2 DEF Lines!ws_encode, one
  <2> QED
    BY <2>3, <2>4, <2>5, <2>6
<1> HIDE DEF one
<1>5. PICK v \in Seq(Nat) :
        /\ v = [w EXCEPT ![2] = @ + 128] /\ Len(v) = 2 + more + len
        /\ v[1] = one /\ v[2] = b[1] + 128 /\ \A i \in 2 .. 1 + more : v[1 + i] = b[i]
  <2> DEFINE v == [w EXCEPT ![2] = @ + 128]
  <2>1. 2 \in 1 .. Len(w) /\ w[2] = b[1] /\ b[1] + 128 \in Nat
    <3>1. 1 \in 1 .. 1 + more
      BY <1>1
    <3>2. w[1 + 1] = b[1]
      BY Zenon, <1>4, <3>1
    <3> QED
      <4>1. w[2] = b[1]
        BY SMT, <3>2
      <4>2. 2 \in 1 .. Len(w)
        BY SMT, <1>1, <1>4
      <4>3. b[1] + 128 \in Nat
        BY SMT, <1>3
      <4> QED
        BY Zenon, <4>1, <4>2, <4>3
  <2>2. v \in Seq(Nat) /\ Len(v) = Len(w)
    BY <2>1
  <2>3. v[2] = b[1] + 128 /\ v[1] = w[1]
    BY <1>4, <1>1, <2>1
  <2>4. ASSUME NEW i \in 2 .. 1 + more PROVE v[1 + i] = b[i]
    <3>1. 1 + i \in 1 .. Len(w) /\ 1 + i # 2 /\ i \in 1 .. 1 + more
      <4>1. Len(w) = 2 + more + len
        BY Zenon, <1>4
      <4> QED
        BY <1>1, <4>1
    <3> QED
      BY <1>4, <3>1
  <2> HIDE DEF v
  <2>5. /\ v \in Seq(Nat) /\ Len(v) = 2 + more + len
        /\ v[1] = one /\ v[2] = b[1] + 128 /\ \A i \in 2 .. 1 + more : v[1 + i] = b[i]
    BY Zenon, <1>4, <2>2, <2>3, <2>4
  <2> QED
    BY Zenon, <2>5 DEF v
<1>6. PICK head \in Seq(Nat) :
        /\ head = SubSeq(v, 1, Len(v) - len) /\ Len(head) = 2 + more
        /\ \A i \in 1 .. 2 + more : head[i] = v[i]
  <2>1. Len(v) - len = 2 + more
    <3>1. Len(v) = 2 + more + len
      BY Zenon, <1>5
    <3> QED
      BY <1>1, <3>1
  <2>2. /\ SubSeq(v, 1, 2 + more) \in Seq(Nat) /\ Len(SubSeq(v, 1, 2 + more)) = 2 + more
        /\ \A i \in 1 .. 2 + more : SubSeq(v, 1, 2 + more)[i] = v[i]
    <3>1. v \in Seq(Nat) /\ Len(v) = 2 + more + len
      BY Zenon, <1>5
    <3>2. 2 + more \in Nat /\ 2 + more <= Len(v)
      BY <1>1, <3>1
    <3> QED
      BY Zenon, <3>1, <3>2, NumbersHead
  <2> QED
    BY Zenon, <2>1, <2>2
<1>7. PICK x \in Seq(Nat) : x = Lines!xor(payload, mask) /\ Len(x) = len
  <2>1. Lines!xor(payload, mask) \in Seq(Nat) /\ Len(Lines!xor(payload, mask)) = len
    BY Zenon, XorBack, BytesAreNumbers
  <2> QED
    BY Zenon, <2>1
<1>8. PICK hm \in Seq(Nat) :
        hm = head \o mask /\ Joined(hm, head, mask)
  BY Zenon, <1>s, JoinIs
<1>f. PICK f \in Seq(Nat) :
        f = hm \o x /\ Joined(f, hm, x)
  BY Zenon, <1>s, JoinIs
<1>9. f = Lines!Masked(is_text, payload, mask)
  BY Zenon, <1>4, <1>5, <1>6, <1>7, <1>8, <1>f DEF Lines!Masked
<1>l. Len(hm) = 6 + more /\ Len(head) = 2 + more
  <2>1. Len(hm) = Len(head) + Len(mask) /\ Len(head) = 2 + more
    BY Zenon, <1>6, <1>8 DEF Joined
  <2> QED
    BY <1>1, <2>1
<1>10. /\ Len(f) = 6 + more + len /\ \A i \in 1 .. 2 + more : f[i] = v[i]
       /\ \A j \in 1 .. 4 : f[2 + more + j] = mask[j]
       /\ \A i \in 1 .. len : f[6 + more + i] = x[i]
  <2>1. Len(f) = 6 + more + len
    BY <1>1, <1>7, <1>l, <1>f DEF Joined
  <2>2. ASSUME NEW i \in 1 .. 2 + more PROVE f[i] = v[i]
    <3>1. i \in 1 .. Len(hm) /\ i \in 1 .. Len(head)
      BY <1>1, <1>l
    <3> QED
      BY Zenon, <1>6, <1>8, <1>f, <3>1 DEF Joined
  <2>3. ASSUME NEW j \in 1 .. 4 PROVE f[2 + more + j] = mask[j]
    <3>1. 2 + more + j \in 1 .. Len(hm) /\ j \in 1 .. Len(mask)
      BY <1>1, <1>l
    <3>2. f[2 + more + j] = hm[2 + more + j]
      BY Zenon, <1>f, <3>1 DEF Joined
    <3>3. hm[Len(head) + j] = mask[j]
      BY Zenon, <1>8, <3>1 DEF Joined
    <3> QED
      BY Zenon, <1>l, <3>2, <3>3
  <2>4. ASSUME NEW i \in 1 .. len PROVE f[6 + more + i] = x[i]
    BY Zenon, <1>7, <1>l, <1>f DEF Joined
  <2> QED
    BY <2>1, <2>2, <2>3, <2>4
<1>11. f[1] = one /\ f[2] = b[1] + 128 /\ \A i \in 2 .. 1 + more : f[1 + i] = b[i]
  <2>1. f[1] = one /\ f[2] = b[1] + 128
    <3>1. 1 \in 1 .. 2 + more /\ 2 \in 1 .. 2 + more
      BY <1>1
    <3> QED
      BY Zenon, <1>5, <1>10, <3>1
  <2>2. ASSUME NEW i \in 2 .. 1 + more PROVE f[1 + i] = b[i]
    <3>1. 1 + i \in 1 .. 2 + more
      BY <1>1
    <3> QED
      BY Zenon, <1>5, <1>10, <3>1
  <2> QED
    BY <2>1, <2>2
<1>12. len <= 125 => f[2] = 128 + len
  BY SMT, <1>1, <1>2, <1>11 DEF LengthIn
<1>13. len > 125 /\ len <= 65535 => f[2] = 254 /\ Two(f[3], f[4]) = len
  <2>1. SUFFICES ASSUME len > 125, len <= 65535 PROVE f[2] = 254 /\ Two(f[3], f[4]) = len
    OBVIOUS
  <2>2. more = 2
    BY SMT, <1>1, <2>1 DEF more, More
  <2>3. b[1] = 126 /\ Two(b[2], b[3]) = len
    BY SMT, <1>2, <2>1 DEF LengthIn
  <2>4. f[1 + 2] = b[2] /\ f[1 + 3] = b[3]
    BY SMT, <1>11, <2>2
  <2>5. Two(f[3], f[4]) = Two(b[2], b[3])
    <3>1. f[3] = b[2] /\ f[4] = b[3]
      BY SMT, <2>4
    <3> QED
      BY Zenon, <3>1
  <2>6. f[2] = 254
    BY SMT, <1>11, <2>3
  <2> QED
    BY Zenon, <2>3, <2>5, <2>6
<1>14. len > 65535 => f[2] = 255 /\ Big(f[3], f[4], f[5], f[6], f[7], f[8], f[9], f[10]) = len
  <2>1. SUFFICES ASSUME len > 65535
        PROVE f[2] = 255 /\ Big(f[3], f[4], f[5], f[6], f[7], f[8], f[9], f[10]) = len
    OBVIOUS
  <2>2. more = 8
    BY SMT, <1>1, <2>1 DEF more, More
  <2>3. b[1] = 127 /\ Big(b[2], b[3], b[4], b[5], b[6], b[7], b[8], b[9]) = len
    BY SMT, <1>1, <1>2, <2>1 DEF LengthIn
  <2>4. ASSUME NEW i \in 2 .. 9 PROVE f[1 + i] = b[i]
    <3>1. i \in 2 .. 1 + more
      BY SMT, <2>2
    <3> QED
      BY Zenon, <1>11, <3>1
  <2>5. /\ f[3] = b[2] /\ f[4] = b[3] /\ f[5] = b[4] /\ f[6] = b[5]
        /\ f[7] = b[6] /\ f[8] = b[7] /\ f[9] = b[8] /\ f[10] = b[9]
    BY SMT, <2>4
  <2>6. Big(f[3], f[4], f[5], f[6], f[7], f[8], f[9], f[10])
        = Big(b[2], b[3], b[4], b[5], b[6], b[7], b[8], b[9])
    BY Zenon, <2>5
  <2>7. f[2] = 255
    BY SMT, <1>11, <2>3
  <2> QED
    BY Zenon, <2>3, <2>6, <2>7
<1>15. FrameOf(f, is_text, payload, mask)
  <2>1. f[1] = 128 + (IF is_text THEN 1 ELSE 2)
    BY Zenon, <1>11 DEF one
  <2>2. /\ Len(f) = 6 + More(len) + len
        /\ \A j \in 1 .. 4 : f[2 + More(len) + j] = mask[j]
        /\ \A i \in 1 .. len : f[6 + More(len) + i] = Lines!xor(payload, mask)[i]
    BY Zenon, <1>7, <1>10 DEF more
  <2> QED
    <3>1. LengthAt(f, len)
      BY SMT, <1>12, <1>13, <1>14 DEF LengthAt
    <3> QED
      BY Zenon, <2>1, <2>2, <3>1 DEF FrameOf
<1> QED
  BY Zenon, <1>9, <1>15
(* What decode_message makes of a frame of a client, and of the beginning  *)
(* of one.                                                                 *)
LEMMA ModIs ==
    \A n \in Nat : n <= 125 => (128 + n) % 128 = n /\ n # 126 /\ n # 127 /\ ~(128 + n < 128)
BY SMT

Name(is_text) == IF is_text THEN "Text" ELSE "Binary"

Agree(s, f) == \A i \in 1 .. Len(s) : i <= Len(f) => s[i] = f[i]
Reading(s, f, is_text, payload) ==
    /\ Len(s) < Len(f) => Lines!decode_message(s) = <<"error">>
    /\ Len(s) >= Len(f) =>
         Lines!decode_message(s) = <<Name(is_text), payload, Lines!Drop(s, Len(f))>>

LEMMA FrameRead ==
    ASSUME NEW is_text \in BOOLEAN, NEW payload \in Seq(Lines!Byte), Len(payload) \in Length,
           NEW mask \in Seq(Lines!Byte), Len(mask) = 4,
           NEW f \in Seq(Nat), FrameOf(f, is_text, payload, mask),
           NEW s \in Seq(Nat), Agree(s, f)
    PROVE  Reading(s, f, is_text, payload)
<1> DEFINE len == Len(payload)
           more == More(len)
<1>1. len \in Nat /\ more \in Nat
  BY SMT DEF More
<1>2. /\ Len(f) = 6 + more + len /\ f[1] = 128 + (IF is_text THEN 1 ELSE 2)
      /\ \A j \in 1 .. 4 : f[2 + more + j] = mask[j]
      /\ \A i \in 1 .. len : f[6 + more + i] = Lines!xor(payload, mask)[i]
      /\ LengthAt(f, len)
  BY Zenon DEF FrameOf
<1>a. /\ len \in Nat /\ more \in Nat /\ Len(f) = 6 + more + len
      /\ Len(f) \in Nat /\ Len(s) \in Nat
  <2>1. Len(f) \in Nat /\ Len(s) \in Nat
    OBVIOUS
  <2> QED
    BY Zenon, <1>1, <1>2, <2>1
<1>3. /\ len <= 125 => more = 0 /\ f[2] = 128 + len
      /\ len > 125 /\ len <= 65535 => more = 2 /\ f[2] = 254 /\ Two(f[3], f[4]) = len
      /\ len > 65535 =>
           more = 8 /\ f[2] = 255 /\ Big(f[3], f[4], f[5], f[6], f[7], f[8], f[9], f[10]) = len
  <2>1. LengthAt(f, len)
    BY Zenon, <1>2
  <2>2. /\ len <= 125 => more = 0
        /\ len > 125 /\ len <= 65535 => more = 2
        /\ len > 65535 => more = 8
    BY SMT DEF More
  <2> HIDE DEF more
  <2> QED
    BY SMT, <2>1, <2>2 DEF LengthAt
<1>4. len <= 125 \/ (len > 125 /\ len <= 65535) \/ len > 65535
  BY SMT, <1>1
<1> HIDE DEF more
<1>5. \/ more = 0 /\ f[2] = 128 + len /\ len <= 125
      \/ more = 2 /\ f[2] = 254 /\ Two(f[3], f[4]) = len
      \/ more = 8 /\ f[2] = 255 /\ Big(f[3], f[4], f[5], f[6], f[7], f[8], f[9], f[10]) = len
  BY SMT, <1>3, <1>4
<1>6. CASE Len(s) < 2
  <2>1. Len(s) < Len(f) /\ ~(Len(s) >= Len(f))
    BY <1>a, <1>6
  <2> QED
    BY Zenon, <1>6, <2>1 DEF Lines!decode_message, Reading
<1>7. CASE Len(s) >= 2
  <2>0. ASSUME NEW i \in Nat, 1 <= i, i <= Len(s), i <= Len(f) PROVE s[i] = f[i]
    <3>1. i \in 1 .. Len(s)
      BY <2>0
    <3> QED
      BY Zenon, <2>0, <3>1 DEF Agree
  <2>1. s[1] = f[1] /\ s[2] = f[2]
    <3>1. 1 <= Len(s) /\ 1 <= Len(f) /\ 2 <= Len(s) /\ 2 <= Len(f)
      BY <1>a, <1>7
    <3>2. 1 \in Nat /\ 2 \in Nat /\ 1 <= 1 /\ 1 <= 2
      OBVIOUS
    <3> QED
      BY Zenon, <2>0, <3>1, <3>2
  <2>2. Lines!len_buf(s) = more /\ ~(s[2] < 128)
    <3>1. CASE more = 0 /\ f[2] = 128 + len /\ len <= 125
      <4>1. (128 + len) % 128 = len /\ len # 126 /\ len # 127 /\ ~(128 + len < 128)
        BY Zenon, <1>1, <3>1, ModIs
      <4>2. s[2] % 128 # 126 /\ s[2] % 128 # 127 /\ ~(s[2] < 128)
        <5>1. s[2] = 128 + len
          BY Zenon, <2>1, <3>1
        <5>2. s[2] % 128 = len /\ ~(s[2] < 128)
          BY Zenon, <4>1, <5>1
        <5> QED
          BY Zenon, <4>1, <5>2
      <4> QED
        BY <3>1, <4>2 DEF Lines!len_buf
    <3>2. CASE more = 2 /\ f[2] = 254
      <4>1. f[2] % 128 = 126 /\ ~(f[2] < 128)
        BY SMT, <3>2
      <4> QED
        BY <2>1, <3>2, <4>1 DEF Lines!len_buf
    <3>3. CASE more = 8 /\ f[2] = 255
      <4>1. f[2] % 128 = 127 /\ ~(f[2] < 128)
        BY SMT, <3>3
      <4> QED
        BY <2>1, <3>3, <4>1 DEF Lines!len_buf
    <3> QED
      BY Zenon, <1>5, <3>1, <3>2, <3>3
  <2>3. CASE Len(s) < 6 + more
    <3>1. Len(s) < Len(f) /\ ~(Len(s) >= Len(f))
      BY <1>a, <2>3
    <3> QED
      BY Zenon, <2>2, <2>3, <3>1 DEF Lines!decode_message, Lines!payload_at, Reading
  <2>4. CASE Len(s) >= 6 + more
    <3>1. Lines!payload_length(s) = len
      <4>1. CASE more = 0 /\ f[2] = 128 + len /\ len <= 125
        <5>1. (128 + len) % 128 = len
          BY Zenon, <1>1, <4>1, ModIs
        <5>2. s[2] % 128 = len
          BY Zenon, <2>1, <4>1, <5>1
        <5> QED
          BY SMT, <2>2, <4>1, <5>2 DEF Lines!payload_length
      <4>2. CASE more = 2 /\ Two(f[3], f[4]) = len
        <5>1. s[3] = f[3] /\ s[4] = f[4]
          <6>1. 4 <= Len(s) /\ 4 <= Len(f)
            BY <1>a, <2>4, <4>2
          <6>2. ASSUME NEW i \in 3 .. 4 PROVE s[i] = f[i]
            <7>1. i \in Nat /\ 1 <= i /\ i <= Len(s) /\ i <= Len(f)
              BY <6>1
            <7> QED
              BY Zenon, <2>0, <7>1
          <6> QED
            BY <6>2
        <5>2. Two(s[3], s[4]) = len
          BY Zenon, <4>2, <5>1
        <5> QED
          BY SMT, <2>2, <4>2, <5>2 DEF Lines!payload_length, Two
      <4>3. CASE more = 8 /\ Big(f[3], f[4], f[5], f[6], f[7], f[8], f[9], f[10]) = len
        <5>1. /\ s[3] = f[3] /\ s[4] = f[4] /\ s[5] = f[5] /\ s[6] = f[6]
              /\ s[7] = f[7] /\ s[8] = f[8] /\ s[9] = f[9] /\ s[10] = f[10]
          <6>1. 10 <= Len(s) /\ 10 <= Len(f)
            BY <1>a, <2>4, <4>3
          <6>2. ASSUME NEW i \in 3 .. 10 PROVE s[i] = f[i]
            <7>1. i \in Nat /\ 1 <= i /\ i <= Len(s) /\ i <= Len(f)
              BY <6>1
            <7> QED
              BY Zenon, <2>0, <7>1
          <6> QED
            BY <6>2
        <5>2. Big(s[3], s[4], s[5], s[6], s[7], s[8], s[9], s[10]) = len
          BY Zenon, <4>3, <5>1
        <5> QED
          BY SMT, <2>2, <4>3, <5>2 DEF Lines!payload_length, Big, Two
      <4> QED
        BY Zenon, <1>5, <4>1, <4>2, <4>3
    <3>2. CASE Len(s) < Len(f)
      <4>1. ~(Len(s) >= Len(f)) /\ Len(s) < 6 + more + len
        BY <1>a, <3>2
      <4> QED
        BY Zenon, <2>2, <3>1, <3>2, <4>1
           DEF Lines!decode_message, Lines!next_at, Lines!payload_at, Reading
    <3>3. CASE Len(s) >= Len(f)
      <4>1. ~(Len(s) < Len(f)) /\ ~(Len(s) < 6 + more + len) /\ ~(Len(s) < 6 + more)
        BY <1>a, <3>3
      <4>2. s[1] % 16 = 1 <=> is_text
        <5>1. CASE is_text
          <6>1. s[1] = 129
            BY SMT, <1>2, <2>1, <5>1
          <6> QED
            BY SMT, <5>1, <6>1
        <5>2. CASE ~is_text
          <6>1. s[1] = 130
            BY SMT, <1>2, <2>1, <5>2
          <6> QED
            BY SMT, <5>2, <6>1
        <5> QED
          BY Zenon, <5>1, <5>2
      <4>3. Lines!opcode(s) = Name(is_text)
        BY Zenon, <4>2 DEF Name, Lines!opcode
      <4>4. SubSeq(s, (6 + more) - 3, 6 + more) = mask
        <5>1. PICK from \in Nat, to \in Nat : from = (6 + more) - 3 /\ to = 6 + more
          BY <1>1
        <5>2. PICK t \in Seq(Nat) :
                /\ t = SubSeq(s, from, to) /\ Len(t) = to - from + 1
                /\ \A i \in 1 .. to - from + 1 : t[i] = s[from + i - 1]
          <6>1. 1 <= from /\ from <= to + 1 /\ to <= Len(s)
            BY <1>1, <2>4, <5>1
          <6>2. /\ SubSeq(s, from, to) \in Seq(Nat) /\ Len(SubSeq(s, from, to)) = to - from + 1
                /\ \A i \in 1 .. to - from + 1 : SubSeq(s, from, to)[i] = s[from + i - 1]
            BY Zenon, <6>1, NumbersPart
          <6> QED
            BY Zenon, <6>2
        <5>l. to - from + 1 = 4
          BY <1>1, <5>1
        <5>3. ASSUME NEW i \in 1 .. 4 PROVE t[i] = mask[i]
          <6>1. from + i - 1 = 2 + more + i
            BY <1>1, <5>1
          <6>2. /\ 2 + more + i \in Nat /\ 1 <= 2 + more + i
                /\ 2 + more + i <= Len(s) /\ 2 + more + i <= Len(f)
            <7>1. 2 + more + i \in Nat /\ 1 <= 2 + more + i /\ 2 + more + i <= 6 + more
              BY <1>1
            <7>2. /\ 6 + more \in Nat /\ 6 + more <= Len(s)
                  /\ 6 + more <= Len(f) /\ Len(s) \in Nat /\ Len(f) \in Nat
              BY <1>a, <2>4
            <7> QED
              BY Zenon, <7>1, <7>2, Through
          <6>3. s[2 + more + i] = f[2 + more + i]
            BY Zenon, <2>0, <6>2
          <6> QED
            BY Zenon, <1>2, <5>2, <5>l, <6>1, <6>3
        <5>4. mask \in Seq(Nat)
          BY Zenon, BytesAreNumbers
        <5>5. t = mask
          <6>1. Len(t) = Len(mask) /\ \A i \in 1 .. Len(t) : t[i] = mask[i]
            BY Zenon, <5>2, <5>l, <5>3
          <6> QED
            BY <5>4, <6>1, SeqEqual
        <5> QED
          BY Zenon, <5>1, <5>2, <5>5
      <4>5. SubSeq(s, 6 + more + 1, 6 + more + len) = Lines!xor(payload, mask)
        <5>1. PICK from \in Nat, to \in Nat : from = 6 + more + 1 /\ to = 6 + more + len
          <6>1. 6 + more + 1 \in Nat /\ 6 + more + len \in Nat
            BY <1>1
          <6> QED
            BY Zenon, <6>1
        <5>2. PICK t \in Seq(Nat) :
                /\ t = SubSeq(s, from, to) /\ Len(t) = to - from + 1
                /\ \A i \in 1 .. to - from + 1 : t[i] = s[from + i - 1]
          <6>1. 1 <= from /\ from <= to + 1 /\ to <= Len(s)
            BY <1>1, <1>2, <3>3, <5>1
          <6>2. /\ SubSeq(s, from, to) \in Seq(Nat) /\ Len(SubSeq(s, from, to)) = to - from + 1
                /\ \A i \in 1 .. to - from + 1 : SubSeq(s, from, to)[i] = s[from + i - 1]
            BY <6>1, PartIs
          <6> QED
            BY Zenon, <6>2
        <5>l. to - from + 1 = len
          BY <1>1, <5>1
        <5>3. PICK x \in Seq(Nat) : x = Lines!xor(payload, mask) /\ Len(x) = len
          <6>1. Lines!xor(payload, mask) \in Seq(Nat) /\ Len(Lines!xor(payload, mask)) = len
            BY Zenon, XorBack, BytesAreNumbers
          <6> QED
            BY Zenon, <6>1
        <5>4. ASSUME NEW i \in 1 .. len PROVE t[i] = x[i]
          <6>1. from + i - 1 = 6 + more + i
            BY <1>1, <5>1
          <6>2. 6 + more + i \in 1 .. Len(s) /\ 6 + more + i <= Len(f)
            BY <1>a, <3>3
          <6>3. s[6 + more + i] = f[6 + more + i]
            <7>1. 6 + more + i \in Nat /\ 1 <= 6 + more + i /\ 6 + more + i <= Len(s)
              BY <1>1, <6>2
            <7> QED
              BY Zenon, <2>0, <6>2, <7>1
          <6> QED
            BY Zenon, <1>2, <5>2, <5>l, <5>3, <6>1, <6>3
        <5>5. t = x
          <6>1. Len(t) = Len(x) /\ \A i \in 1 .. Len(t) : t[i] = x[i]
            BY Zenon, <5>2, <5>l, <5>3, <5>4
          <6> QED
            BY <6>1, SeqEqual
        <5> QED
          BY Zenon, <5>1, <5>2, <5>3, <5>5
      <4>6. Lines!xor(Lines!xor(payload, mask), mask) = payload
        BY Zenon, XorBack
      <4>7. Lines!payload_at(s) = 6 + more /\ Lines!next_at(s) = 6 + more + len
        BY Zenon, <2>2, <3>1 DEF Lines!payload_at, Lines!next_at
      <4>8. Lines!payload_data(s) = payload
        <5>1. SubSeq(s, Lines!payload_at(s) + 1, Lines!next_at(s)) = Lines!xor(payload, mask)
          BY Zenon, <4>5, <4>7
        <5>2. SubSeq(s, Lines!payload_at(s) - 3, Lines!payload_at(s)) = mask
          BY Zenon, <4>4, <4>7
        <5> QED
          BY Zenon, <4>6, <5>1, <5>2 DEF Lines!payload_data
      <4>9. ~(Len(s) < 2 \/ s[2] < 128 \/ Len(s) < Lines!payload_at(s) \/ Len(s) < Lines!next_at(s))
        <5>1. ~(Len(s) < 2)
          BY <1>7
        <5> QED
          BY Zenon, <2>2, <4>1, <4>7, <5>1
      <4>10. Lines!decode_message(s) =
              <<Lines!opcode(s), Lines!payload_data(s), Lines!Drop(s, Lines!next_at(s))>>
        BY Zenon, <4>9 DEF Lines!decode_message
      <4> QED
        BY Zenon, <1>2, <4>1, <4>3, <4>7, <4>8, <4>10 DEF Reading
    <3> QED
      BY <1>1, <1>2, <3>2, <3>3
  <2> QED
    BY <1>1, <2>3, <2>4
<1> QED
  BY <1>6, <1>7
(* What is left over by decode_message is shorter, so there is a function  *)
(* that says what is printed behind each position.                         *)
LEMMA MessageTakes ==
    ASSUME NEW s \in Seq(Nat), Lines!decode_message(s) # <<"error">>
    PROVE  \E k \in Nat :
             /\ k >= 6 /\ k <= Len(s) /\ Len(s) - k \in Nat
             /\ Lines!decode_message(s)[3] = Lines!Drop(s, k) /\ Len(Lines!Drop(s, k)) = Len(s) - k
<1>1. /\ ~(Len(s) < 2 \/ s[2] < 128 \/ Len(s) < Lines!payload_at(s) \/ Len(s) < Lines!next_at(s))
      /\ Lines!decode_message(s) =
           <<Lines!opcode(s), Lines!payload_data(s), Lines!Drop(s, Lines!next_at(s))>>
  BY Zenon DEF Lines!decode_message
<1>2. Lines!len_buf(s) \in {0, 2, 8}
  BY Zenon DEF Lines!len_buf
<1>3. Lines!payload_at(s) = 6 + Lines!len_buf(s)
  BY Zenon DEF Lines!payload_at
<1>4. Lines!payload_length(s) \in Nat
  <2>1. Len(s) \in Nat /\ Len(s) >= 6 + Lines!len_buf(s)
    BY <1>1, <1>2, <1>3
  <2>2. CASE Lines!len_buf(s) = 0
    <3>1. s[2] \in Nat
      BY <2>1, <2>2
    <3>2. s[2] % 128 \in Nat
      BY SMT, <3>1
    <3> QED
      BY <2>2, <3>2 DEF Lines!payload_length
  <2>3. CASE Lines!len_buf(s) = 2
    <3>1. s[3] \in Nat /\ s[4] \in Nat
      BY <2>1, <2>3
    <3>2. Two(s[3], s[4]) \in Nat
      BY SMT, <3>1 DEF Two
    <3>3. Lines!payload_length(s) = Two(s[3], s[4])
      BY SMT, <2>3 DEF Lines!payload_length, Two
    <3> QED
      BY <3>2, <3>3
  <2>4. CASE Lines!len_buf(s) = 8
    <3>1. /\ s[3] \in Nat /\ s[4] \in Nat /\ s[5] \in Nat /\ s[6] \in Nat
          /\ s[7] \in Nat /\ s[8] \in Nat /\ s[9] \in Nat /\ s[10] \in Nat
      <4>1. ASSUME NEW i \in 3 .. 10 PROVE s[i] \in Nat
        <5>1. i \in 1 .. Len(s)
          BY <2>1, <2>4
        <5> QED
          BY <5>1, ElementOfSeq
      <4> QED
        BY <4>1
    <3>2. Big(s[3], s[4], s[5], s[6], s[7], s[8], s[9], s[10]) \in Nat
      <4>1. \A a, b, c, d, e, f, g, h \in Nat : Big(a, b, c, d, e, f, g, h) \in Nat
        BY SMT DEF Big, Two
      <4> QED
        BY Zenon, <3>1, <4>1
    <3>3. Lines!payload_length(s) = Big(s[3], s[4], s[5], s[6], s[7], s[8], s[9], s[10])
      BY SMT, <2>4 DEF Lines!payload_length, Big, Two
    <3> QED
      BY Zenon, <3>2, <3>3
  <2> QED
    BY <1>2, <2>2, <2>3, <2>4
<1>5. PICK k \in Nat : k = Lines!next_at(s) /\ k >= 6 /\ k <= Len(s)
  <2>1. Lines!next_at(s) \in Nat /\ Lines!next_at(s) >= 6
    BY <1>2, <1>3, <1>4 DEF Lines!next_at
  <2>2. Lines!next_at(s) <= Len(s)
    BY <1>1, <2>1
  <2> QED
    BY Zenon, <2>1, <2>2
<1>6. Lines!decode_message(s)[3] = Lines!Drop(s, k)
  BY <1>1, <1>5
<1>7. Len(s) - k \in Nat /\ Len(Lines!Drop(s, k)) = Len(s) - k
  BY <1>5 DEF Lines!Drop
<1> QED
  BY Zenon, <1>5, <1>6, <1>7

DropIs == \A s \in Seq(Nat) : \A k \in 0 .. Len(s) :
    /\ Lines!Drop(s, k) \in Seq(Nat) /\ Len(Lines!Drop(s, k)) = Len(s) - k
    /\ \A i \in 1 .. Len(s) - k : Lines!Drop(s, k)[i] = s[k + i]

LEMMA Dropped == DropIs
<1>1. SUFFICES ASSUME NEW s \in Seq(Nat), NEW k \in 0 .. Len(s)
               PROVE  /\ Lines!Drop(s, k) \in Seq(Nat) /\ Len(Lines!Drop(s, k)) = Len(s) - k
                      /\ \A i \in 1 .. Len(s) - k : Lines!Drop(s, k)[i] = s[k + i]
  BY Zenon DEF DropIs
<1>2. PICK from \in Nat, to \in Nat : from = k + 1 /\ to = Len(s) /\ 1 <= from /\ from <= to + 1
  OBVIOUS
<1>3. /\ SubSeq(s, from, to) \in Seq(Nat) /\ Len(SubSeq(s, from, to)) = to - from + 1
      /\ \A i \in 1 .. to - from + 1 : SubSeq(s, from, to)[i] = s[from + i - 1]
  <2>1. to <= Len(s)
    BY <1>2
  <2> QED
    BY <1>2, <2>1, PartIs
<1>4. to - from + 1 = Len(s) - k /\ Lines!Drop(s, k) = SubSeq(s, from, to)
  BY <1>2 DEF Lines!Drop
<1>5. ASSUME NEW i \in 1 .. Len(s) - k PROVE from + i - 1 = k + i
  BY <1>2
<1> QED
  BY Zenon, <1>3, <1>4, <1>5

PrintedBehind(s, k, f) ==
    LET m == Lines!decode_message(Lines!Drop(s, k))
    IN  IF m = <<"error">> THEN <<>> ELSE <<<<m[1], m[2]>>>> \o f[Len(s) - Len(m[3])]
Behind(s, l, f) == \A k \in l .. Len(s) : f[k] = PrintedBehind(s, k, f)

LEMMA BehindAlike ==
    ASSUME NEW s \in Seq(Nat), NEW k \in 0 .. Len(s), NEW f, NEW g,
           \A r \in k + 1 .. Len(s) : f[r] = g[r]
    PROVE  PrintedBehind(s, k, f) = PrintedBehind(s, k, g)
<1> DEFINE m == Lines!decode_message(Lines!Drop(s, k))
<1>1. CASE m = <<"error">>
  BY Zenon, <1>1 DEF PrintedBehind
<1>2. CASE m # <<"error">>
  <2>1. Lines!Drop(s, k) \in Seq(Nat) /\ Len(Lines!Drop(s, k)) = Len(s) - k
    BY Zenon, Dropped DEF DropIs
  <2>2. PICK j \in Nat : /\ j >= 6 /\ j <= Len(s) - k
                         /\ Len(m[3]) = Len(s) - k - j
    <3>1. PICK j \in Nat :
            /\ j >= 6 /\ j <= Len(Lines!Drop(s, k))
            /\ m[3] = Lines!Drop(Lines!Drop(s, k), j)
            /\ Len(Lines!Drop(Lines!Drop(s, k), j)) = Len(Lines!Drop(s, k)) - j
      BY Zenon, <1>2, <2>1, MessageTakes
    <3> QED
      BY Zenon, <2>1, <3>1
  <2>3. Len(s) - Len(m[3]) \in k + 1 .. Len(s)
    <3> HIDE DEF m
    <3>1. Len(s) \in Nat /\ Len(s) - (Len(s) - k - j) = k + j
      OBVIOUS
    <3>2. Len(s) - Len(m[3]) = k + j
      BY Zenon, <2>2, <3>1
    <3>3. k + j \in k + 1 .. Len(s)
      BY <2>2, <3>1
    <3> QED
      BY Zenon, <3>2, <3>3
  <2> QED
    BY Zenon, <1>2, <2>3 DEF PrintedBehind
<1> QED
  BY Zenon, <1>1, <1>2

LEMMA Handled ==
    ASSUME NEW s \in Seq(Nat)
    PROVE  \E f : Lines!handle_connection(s) = f[0] /\ Behind(s, 0, f)
<1> DEFINE L == Len(s)
           Good == {l \in Nat : \E f : Behind(s, l, f)}
<1>1. L \in Nat
  OBVIOUS
<1>2. ASSUME NEW l \in 0 .. L, \A r \in l + 1 .. L : r \in Good
      PROVE  l \in Good
  <2>1. \E f : Behind(s, l + 1, f)
    <3>1. CASE l = L
      BY <1>1, <3>1 DEF Behind
    <3>2. CASE l # L
      <4>1. l + 1 \in l + 1 .. L
        BY <1>1, <3>2
      <4> QED
        BY <1>2, <4>1
    <3> QED
      BY <3>1, <3>2
  <2>2. PICK f : \A k \in l + 1 .. L : f[k] = PrintedBehind(s, k, f)
    BY <2>1 DEF Behind
  <2> DEFINE g == [k \in l .. L |-> IF k = l THEN PrintedBehind(s, l, f) ELSE f[k]]
  <2>3. l \in 0 .. L /\ \A r \in l + 1 .. L : f[r] = g[r] /\ r # l
    BY <1>1
  <2>4. ASSUME NEW k \in l .. L PROVE g[k] = PrintedBehind(s, k, g)
    <3>1. PrintedBehind(s, k, f) = PrintedBehind(s, k, g)
      <4>1. k \in 0 .. L /\ \A r \in k + 1 .. L : f[r] = g[r]
        BY <1>1, <2>3
      <4> HIDE DEF g
      <4> QED
        BY <4>1, BehindAlike
    <3>2. CASE k = l
      BY <3>1, <3>2
    <3>3. CASE k # l
      <4>1. k \in l + 1 .. L
        BY <1>1, <2>3, <3>3
      <4> QED
        BY <2>2, <2>3, <3>1, <4>1
    <3> QED
      BY <3>2, <3>3
  <2>5. Behind(s, l, g)
    BY <2>4 DEF Behind
  <2> QED
    BY <2>3, <2>5
<1>3. PICK f : \A k \in 0 .. L : f[k] = PrintedBehind(s, k, f)
  <2>1. 0 \in Int /\ L \in Int /\ 0 \in 0 .. L
    BY <1>1
  <2>2. 0 \in Good
    <3> HIDE DEF Good
    <3> QED
      BY <1>2, <2>1, Downward
  <2> QED
    BY <2>2 DEF Behind
<1> DEFINE g == [k \in 0 .. L |-> f[k]]
<1>4. ASSUME NEW k \in 0 .. L PROVE g[k] = PrintedBehind(s, k, g)
  <2>1. g[k] = f[k] /\ f[k] = PrintedBehind(s, k, f)
    BY <1>3
  <2>2. \A r \in k + 1 .. L : f[r] = g[r]
    BY <1>1
  <2>3. PrintedBehind(s, k, f) = PrintedBehind(s, k, g)
    <3> HIDE DEF g
    <3> QED
      BY <2>2, BehindAlike
  <2> QED
    BY <2>1, <2>3
<1>5. g = [k \in 0 .. L |-> PrintedBehind(s, k, g)]
  <2>1. g = [k \in 0 .. L |-> g[k]]
    OBVIOUS
  <2> HIDE DEF g
  <2> QED
    BY <1>4, <2>1
<1>6. \E f_ : f_ = [k \in 0 .. L |-> PrintedBehind(s, k, f_)]
  BY <1>5
<1>7. PICK h : h = [k \in 0 .. L |-> PrintedBehind(s, k, h)] /\ Lines!handle_connection(s) = h[0]
  BY Zenon, <1>6 DEF Lines!handle_connection, PrintedBehind
<1>8. Behind(s, 0, h)
  BY <1>7 DEF Behind
<1> QED
  BY <1>7, <1>8
(* Two frames of a client, cut somewhere.                                  *)
LEMMA FramesArePrinted ==
    ASSUME NEW is_text \in BOOLEAN, NEW payload \in Seq(Lines!Byte), Len(payload) \in Length,
           NEW next \in Seq(Lines!Byte), Len(next) \in Length,
           NEW masks \in [1 .. 2 -> [1 .. 4 -> Lines!Byte]], NEW missing \in Nat
    PROVE  Lines!FramesPrinted(is_text, payload, next, masks, missing)
<1>1. /\ masks[1] \in Seq(Lines!Byte) /\ Len(masks[1]) = 4
      /\ masks[2] \in Seq(Lines!Byte) /\ Len(masks[2]) = 4
  <2>1. masks[1] \in [1 .. 4 -> Lines!Byte] /\ masks[2] \in [1 .. 4 -> Lines!Byte]
    OBVIOUS
  <2>2. ASSUME NEW mask \in [1 .. 4 -> Lines!Byte]
        PROVE  mask \in Seq(Lines!Byte) /\ Len(mask) = 4
    <3>1. mask = [i \in 1 .. 4 |-> mask[i]] /\ \A i \in 1 .. 4 : mask[i] \in Lines!Byte
      OBVIOUS
    <3>2. [i \in 1 .. 4 |-> mask[i]] \in Seq(Lines!Byte) /\ Len([i \in 1 .. 4 |-> mask[i]]) = 4
      BY <3>1
    <3> QED
      BY Zenon, <3>1, <3>2
  <2> QED
    BY Zenon, <2>1, <2>2
<1>2. PICK a \in Seq(Nat) :
        a = Lines!Masked(is_text, payload, masks[1]) /\ FrameOf(a, is_text, payload, masks[1])
  BY Zenon, <1>1, MaskedIs
<1>3. PICK b \in Seq(Nat) :
        b = Lines!Masked(FALSE, next, masks[2]) /\ FrameOf(b, FALSE, next, masks[2])
  BY Zenon, <1>1, MaskedIs
<1>4. Len(a) \in Nat /\ Len(b) \in Nat /\ Len(a) >= 6 /\ Len(b) >= 6
  <2>1. /\ Len(payload) \in Nat /\ Len(next) \in Nat
        /\ More(Len(payload)) \in Nat /\ More(Len(next)) \in Nat
    BY SMT DEF More
  <2>2. Len(a) = 6 + More(Len(payload)) + Len(payload) /\ Len(b) = 6 + More(Len(next)) + Len(next)
    BY Zenon, <1>2, <1>3 DEF FrameOf
  <2>3. \A m, l \in Nat : 6 + m + l \in Nat /\ 6 + m + l >= 6
    OBVIOUS
  <2> QED
    BY Zenon, <2>1, <2>2, <2>3
<1>5. PICK whole \in Seq(Nat) : whole = a \o b /\ Joined(whole, a, b)
  BY Zenon, JoinIs
<1> DEFINE came == Len(a) + Len(b) - missing
<1>6. PICK s \in Seq(Nat) :
        /\ s = SubSeq(whole, 1, came) /\ Len(s) \in Nat
        /\ came >= 0 => Len(s) = came
        /\ came < 0 => Len(s) = 0
        /\ \A i \in 1 .. Len(s) : s[i] = whole[i]
  <2>1. came \in Int /\ came <= Len(whole) /\ Len(whole) \in Nat
    <3>1. Len(whole) = Len(a) + Len(b) /\ Len(a) \in Nat /\ Len(b) \in Nat /\ missing \in Nat
      BY Zenon, <1>4, <1>5 DEF Joined
    <3> QED
      BY <3>1
  <2> HIDE DEF came
  <2>2. \A i \in 1 .. came : whole[i] \in Nat
    BY <2>1
  <2>3. /\ SubSeq(whole, 1, came) \in Seq(Nat)
        /\ Len(SubSeq(whole, 1, came)) = IF 1 <= came THEN came - 1 + 1 ELSE 0
        /\ \A i \in 1 .. came - 1 + 1 : SubSeq(whole, 1, came)[i] = whole[1 + i - 1]
    BY <2>1, <2>2, SubSeqProperties
  <2>4. PICK s \in Seq(Nat) : /\ s = SubSeq(whole, 1, came)
                              /\ Len(s) = IF 1 <= came THEN came - 1 + 1 ELSE 0
                              /\ \A i \in 1 .. came - 1 + 1 : s[i] = whole[1 + i - 1]
    BY Zenon, <2>3
  <2>5. Len(s) \in Nat /\ (came >= 0 => Len(s) = came) /\ (came < 0 => Len(s) = 0)
    BY <2>1, <2>4
  <2>6. ASSUME NEW i \in 1 .. Len(s) PROVE s[i] = whole[i]
    <3>1. i \in 1 .. came - 1 + 1 /\ 1 + i - 1 = i
      BY <2>1, <2>5
    <3> QED
      BY Zenon, <2>4, <3>1
  <2> QED
    BY Zenon, <2>4, <2>5, <2>6
<1>7. PICK f : Lines!handle_connection(s) = f[0] /\ Behind(s, 0, f)
  BY Zenon, Handled
<1> DEFINE one == <<<<Name(is_text), payload>>>>
           two == <<<<"Binary", next>>>>
<1>8. ASSUME f[0] = (IF came >= Len(a) THEN one ELSE <<>>) \o (IF missing = 0 THEN two ELSE <<>>)
      PROVE  Lines!FramesPrinted(is_text, payload, next, masks, missing)
  <2>1. Lines!handle_connection(SubSeq(a \o b, 1, came)) = f[0]
    BY Zenon, <1>5, <1>6, <1>7
  <2> QED
    BY Zenon, <1>2, <1>3, <1>8, <2>1 DEF Lines!FramesPrinted, Name
<1>9. came \in Int /\ (came < Len(a) => missing # 0)
  BY <1>4
<1>10. \A k \in 0 .. Len(s) : f[k] = PrintedBehind(s, k, f)
  BY <1>7 DEF Behind
<1>11. Lines!Drop(s, 0) = s
  <2>1. PICK d \in Seq(Nat) : /\ d = Lines!Drop(s, 0) /\ Len(d) = Len(s) - 0
                              /\ \A i \in 1 .. Len(s) - 0 : d[i] = s[0 + i]
    <3>1. 0 \in 0 .. Len(s)
      BY <1>6
    <3> QED
      BY Zenon, <3>1, Dropped DEF DropIs
  <2>2. Len(d) = Len(s)
    BY <1>6, <2>1
  <2>3. ASSUME NEW i \in 1 .. Len(d) PROVE d[i] = s[i]
    <3>1. i \in 1 .. Len(s) - 0 /\ 0 + i = i
      BY <1>6, <2>2
    <3> QED
      BY Zenon, <2>1, <3>1
  <2>4. d = s
    BY <2>2, <2>3, SeqEqual
  <2> QED
    BY Zenon, <2>1, <2>4
<1>12. 0 \in 0 .. Len(s)
  BY <1>6
<1> HIDE DEF came, one, two
<1>s. Len(s) \in Nat /\ (came >= 0 => Len(s) = came) /\ (came < 0 => Len(s) = 0)
  BY Zenon, <1>6
<1>13. CASE came < Len(a)
  <2>1. Len(s) < Len(a) /\ ~(came >= Len(a)) /\ missing # 0
    <3>1. Len(s) < Len(a)
      BY <1>4, <1>s, <1>9, <1>13
    <3>2. ~(came >= Len(a))
      BY <1>4, <1>9, <1>13
    <3> QED
      BY Zenon, <1>9, <1>13, <3>1, <3>2
  <2>2. ASSUME NEW i \in 1 .. Len(s), i <= Len(a) PROVE s[i] = a[i]
    <3>1. i \in 1 .. Len(a)
      BY <1>4, <2>2
    <3> QED
      BY Zenon, <1>5, <1>6, <3>1 DEF Joined
  <2>3. Lines!decode_message(s) = <<"error">>
    <3>1. Reading(s, a, is_text, payload)
      BY Zenon, <1>1, <1>2, <2>2, FrameRead DEF Agree
    <3> QED
      BY Zenon, <2>1, <3>1 DEF Reading
  <2>4. f[0] = <<>>
    BY Zenon, <1>10, <1>11, <1>12, <2>3 DEF PrintedBehind
  <2>5. <<>> \o <<>> = <<>>
    OBVIOUS
  <2> QED
    BY Zenon, <1>8, <2>1, <2>4, <2>5
<1>14. CASE came >= Len(a)
  <2>1. Len(s) = came /\ Len(s) >= Len(a) /\ Len(a) \in 0 .. Len(s) /\ Len(s) \in 0 .. Len(s)
    BY <1>4, <1>6, <1>9, <1>14
  <2>2. ASSUME NEW i \in 1 .. Len(s), i <= Len(a) PROVE s[i] = a[i]
    <3>1. i \in 1 .. Len(a)
      BY <1>4, <2>2
    <3> QED
      BY Zenon, <1>5, <1>6, <3>1 DEF Joined
  <2>3. Lines!decode_message(s) = <<Name(is_text), payload, Lines!Drop(s, Len(a))>>
    <3>1. Reading(s, a, is_text, payload)
      BY Zenon, <1>1, <1>2, <2>2, FrameRead DEF Agree
    <3> QED
      BY Zenon, <2>1, <3>1 DEF Reading
  <2>4. PICK t \in Seq(Nat) : /\ t = Lines!Drop(s, Len(a)) /\ Len(t) = Len(s) - Len(a)
                              /\ \A i \in 1 .. Len(s) - Len(a) : t[i] = s[Len(a) + i]
    BY Zenon, <2>1, Dropped DEF DropIs
  <2>5. Len(s) - Len(t) = Len(a)
    BY <1>4, <1>6, <2>4
  <2>6. f[0] = one \o f[Len(a)]
    <3> DEFINE m == Lines!decode_message(s)
    <3>1. m = <<Name(is_text), payload, t>>
      BY Zenon, <2>3, <2>4
    <3>2. m # <<"error">> /\ m[1] = Name(is_text) /\ m[2] = payload /\ m[3] = t
      <4> HIDE DEF m
      <4> QED
        BY <3>1 DEF Name
    <3>3. f[0] = <<<<m[1], m[2]>>>> \o f[Len(s) - Len(m[3])]
      BY Zenon, <1>10, <1>11, <1>12, <3>2 DEF PrintedBehind
    <3> HIDE DEF m
    <3> QED
      BY Zenon, <2>5, <3>2, <3>3 DEF one
  <2>7. ASSUME NEW i \in 1 .. Len(t), i <= Len(b) PROVE t[i] = b[i]
    <3>1. i \in 1 .. Len(s) - Len(a) /\ i \in 1 .. Len(b)
      BY <1>4, <2>4, <2>7
    <3>2. Len(a) + i \in 1 .. Len(s)
      <4>1. Len(a) + i >= 1 /\ Len(a) + i <= Len(s) /\ Len(a) + i \in Int
        BY <1>4, <1>s, <3>1
      <4> QED
        BY <4>1
    <3> QED
      BY Zenon, <1>5, <1>6, <2>4, <3>1, <3>2 DEF Joined
  <2>8. f[Len(a)] = PrintedBehind(s, Len(a), f)
    BY Zenon, <1>10, <2>1
  <2>9. CASE missing # 0
    <3>1. Len(t) < Len(b)
      BY <1>4, <2>1, <2>4, <2>9 DEF came
    <3>2. Lines!decode_message(t) = <<"error">>
      <4>1. FALSE \in BOOLEAN /\ Reading(t, b, FALSE, next)
        BY Zenon, <1>1, <1>3, <2>7, FrameRead DEF Agree
      <4> QED
        BY Zenon, <3>1, <4>1 DEF Reading
    <3>3. f[Len(a)] = <<>>
      BY Zenon, <2>4, <2>8, <3>2 DEF PrintedBehind
    <3> QED
      BY Zenon, <1>8, <1>14, <2>6, <2>9, <3>3
  <2>10. CASE missing = 0
    <3>1. Len(t) >= Len(b) /\ Len(t) = Len(b)
      BY <1>4, <2>1, <2>4, <2>10 DEF came
    <3>2. Lines!decode_message(t) = <<"Binary", next, Lines!Drop(t, Len(b))>>
      <4>1. FALSE \in BOOLEAN /\ Name(FALSE) = "Binary"
        BY Zenon DEF Name
      <4>2. Lines!decode_message(t) = <<Name(FALSE), next, Lines!Drop(t, Len(b))>>
        <5>1. Reading(t, b, FALSE, next)
          BY Zenon, <1>1, <1>3, <2>7, <4>1, FrameRead DEF Agree
        <5> QED
          BY Zenon, <3>1, <5>1 DEF Reading
      <4> QED
        BY Zenon, <4>1, <4>2
    <3>3. PICK u \in Seq(Nat) : u = Lines!Drop(t, Len(b)) /\ Len(u) = 0
      <4>1. Len(b) \in 0 .. Len(t) /\ Len(t) - Len(b) = 0
        BY <1>4, <3>1
      <4> QED
        BY Zenon, <4>1, Dropped DEF DropIs
    <3>4. f[Len(a)] = two \o f[Len(s)]
      <4> DEFINE m == Lines!decode_message(Lines!Drop(s, Len(a)))
      <4>1. m = <<"Binary", next, u>>
        BY Zenon, <2>4, <3>2, <3>3
      <4>2. m # <<"error">> /\ m[1] = "Binary" /\ m[2] = next /\ m[3] = u
        <5> HIDE DEF m
        <5> QED
          BY <4>1
      <4>3. f[Len(a)] = <<<<m[1], m[2]>>>> \o f[Len(s) - Len(m[3])]
        BY Zenon, <2>8, <4>2 DEF PrintedBehind
      <4>4. Len(s) - 0 = Len(s)
        BY <1>6
      <4> HIDE DEF m
      <4> QED
        BY Zenon, <3>3, <4>2, <4>3, <4>4 DEF two
    <3>5. f[Len(s)] = <<>>
      <4>1. PICK v \in Seq(Nat) : v = Lines!Drop(s, Len(s)) /\ Len(v) = Len(s) - Len(s)
        BY Zenon, <2>1, Dropped DEF DropIs
      <4>2. Len(v) < 2
        BY <1>6, <4>1
      <4>3. Lines!decode_message(v) = <<"error">>
        BY Zenon, <4>2 DEF Lines!decode_message
      <4> QED
        BY Zenon, <1>10, <2>1, <4>1, <4>3 DEF PrintedBehind
    <3>6. two \o <<>> = two
      BY DEF two
    <3> QED
      BY Zenon, <1>8, <1>14, <2>6, <2>10, <3>4, <3>5, <3>6
  <2> QED
    BY Zenon, <2>9, <2>10
<1> QED
  BY <1>4, <1>9, <1>13, <1>14

(* FramesReadBack: wherever the bytes are cut, a frame of MyFrame whose    *)
(* length two bytes hold is read as it was written, or, when a sum with it *)
(* wraps, ends in the panic or the early end that FirstDecoded names, and a*)
(* longer one is not sent as it is; a WebSocket frame is read as it was    *)
(* written (decode_encode.rs:31, 51, 61, 77; message.rs:76).               *)
THEOREM FramesRead == TextSpec => []FramesReadBack
<1>1. Inputs /\ [Steps]_textVars => Inputs'
  BY DEF Inputs, Steps, textVars
<1>2. Inputs => FramesReadBack
  <2>1. ASSUME running = "frame", input \in FrameInputs
        PROVE  Lines!FirstDecoded(Lines!Message(input.tag, input.payload), input.next,
                                  input.empties, input.checked)
    <3>1. input \in Frame
      BY <2>1, FramesAssumption
    <3>2. /\ input.tag \in Nat /\ input.payload \in Seq(Nat) /\ input.next \in Seq(Nat)
          /\ input.empties \in Nat /\ input.checked \in BOOLEAN
      <4>1. 0 .. Base - 1 \subseteq Nat
        OBVIOUS
      <4>2. /\ input.tag \in 0 .. Base - 1 /\ input.payload \in Seq(0 .. Base - 1)
            /\ input.next \in Seq(0 .. Base - 1) /\ input.empties \in Nat /\ input.checked \in BOOLEAN
        BY Zenon, <3>1 DEF Frame
      <4>3. ASSUME NEW S, S \subseteq Nat, NEW s \in Seq(S) PROVE s \in Seq(Nat)
        <5>1. ASSUME NEW i \in 1 .. Len(s) PROVE s[i] \in Nat
          BY Zenon, <4>3, ElementOfSeq
        <5>2. Len(s) \in Nat /\ s = [i \in 1 .. Len(s) |-> s[i]]
          OBVIOUS
        <5> QED
          BY <5>1, <5>2
      <4> QED
        BY Zenon, <4>1, <4>2, <4>3
    <3> QED
      BY Zenon, <3>2, FrameDecoded
  <2>2. ASSUME running = "websocket", input \in WebSocketInputs
        PROVE  Lines!FramesPrinted(input.is_text, Payload(input.length), Payload(input.next),
                                   input.masks, input.missing)
    <3>1. input \in WebSocket
      BY <2>2, FramesAssumption
    <3>2. /\ input.is_text \in BOOLEAN /\ input.length \in Length /\ input.next \in Length
          /\ input.masks \in [1 .. 2 -> [1 .. 4 -> Lines!Byte]] /\ input.missing \in Nat
      BY Zenon, <3>1 DEF WebSocket
    <3>3. ASSUME NEW length \in Length
          PROVE  Payload(length) \in Seq(Lines!Byte) /\ Len(Payload(length)) \in Length
      <4>1. length \in Nat
        BY DEF Length
      <4>2. ASSUME NEW i \in 1 .. length PROVE i % 128 \in Lines!Byte
        BY SMT DEF Lines!Byte
      <4>3. Payload(length) \in Seq(Lines!Byte) /\ Len(Payload(length)) = length
        BY <4>1, <4>2 DEF Payload
      <4> QED
        BY Zenon, <4>3
    <3> QED
      BY Zenon, <3>2, <3>3, FramesArePrinted
  <2> QED
    BY Zenon, <2>1, <2>2 DEF Inputs, FramesReadBack
<1> QED
  BY <1>1, <1>2, PTL DEF TextSpec
=============================================================================
