------------------------------- MODULE TinyJson -------------------------------
(***************************************************************************)
(* JSON-TUTORIAL/tinyjson/tinyjson.c: parsing of null, true, false,        *)
(* numbers and strings, the calls that set and free a value, and the       *)
(* encoding of code points.  A text is a sequence of characters, written   *)
(* by their names when they have one; behind its end there is a NUL.  PUTC *)
(* calls lept_context_push, which is defined nowhere: it is taken for      *)
(* tjson_context_push.                                                     *)
(***************************************************************************)
EXTENDS Integers, Sequences, FiniteSetsExt

CONSTANTS
    BigNumbers,     \* the numbers for which strtod has no room
    MaxBlocks       \* bound: blocks that are allocated at a time

VARIABLES
    value,      \* type, and the block of its string when the type is STRING
    live        \* the blocks that are allocated

vars == <<value, live>>

NUL == "NUL"
Digits == {"0", "1", "2", "3", "4", "5", "6", "7", "8", "9"}
Space == {"SP", "HT", "LF", "CR"}
Escapes == {"t", "r", "n", "f", "b", "\\", "/", "QUOTE"}
Meaning == [c \in Escapes |->
    CASE c = "t" -> "HT" [] c = "r" -> "CR" [] c = "n" -> "LF" [] c = "f" -> "FF"
      [] c = "b" -> "BS" [] OTHER -> c]

At(s, p) == IF p <= Len(s) THEN s[p] ELSE NUL
After(s, p, C) == Min({q \in p .. Len(s) + 1 : At(s, q) \notin C})

-----------------------------------------------------------------------------
(* Each parser returns a code, the position it leaves in the context, the  *)
(* type it gives the value and, of a string, its characters.               *)
Result(code, next, type, chars) ==
    [code |-> code, next |-> next, type |-> type, chars |-> chars]
Fail(code, p) == Result(code, p, "NULL", <<>>)

parse_whitespace(s, p) == After(s, p, Space)

parse_literal(s, p, literal, type) ==
    IF \A i \in 1 .. Len(literal) : At(s, p + i - 1) = literal[i]
    THEN Result("OK", p + Len(literal), type, <<>>)
    ELSE Fail("INVALID_VALUE", p + 1)

\* strtod returns HUGE_VAL.
TooBig(number) == number \in BigNumbers

\* 0, where no digit is: a digit must follow the point, the exponent.
digits(s, p) == IF At(s, p) \in Digits THEN After(s, p, Digits) ELSE 0
integer(s, p) == IF At(s, p) = "0" THEN p + 1 ELSE digits(s, p)
fraction(s, p) == IF p # 0 /\ At(s, p) = "." THEN digits(s, p + 1) ELSE p
exponent(s, p) ==
    IF p = 0 \/ At(s, p) \notin {"e", "E"} THEN p
    ELSE digits(s, IF At(s, p + 1) \in {"+", "-"} THEN p + 2 ELSE p + 1)

parse_number(s, p) ==
    LET start == IF At(s, p) = "-" THEN p + 1 ELSE p
        next == exponent(s, fraction(s, integer(s, start)))
    IN IF next = 0 THEN Fail("INVALID_VALUE", p)
       ELSE IF TooBig(SubSeq(s, p, next - 1)) THEN Fail("NUMBER_TOO_BIG", p)
       ELSE Result("OK", next, "NUMBER", <<>>)

(* An escape puts the character it means, and, since its case goes on into *)
(* the default, its own letter, too.                                       *)
escaped(c) == <<Meaning[c], c>>

\* Mutation: a quotation mark behind a backslash ends the string.
parse_string_plain(s, p) ==
    LET end == After(s, p + 1, (Escapes \cup Digits \cup Space \cup {"x", "\\"}) \ {"QUOTE"})
    IN IF At(s, end) # "QUOTE" THEN Fail("MISS_QUOTATION_MARK", p + 1)
       ELSE Result("OK", end + 1, "STRING", SubSeq(s, p + 1, end - 1))

\* What is read from q on, when that is known of the positions behind it.
read_from(s, p, q, from) ==
    LET with(chars, next) ==
            IF from[next].code # "OK" THEN from[next]
            ELSE [from[next] EXCEPT !.chars = chars \o @]
    IN CASE At(s, q) = "QUOTE" -> Result("OK", q + 1, "STRING", <<>>)
         [] At(s, q) = NUL -> Fail("MISS_QUOTATION_MARK", p + 1)
         [] At(s, q) = "\\" ->
                IF At(s, q + 1) \in Escapes
                THEN with(escaped(s[q + 1]), q + 2)
                ELSE Fail("INVALID_STRING_ESCAPE", p + 1)
         [] OTHER -> with(<<s[q]>>, q + 1)

parse_string(s, p) ==
    LET from[q \in p + 1 .. Len(s) + 1] == read_from(s, p, q, from)
    IN from[p + 1]

parse_value(s, p) ==
    CASE At(s, p) = "n" -> parse_literal(s, p, <<"n", "u", "l", "l">>, "NULL")
      [] At(s, p) = "t" -> parse_literal(s, p, <<"t", "r", "u", "e">>, "TRUE")
      [] At(s, p) = "f" -> parse_literal(s, p, <<"f", "a", "l", "s", "e">>, "FALSE")
      [] At(s, p) = NUL -> Fail("EXPECT_VALUE", p)
      [] At(s, p) = "QUOTE" -> parse_string(s, p)
      [] OTHER -> parse_number(s, p)

\* What is left behind a value changes its type back, and keeps its string.
parse(s) ==
    LET result == parse_value(s, parse_whitespace(s, 1))
        end == parse_whitespace(s, result.next)
    IN IF result.code = "OK" /\ At(s, end) # NUL
       THEN [result EXCEPT !.code = "ROOT_NOT_SINGULAR", !.type = "NULL"]
       ELSE result

\* The bytes of a code point.
parse_utf8(u) ==
    LET more(x) == (x % 64) + 128
    IN  IF u <= 127 THEN <<u>>
        ELSE IF u <= 2047 THEN <<((u \div 64) % 32) + 192, more(u)>>
        ELSE IF u <= 65535 THEN <<((u \div 4096) % 16) + 224, more(u \div 64), more(u)>>
        ELSE <<((u \div 262144) % 8) + 240, more(u \div 4096), more(u \div 64), more(u)>>

-----------------------------------------------------------------------------
(* The calls on one value.                                                 *)

None == 0
Blocks == 1 .. MaxBlocks

tjson_init == [type |-> "NULL", s |-> None]
Init == value = tjson_init /\ live = {}

\* What tjson_free leaves of the blocks.
freed == IF value.type = "STRING" THEN live \ {value.s} ELSE live

tjson_free == live' = freed /\ value' = tjson_init

tjson_set(type) ==
    /\ live' = freed
    /\ value' = [type |-> type, s |-> None]

tjson_set_string ==
    \E b \in Blocks \ freed :
        /\ live' = freed \cup {b}
        /\ value' = [type |-> "STRING", s |-> b]

(* tjson_parse forgets the string of the value it is given, and the one it *)
(* has read when more than white space is left.                            *)
tjson_parse(s) ==
    IF At(s, parse_whitespace(s, 1)) = "QUOTE" /\ parse(s).code \in {"OK", "ROOT_NOT_SINGULAR"}
    THEN \E b \in Blocks \ live :
            /\ live' = live \cup {b}
            /\ value' = IF parse(s).code = "OK" THEN [type |-> "STRING", s |-> b]
                        ELSE tjson_init
    ELSE live' = live /\ value' = [type |-> parse(s).type, s |-> None]

Next(Texts) ==
    \/ tjson_free \/ tjson_set_string
    \/ \E type \in {"NUMBER", "TRUE", "FALSE"} : tjson_set(type)
    \/ \E s \in Texts : tjson_parse(s)

-----------------------------------------------------------------------------
(* No call frees a block that is free already, or hands out a freed string *)
(* (tinyjson.c:62, 149).                                                   *)
StringLive == value.type = "STRING" => value.s \in live

(* The grammar, of what is written from p to e in s: what is a number, and *)
(* what is a string.                                                       *)
IsDigits(s, p, e) == p <= e /\ \A i \in p .. e : s[i] \in Digits
IsInteger(s, p, e) == (p = e /\ s[p] = "0") \/ (IsDigits(s, p, e) /\ s[p] # "0")
IsExponent(s, p, e) ==
    /\ p < e /\ s[p] \in {"e", "E"}
    /\ IsDigits(s, IF s[p + 1] \in {"+", "-"} THEN p + 2 ELSE p + 1, e)
IsNumber(s, p, e) ==
    \E i \in p .. e, j, k \in p .. e + 1 :
        /\ i = p \/ (i = p + 1 /\ s[p] = "-")
        /\ IsInteger(s, i, j - 1)
        /\ j = k \/ (j < k /\ s[j] = "." /\ IsDigits(s, j + 1, k - 1))
        /\ k = e + 1 \/ IsExponent(s, k, e)

\* Backslashes and quotation marks inside, each taken by a backslash before it.
IsString(s, p, e) ==
    /\ p < e /\ s[p] = "QUOTE" /\ s[e] = "QUOTE"
    /\ \E taken \in SUBSET (p + 1 .. e - 1) :
        \A i \in p + 1 .. e - 1 :
            /\ (i \in taken) <=> (i - 1 \notin taken /\ i > p + 1 /\ s[i - 1] = "\\")
            /\ i \in taken => s[i] \in Escapes
            /\ i \notin taken => s[i] # "QUOTE"
            /\ s[i] = "\\" /\ i \notin taken => i + 1 \in taken

TypeOf(s, p, e) ==
    LET word == SubSeq(s, p, e)
    IN CASE word = <<"n", "u", "l", "l">> -> "NULL"
         [] word = <<"t", "r", "u", "e">> -> "TRUE"
         [] word = <<"f", "a", "l", "s", "e">> -> "FALSE"
         [] IsNumber(s, p, e) /\ ~TooBig(word) -> "NUMBER"
         [] IsString(s, p, e) -> "STRING"
         [] OTHER -> "none"

(* A text is accepted when it is one value between white space, the value  *)
(* gets its type, and a string without escapes its characters; a value     *)
(* that is refused is null (test.h:39).                                    *)
ReadAsWritten(s) ==
    LET text == {i \in DOMAIN s : s[i] \notin Space}
        p == Min(text)
        e == Max(text)
        type == IF text = {} THEN "none" ELSE TypeOf(s, p, e)
    IN /\ (parse(s).code = "OK") = (type # "none")
       /\ parse(s).type = IF type = "none" THEN "NULL" ELSE type
       /\ type = "STRING" /\ (\A i \in p .. e : s[i] # "\\") =>
            parse(s).chars = SubSeq(s, p + 1, e - 1)

\* The code point that bytes of UTF-8 are the shortest encoding of.
Utf8Value(b) ==
    CASE Len(b) = 1 -> b[1]
      [] Len(b) = 2 -> (b[1] % 32) * 64 + (b[2] % 64)
      [] Len(b) = 3 -> (b[1] % 16) * 4096 + (b[2] % 64) * 64 + (b[3] % 64)
      [] Len(b) = 4 -> (b[1] % 8) * 262144 + (b[2] % 64) * 4096 + (b[3] % 64) * 64 + (b[4] % 64)

EncodedExactly(u) ==
    LET b == parse_utf8(u)
    IN /\ Utf8Value(b) = u
       /\ \A i \in DOMAIN b : b[i] \in 0 .. 255 /\ (i > 1 => b[i] \div 64 = 2)
       /\ CASE Len(b) = 1 -> b[1] < 128
            [] Len(b) = 2 -> b[1] \div 32 = 6
            [] Len(b) = 3 -> b[1] \div 16 = 14
            [] OTHER -> b[1] \div 8 = 30
=============================================================================
