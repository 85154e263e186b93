---------------------------- MODULE PrattParsing ----------------------------
(***************************************************************************)
(* The parser of rust_pg/src/bin/pratt_parsing.rs over sequences of tokens.*)
(* A tree is an atom, <<atom>>, or <<op, subtree, ...>>; a panic of the    *)
(* program is the tree Panic, which every tree around it becomes too.      *)
(***************************************************************************)
EXTENDS Integers, Sequences, SequencesExt

CONSTANT Atoms      \* the tokens that are letters or digits

Panic == <<"panic">>
EOF == "EOF"

IsTree(t) == t # Panic

\* peek and next of the lexer; what has been read is cut off.
peek(lexer) == IF lexer = <<>> THEN EOF ELSE Head(lexer)
advance(lexer) == IF lexer = <<>> THEN <<>> ELSE Tail(lexer)

prefix_binding_power(op) == IF op \in {"+", "-"} THEN 9 ELSE -1

infix_binding_power(op) ==
    CASE op = "=" -> <<2, 1>> [] op = "?" -> <<4, 3>> [] op \in {"+", "-"} -> <<5, 6>>
      [] op \in {"*", "/"} -> <<7, 8>> [] op = "." -> <<14, 13>> [] OTHER -> <<>>

\* Mutation: an operator's left binding power used on both sides.
operand_bp_left(infix) == infix[1]

\* What the right operand of an infix operator is parsed with.
operand_bp(infix) == infix[2]

postfix_binding_power(op) == IF op \in {"[", "!"} THEN 11 ELSE -1

\* A tree and what is left of the tokens; a panic when a part has panicked.
Parsed(s, rest) == [s |-> IF \E k \in 2 .. Len(s) : s[k] = Panic THEN Panic ELSE s,
                    rest |-> rest]
Panicked == [s |-> Panic, rest |-> <<>>]

\* p, when the token that closes it follows.
closed(p, token) ==
    IF IsTree(p.s) /\ peek(p.rest) = token THEN [p EXCEPT !.rest = advance(@)] ELSE Panicked

RECURSIVE expr_bp(_, _), operators(_, _)

\* The loop of expr_bp, with what it has got so far.
operators(lhs, min_bp) ==
    LET op == peek(lhs.rest)
        infix == infix_binding_power(op)
        rest == advance(lhs.rest)
    IN IF ~IsTree(lhs.s) \/ op = EOF THEN lhs
       ELSE IF op \in Atoms THEN Panicked
       ELSE IF infix # <<>>
       THEN IF infix[1] < min_bp THEN lhs
            ELSE IF op = "?"
            THEN LET mhs == closed(expr_bp(rest, 0), ":")
                     rhs == expr_bp(mhs.rest, operand_bp(infix))
                 IN IF ~IsTree(mhs.s) THEN Panicked
                    ELSE operators(Parsed(<<op, lhs.s, mhs.s, rhs.s>>, rhs.rest), min_bp)
            ELSE LET rhs == expr_bp(rest, operand_bp(infix))
                 IN operators(Parsed(<<op, lhs.s, rhs.s>>, rhs.rest), min_bp)
       ELSE IF postfix_binding_power(op) < min_bp THEN lhs
       ELSE IF op = "["
       THEN LET rhs == closed(expr_bp(rest, 0), "]")
            IN operators(Parsed(<<op, lhs.s, rhs.s>>, rhs.rest), min_bp)
       ELSE operators(Parsed(<<op, lhs.s>>, rest), min_bp)

expr_bp(lexer, min_bp) ==
    LET token == peek(lexer)
        rest == advance(lexer)
        r_bp == prefix_binding_power(token)
    IN IF token \in Atoms THEN operators(Parsed(<<token>>, rest), min_bp)
       ELSE IF token = "(" THEN operators(closed(expr_bp(rest, 0), ")"), min_bp)
       ELSE IF r_bp = -1 THEN Panicked
       ELSE LET e == expr_bp(rest, r_bp)
            IN operators(Parsed(<<token, e.s>>, e.rest), min_bp)

expr(input) == expr_bp(input, 0).s

-----------------------------------------------------------------------------
(* What the parser promises.  The text of a tree is unique when every      *)
(* operator got the operands that its binding powers give it.              *)

Infix(t) == Len(t) >= 3 /\ t[1] # "["
Prefix(t) == Len(t) = 2 /\ t[1] # "!"

RECURSIVE text(_)
text(t) ==
    CASE Len(t) = 1 -> t
      [] Prefix(t)  -> <<t[1]>> \o text(t[2])
      [] t[1] = "!" -> text(t[2]) \o <<"!">>
      [] t[1] = "[" -> text(t[2]) \o <<"[">> \o text(t[3]) \o <<"]">>
      [] t[1] = "?" -> text(t[2]) \o <<"?">> \o text(t[3]) \o <<":">> \o text(t[4])
      [] OTHER      -> text(t[2]) \o <<t[1]>> \o text(t[3])

\* The left and right binding power of the operator at the top of a tree.
left_bp(t) == IF Infix(t) THEN infix_binding_power(t[1])[1] ELSE postfix_binding_power(t[1])
right_bp(t) == IF Infix(t) THEN infix_binding_power(t[1])[2] ELSE prefix_binding_power(t[1])

OpenLeft(t) == Len(t) > 1 /\ ~Prefix(t)
OpenRight(t) == Infix(t) \/ Prefix(t)

\* The operators at the left and at the right edge of a tree.
RECURSIVE leftEdge(_), rightEdge(_)
leftEdge(t) == IF OpenLeft(t) THEN {t} \cup leftEdge(t[2]) ELSE {}
rightEdge(t) == IF OpenRight(t) THEN {t} \cup rightEdge(t[Len(t)]) ELSE {}

RECURSIVE Respects(_)
Respects(t) ==
    /\ \A k \in 2 .. Len(t) : Respects(t[k])
    /\ OpenLeft(t) => \A u \in rightEdge(t[2]) : left_bp(t) < right_bp(u)
    /\ OpenRight(t) => \A u \in leftEdge(t[Len(t)]) : left_bp(u) >= right_bp(t)

(* The parser finds every tree again from its text, when the tree respects *)
(* the binding powers, and without panicking: grouping, prefix against     *)
(* postfix, and the inside of brackets and of ? : (lines 108 to 146).      *)
TreeFromText(t) == Respects(t) => expr(text(t)) = t
=============================================================================
