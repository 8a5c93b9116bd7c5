------------------------------ MODULE Expression ------------------------------
(***************************************************************************)
(* kcalc's expression.c: from a text to its value.  A text is a sequence   *)
(* of tokens (how characters group into tokens is left out); a tree is an  *)
(* operator or a leaf's token with its arguments.  Macros and functions,   *)
(* the bitwise operators and >> are left out.                              *)
(*                                                                         *)
(* A number is n * 10^d as the int  n << 4 | (d & 15);  d = -1 is reserved *)
(* for NaN.  The numbers considered keep n below 2^27 and d in -8..7, and  *)
(* dividends are positive: divid never ends on 0 and wraps below it.       *)
(***************************************************************************)
EXTENDS Integers, Sequences, SequencesExt, FiniteSetsExt

CONSTANTS
  Literals,      \* [token -> [n, d]]: the digits of a number, its fraction
  Variables      \* tokens that are names

-----------------------------------------------------------------------------
(* Numbers *)

NAN_INT == 31
INF_INT == 47
GET_NUM(x) == x \div 16
GET_FRAC(x) == LET d == x % 16 IN IF d >= 8 THEN d - 16 ELSE d
isNan(x) == GET_FRAC(x) = -1
MASK(b) == IF b THEN 16 ELSE 0

RECURSIVE FP2INT(_, _)
FP2INT(n, d) ==
  IF n # 0 /\ n % 10 = 0 THEN FP2INT(n \div 10, d + 1)
  ELSE IF d = -1 THEN n * 160 + ((-2) % 16)
  ELSE n * 16 + (d % 16)

expr_parse_number(token) == FP2INT(Literals[token].n, Literals[token].d)

(* The loops that give two numbers the same exponent.                      *)
AtExponent(x, d) == GET_NUM(x) * 10^(GET_FRAC(x) - d)
Common(a, b) == Min({GET_FRAC(a), GET_FRAC(b)})

plus(a, b) == LET d == Common(a, b)
              IN  FP2INT(AtExponent(a, d) + AtExponent(b, d), d)
minus(a, b) == LET d == Common(a, b)
               IN  FP2INT(AtExponent(a, d) - AtExponent(b, d), d)
compare(a, b) == LET d == Common(a, b)
                     x == AtExponent(a, d)
                     y == AtExponent(b, d)
                 IN  IF x < y THEN "lower" ELSE IF x = y THEN "equal" ELSE "greater"

mult(a, b) == FP2INT(GET_NUM(a) * GET_NUM(b), GET_FRAC(a) + GET_FRAC(b))

(* The dividend is first given as many digits as 25 bits hold.             *)
RECURSIVE Digits(_)
Digits(n) == IF n * 10 < 2^25 - 1 THEN 1 + Digits(n * 10) ELSE 0

divid(a, b) ==
  LET n == GET_NUM(a)
      k == Digits(n)
  IN  IF GET_NUM(b) = 0 THEN IF n = 0 THEN NAN_INT ELSE INF_INT
      ELSE FP2INT((n * 10^k) \div GET_NUM(b), GET_FRAC(a) - k - GET_FRAC(b))

(* Positive exponents are divided away, negative ones kept.  A divisor    *)
(* that becomes 0, as 10 does, is a divide error and not considered.       *)
ToInt(x) == GET_NUM(x) \div 10^Max({GET_FRAC(x), 0})

remain(a, b) ==
  IF GET_NUM(b) = 0 THEN NAN_INT
  ELSE FP2INT(ToInt(a) % ToInt(b), Min({GET_FRAC(a), 0}))

(* The exponent of the result starts at that of the base instead of 0.     *)
power(a, b) ==
  LET n == IF GET_FRAC(b) < 0 THEN GET_NUM(b) \div 10^(-GET_FRAC(b))
                              ELSE GET_NUM(b) * 10^GET_FRAC(b)
      k == Max({n, 0})
  IN  FP2INT(GET_NUM(a)^k, GET_FRAC(a) * (k + 1))

left_shift(a, b) == mult(a, power(2 * 16, b))
not(a) == FP2INT(IF GET_NUM(a) = 0 THEN 1 ELSE 0, GET_FRAC(a))

-----------------------------------------------------------------------------
(* Trees *)

Leaf(token) == [op |-> token, args |-> <<>>]
Node(op, args) == [op |-> op, args |-> args]
True(x) == GET_NUM(x) # 0

(* The value in an environment (the variables' values), and the            *)
(* environment afterwards.  No operand of an operator other than , and =   *)
(* assigns, so the compiler's order of evaluation does not matter.         *)
RECURSIVE expr_eval(_, _), Assigned(_, _)
expr_eval(t, env) ==
  LET Arg(i) == expr_eval(t.args[i], env) IN
  CASE t.op = "-u" -> minus(0, Arg(1))
    [] t.op = "!u" -> not(Arg(1))
    [] t.op = "**" -> power(Arg(1), Arg(2))
    [] t.op = "*"  -> mult(Arg(1), Arg(2))
    [] t.op = "/"  -> divid(Arg(1), Arg(2))
    [] t.op = "%"  -> remain(Arg(1), Arg(2))
    [] t.op = "+"  -> plus(Arg(1), Arg(2))
    [] t.op = "-"  -> minus(Arg(1), Arg(2))
    [] t.op = "<<" -> left_shift(Arg(1), Arg(2))
    [] t.op = "<"  -> MASK(compare(Arg(1), Arg(2)) = "lower")
    [] t.op = "<=" -> MASK(compare(Arg(1), Arg(2)) # "greater")
    [] t.op = ">"  -> MASK(compare(Arg(1), Arg(2)) = "greater")
    [] t.op = ">=" -> MASK(compare(Arg(1), Arg(2)) # "lower")
    [] t.op = "==" -> MASK(compare(Arg(1), Arg(2)) = "equal")
    [] t.op = "!=" -> MASK(compare(Arg(1), Arg(2)) # "equal")
    [] t.op = "&&" -> IF True(Arg(1)) /\ True(Arg(2)) THEN Arg(2) ELSE 0
    [] t.op = "||" -> IF True(Arg(1)) /\ ~isNan(Arg(1)) THEN Arg(1)
                      ELSE IF True(Arg(2)) THEN Arg(2) ELSE 0
    [] t.op = "="  -> Arg(2)
    [] t.op = ","  -> expr_eval(t.args[2], Assigned(t.args[1], env))
    [] t.op \in Variables -> env[t.op]
    [] OTHER -> expr_parse_number(t.op)
Assigned(t, env) ==
  CASE t.op = "=" -> [Assigned(t.args[2], env)
                        EXCEPT ![t.args[1].op] = expr_eval(t.args[2], env)]
    [] t.op = "," -> Assigned(t.args[2], Assigned(t.args[1], env))
    [] OTHER -> env

-----------------------------------------------------------------------------
(* Tokens *)

Unary == {"-u", "!u"}
prec == [op \in Unary |-> 1] @@ [op \in {"**", "*", "/", "%"} |-> 2]
        @@ [op \in {"+", "-"} |-> 3] @@ [op \in {"<<"} |-> 4]
        @@ [op \in {"<", "<=", ">", ">=", "==", "!="} |-> 5]
        @@ [op \in {"&&"} |-> 9] @@ [op \in {"||"} |-> 10]
        @@ [op \in {"="} |-> 11] @@ [op \in {","} |-> 12]
Operators == DOMAIN prec
UnaryOf(token) == CASE token = "-" -> "-u" [] token = "!" -> "!u" [] OTHER -> "none"

\* mutant: every operator groups to the left
expr_precLeft(a, b) == prec[a] >= prec[b]

(* Whether b, on the stack, is applied before a.                           *)
expr_prec(a, b) ==
  \/ a \notin Unary \cup {"=", "**", ","} /\ prec[a] >= prec[b]
  \/ prec[a] > prec[b]

(* What may follow: the flags after a token, {} for an error.              *)
EXPR_TDEFAULT == {"open", "number", "word"}

expr_next_token(token, rest, flags) ==
  LET Needs(f, then) == IF f \in flags THEN then ELSE {} IN
  CASE token = " " -> flags
    [] token = "\n" -> IF "op" \notin flags THEN flags
                       ELSE IF rest = <<>> \/ Head(rest) = ")" THEN flags \ {"comma"}
                       ELSE {"number", "word", "open", "comma"}
    [] token \in DOMAIN Literals -> Needs("number", {"op", "close"})
    [] token \in Variables -> Needs("word", {"op", "open", "close"})
    [] token = "(" -> Needs("open", {"number", "word", "open", "close"})
    [] token = ")" -> Needs("close", {"op", "close"})
    [] OTHER ->
         IF "op" \in flags THEN IF token \in Operators THEN EXPR_TDEFAULT ELSE {}
         ELSE IF UnaryOf(token) \in Unary THEN EXPR_TDEFAULT \cup {"unary"} ELSE {}

-----------------------------------------------------------------------------
(* The parser: es holds trees, os operators and parentheses, id the name   *)
(* read last, which the next token tells to be a variable or a function.   *)

Parsing == [flags |-> EXPR_TDEFAULT, es |-> <<>>, os |-> <<>>, id |-> "none",
            ok |-> TRUE]
Fail(p) == [p EXCEPT !.ok = FALSE]

expr_bind(p) ==
  LET op == Last(p.os)
      k == IF op \in Unary THEN 1 ELSE 2
      n == Len(p.es)
      args == SubSeq(p.es, n - k + 1, n)
  IN  IF \/ op \notin Operators \/ n < k
         \/ op = "=" /\ args[1].op \notin Variables
      THEN Fail(p)
      ELSE [p EXCEPT !.os = Front(@),
                     !.es = SubSeq(@, 1, n - k) \o <<Node(op, args)>>]

\* Applies the operators on the stack while they bind tighter than op.
RECURSIVE Reduce(_, _)
Reduce(p, op) ==
  IF p.ok /\ p.os # <<>> /\ Last(p.os) # "(" /\ expr_prec(op, Last(p.os))
  THEN Reduce(expr_bind(p), op) ELSE p

\* Applies them back to the opening parenthesis, or all of them.
RECURSIVE Unwind(_)
Unwind(p) ==
  IF p.ok /\ p.os # <<>> /\ Last(p.os) # "(" THEN Unwind(expr_bind(p)) ELSE p

NameRead(p) == IF p.id = "none" THEN p
               ELSE [p EXCEPT !.es = Append(@, Leaf(p.id)), !.id = "none"]

Close(p) == LET q == Unwind(p)
            IN  IF q.os = <<>> THEN Fail(q) ELSE [q EXCEPT !.os = Front(@)]

PushOp(p, op) == LET q == Reduce(p, op) IN [q EXCEPT !.os = Append(@, op)]

(* One turn of the loop of expr_create.                                    *)
Token(p, token, rest) ==
  LET flags == expr_next_token(token, rest, p.flags)
      newline == token = "\n" /\ "comma" \in flags
      q == NameRead([p EXCEPT !.flags = flags \ (IF newline THEN {"comma"} ELSE {})])
  IN  IF ~p.ok \/ flags = {} THEN Fail(p)
      \* a blank after a unary operator is taken for the operator
      ELSE IF "unary" \in flags
      THEN IF UnaryOf(token) = "none" THEN Fail(p) ELSE PushOp(q, UnaryOf(token))
      ELSE CASE token \in {" ", "\n"} /\ ~newline -> [p EXCEPT !.flags = flags]
        [] newline -> PushOp(q, ",")
        [] token = "(" -> IF p.id # "none" THEN Fail(p)
                          ELSE [q EXCEPT !.os = Append(@, "(")]
        [] token = ")" -> Close(q)
        [] token \in Variables -> [q EXCEPT !.id = token]
        [] token \in DOMAIN Literals ->
             IF isNan(expr_parse_number(token)) THEN Fail(q)
             ELSE [q EXCEPT !.es = Append(@, Leaf(token))]
        [] OTHER -> PushOp(q, token)

(* The tree of a text, or a failure; an empty text is the constant 0.      *)
Syntax(text) ==
  LET p == FoldLeftDomain(
             LAMBDA s, i : Token(s, text[i], SubSeq(text, i + 1, Len(text))),
             Parsing, text)
  IN  Unwind(NameRead(p))

expr_create(text) ==
  LET p == Syntax(text)
  IN  [ok |-> p.ok /\ p.os = <<>>,
       tree |-> IF p.es = <<>> THEN Leaf("0") ELSE Last(p.es)]

\* calc() of main.c: the value, unless there is a syntax error
Calculate(text) ==
  expr_eval(expr_create(text).tree, [v \in Variables |-> 0])
=============================================================================
