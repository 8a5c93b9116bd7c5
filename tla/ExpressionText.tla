---------------------------- MODULE ExpressionText ----------------------------
(***************************************************************************)
(* What a text means to whoever writes it: the tree printed with no more   *)
(* parentheses than C's precedences ask for: powers bind tighter than      *)
(* products and group to the right; and its exact value.                   *)
(***************************************************************************)
EXTENDS Expression

Level(op) ==
  CASE op \in Unary -> 1
    [] op = "**" -> 2
    [] op \in {"*", "/", "%"} -> 3
    [] op \in {"+", "-"} -> 4
    [] op = "<<" -> 5
    [] op \in {"<", "<=", ">", ">="} -> 6
    [] op \in {"==", "!="} -> 6
    [] op = "&&" -> 7
    [] op = "||" -> 8
    [] op = "=" -> 9
    [] op = "," -> 10
    [] OTHER -> 0

RECURSIVE Text(_)
Text(t) ==
  LET Within(u, level) == IF Level(u.op) > level THEN <<"(">> \o Text(u) \o <<")">>
                          ELSE Text(u)
      here == Level(t.op)
  IN  CASE t.args = <<>> -> <<t.op>>
        [] t.op \in Unary ->
             <<IF t.op = "-u" THEN "-" ELSE "!">> \o Within(t.args[1], here)
        [] t.op \in {"**", "=", ","} ->
             Within(t.args[1], here - 1) \o <<t.op>> \o Within(t.args[2], here)
        [] OTHER ->
             Within(t.args[1], here) \o <<t.op>> \o Within(t.args[2], here - 1)

-----------------------------------------------------------------------------
(* n * 10^e, or not exact: a quotient without an end, and the operations   *)
(* of expression.c on operands they do not suit (a power of a number that  *)
(* is stored with an exponent, a remainder of one, the logical negation of *)
(* a zero that has one).                                                   *)
Number(n, e) == [n |-> n, e |-> e, exact |-> TRUE]
Inexact == [n |-> 0, e |-> 0, exact |-> FALSE]
Bool(b) == Number(IF b THEN 1 ELSE 0, 0)

At(a, e) == a.n * 10^(a.e - e)
Low(a, b) == Min({a.e, b.e})
Less(a, b) == At(a, Low(a, b)) < At(b, Low(a, b))
Same(a, b) == At(a, Low(a, b)) = At(b, Low(a, b))
Integral(a) == a.e = 0 /\ a.n >= 0
NoExponent(a) == Integral(a) /\ a.n % 10 # 0

Apply(op, a, b) ==
  CASE op = "+" -> Number(At(a, Low(a, b)) + At(b, Low(a, b)), Low(a, b))
    [] op = "-" -> Number(At(a, Low(a, b)) - At(b, Low(a, b)), Low(a, b))
    [] op = "*" -> Number(a.n * b.n, a.e + b.e)
    [] op = "/" -> IF a.n > 0 /\ b.n > 0 /\ (a.n * 1000) % b.n = 0
                   THEN Number((a.n * 1000) \div b.n, a.e - b.e - 3) ELSE Inexact
    [] op = "%" -> IF Integral(a) /\ NoExponent(b) /\ (a.n = 0 \/ NoExponent(a))
                   THEN Number(a.n % b.n, 0) ELSE Inexact
    [] op = "**" -> IF NoExponent(a) /\ Integral(b) THEN Number(a.n^b.n, 0) ELSE Inexact
    [] op = "<<" -> IF Integral(b) THEN Number(a.n * 2^b.n, a.e) ELSE Inexact
    [] op = "<"  -> Bool(Less(a, b))
    [] op = "<=" -> Bool(~Less(b, a))
    [] op = ">"  -> Bool(Less(b, a))
    [] op = ">=" -> Bool(~Less(a, b))
    [] op = "==" -> Bool(Same(a, b))
    [] op = "!=" -> Bool(~Same(a, b))
    [] op = "&&" -> IF a.n # 0 /\ b.n # 0 THEN b ELSE Number(0, 0)
    [] op = "||" -> IF a.n # 0 THEN a ELSE b

\* operators whose 0 has no exponent
Truths == {"<", "<=", ">", ">=", "==", "!="}

RECURSIVE Exact(_, _), After(_, _)
Exact(t, env) ==
  LET a == Exact(t.args[1], env)
      b == Exact(t.args[2], env) IN
  CASE t.op \in Variables -> env[t.op]
    [] t.op \in DOMAIN Literals -> Number(Literals[t.op].n, Literals[t.op].d)
    [] t.op = "=" -> b
    [] t.op = "," -> Exact(t.args[2], After(t.args[1], env))
    [] t.op = "-u" -> [a EXCEPT !.n = -@]
    [] t.op = "!u" -> IF a.exact /\ (a.n # 0 \/ t.args[1].op \in Truths)
                      THEN Bool(a.n = 0) ELSE Inexact
    [] OTHER -> IF a.exact /\ b.exact THEN Apply(t.op, a, b) ELSE Inexact
After(t, env) ==
  IF t.op = "=" THEN [env EXCEPT ![t.args[1].op] = Exact(t.args[2], env)] ELSE env

ValueOf(t) == Exact(t, [v \in Variables |-> Number(0, 0)])

(* Whether an answer of the driver stands for a number.                    *)
StandsFor(answer, number) ==
  Same(Number(GET_NUM(answer), GET_FRAC(answer)), number)
=============================================================================
