------------------------------ MODULE MCDevices ------------------------------
(***************************************************************************)
(* The three drivers for TLC, with the expressions and the texts that are  *)
(* written to the calculator.                                              *)
(***************************************************************************)
EXTENDS DeviceFiles, ExpressionText

MCVariables == {"x"}
MCLiterals == ("0" :> [n |-> 0, d |-> 0]) @@ ("2" :> [n |-> 2, d |-> 0])
              @@ ("3" :> [n |-> 3, d |-> 0]) @@ ("10" :> [n |-> 10, d |-> 0])
              @@ ("0.5" :> [n |-> 5, d |-> -1])

Binary(ops, as, bs) == {Node(op, <<a, b>>) : op \in ops, a \in as, b \in bs}
UnaryOn(as) == {Node(op, <<a>>) : op \in Unary, a \in as}

\* One operator of each precedence and grouping, on either side of another.
Numbers == {Leaf(l) : l \in {"2", "10", "0.5"}}
Shapes == {"*", "-", "<", "&&", "||"}
Small == Numbers \cup Binary(Shapes, Numbers, Numbers) \cup UnaryOn(Numbers)
Nested == LET few == Binary(Shapes, {Leaf("10")}, {Leaf("2"), Leaf("0.5")})
                     \cup UnaryOn({Leaf("2"), Leaf("10")})
          IN  Binary(Shapes, few, Numbers) \cup Binary(Shapes, Numbers, few)
              \cup UnaryOn(few)

\* Integers without a trailing zero: powers, remainders, shifts, quotients.
Whole == {Leaf("2"), Leaf("3")}
Powers == Binary({"**", "%", "<<", "/", "=="}, Whole, Whole)
WithPowers == Binary({"*", "+", "/"}, Powers, Whole)
              \cup Binary({"*", "%"}, Whole, Powers)
              \cup Binary({"**"}, Whole, Binary({"**"}, {Leaf("2")}, Whole))
              \cup Binary({"<<"}, Whole, Binary({"<<", "%"}, Whole, Whole))

\* x = a, b with x in b; and x = (x = a, b), c.
x == Leaf("x")
Assignments ==
  LET some == {Leaf("10"), Leaf("0.5")}
      assign == {Node("=", <<x, a>>) : a \in Binary({"-", "<="}, some, some)}
      uses == Binary({"*", "!=", ">"}, {x}, Numbers) \cup Binary({"+", ">="}, Numbers, {x})
  IN  Binary({","}, assign, uses)
      \cup Binary({","}, assign, Binary({","}, {Node("=", <<x, u>>) : u \in uses}, {x}))

MCTrees == Small \cup Nested \cup Powers \cup WithPowers \cup Assignments
MCBadTexts == {<<"2", "+">>, <<"-", " ", "2">>, <<"2", ")">>, <<"2", "=", "3">>,
               <<"x", "(", "2", ")">>, <<"*">>, <<"2", "3">>}
Case(tree, error, files) ==
  [text |-> Text(tree), value |-> ValueOf(tree), bad |-> error, opens |-> files]
MCCases == {Case(t, <<"(", "2">>, 2) : t \in {u \in MCTrees : ValueOf(u).exact}}
           \cup {Case(Leaf("2"), b, 4) : b \in MCBadTexts}
MCIsExpression(t) == expr_create(t).ok
MCResultOfDigits(n) == FP2INT(n, 0)
MCOffsets == {-4, 3, 100}
ClientSymmetry == Permutations(Clients)
=============================================================================
