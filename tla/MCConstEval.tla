---------------------------- MODULE MCConstEval ----------------------------
(***************************************************************************)
(* Crates for ConstEval. The first def has a generic, an input (local 1),  *)
(* locals x (2), y (3), z (4), t (5), u (6) and its result (7); the others *)
(* are called by it: `scale`, with an output between its inputs, `fact`,   *)
(* which calls itself, and `loop`, which never ends.                       *)
(***************************************************************************)
EXTENDS ConstEval

E(e, n) == Node(e, n, "", <<>>, <<>>, <<>>)
N(n) == E("num", n)
L(l) == E("local", l)
P(i) == E("param", i)
B(b) == E("bool", b)
Op(name, x, y) == Node("method", 0, name, <<x>>, <<In(y)>>, <<>>)
COp(name, x, y) == Node("op", 0, name, <<x, y>>, <<>>, <<>>)
Fn(d, args) == Node("call", d, "", <<>>, args, <<>>)
OutTo(l) == [out |-> TRUE, x |-> L(l)]
Block(stmts, tail) == [stmts |-> stmts, tail |-> tail]
If(e, c, b1, b2) == Node(e, 0, "", <<c>>, <<>>, <<b1, b2>>)
Let(l, x) == [s |-> "let", l |-> l, x |-> x]
Eq(l, x) == [s |-> "eq", l |-> l, x |-> x]
Stmt(x) == [s |-> "expr", l |-> 0, x |-> x]
Field(x, name) == Node("field", 0, name, <<x>>, <<>>, <<>>)
Pair(x, y) == Node("record", 1, "", <<>>, <<[name |-> "a", out |-> FALSE, x |-> x], [name |-> "b", out |-> FALSE, x |-> y]>>, <<>>)

\* fn scale(n, out m, k) -> integer { m = n + 1; return = m * k }
Scale == [params |-> <<"in", "out", "in">>, locals |-> 4, results |-> {4}, widths |-> <<>>,
          block |-> Block(<<Eq(2, Op("add", L(1), N(1))), Eq(4, Op("mul", L(2), L(3)))>>, <<>>)]

\* fn fact(n) -> integer { return = if n == 0 { 1 } else { let m = n - 1; n * fact(m) } }
Fact == [params |-> <<"in">>, locals |-> 3, results |-> {3}, widths |-> <<>>,
         block |-> Block(<<Eq(3, If("if", Op("eq", L(1), N(0)), Block(<<>>, <<N(1)>>),
                                    Block(<<Let(2, Op("sub", L(1), N(1)))>>, <<Op("mul", L(1), Fn(3, <<In(L(2))>>))>>)))>>, <<>>)]

\* fn loop(n) -> integer { loop(n) }
Loop == [params |-> <<"in">>, locals |-> 2, results |-> {2}, widths |-> <<>>,
         block |-> Block(<<Eq(2, Fn(4, <<In(L(1))>>))>>, <<>>)]

\* fn last(self) -> integer { self.b }
LastOf == [params |-> <<"in">>, locals |-> 2, results |-> {2}, widths |-> <<>>,
           block |-> Block(<<Eq(2, Field(L(1), "b"))>>, <<>>)]

XSites == {
    Let(2, N(2)), Let(2, L(1)), Let(2, P(1)), Let(2, L(3)), Let(2, Op("div", N(6), L(3))),
    Eq(2, Op("add", L(3), N(1))), Let(2, Fn(3, <<In(L(3))>>)), Let(2, E("assoc", 2))}

YSites == {
    Let(3, N(2)), Let(3, N(0)), Let(3, Op("mul", L(2), N(2))), Let(3, P(1)), Let(3, Fn(4, <<In(N(1))>>)),
    Stmt(Fn(2, <<In(N(2)), OutTo(3), In(N(5))>>)),
    Stmt(Fn(2, <<In(N(2)), OutTo(3), In(L(2))>>)),
    Let(3, Field(Pair(L(2), Op("add", L(2), N(1))), "b")),
    Let(3, Node("method", 5, "last", <<Pair(N(1), N(4))>>, <<>>, <<>>)),
    Let(3, Node("typepath", 5, "last", <<>>, <<In(Pair(N(1), N(4)))>>, <<>>)),
    [s |-> "part", l |-> 3, x |-> N(1)]}

Conds == {Op("lt", L(2), N(3)), Op("eq", P(1), N(1)), Op("and", Op("lt", N(1), P(1)), B(1)),
          Node("method", 0, "not", <<Op("ne", L(3), N(2))>>, <<>>, <<>>)}

Arms(c) == {
    If("constif", c, Block(<<Let(5, Op("add", L(2), N(1)))>>, <<L(5)>>), Block(<<>>, <<L(3)>>)),
    If("if", c, Block(<<>>, <<L(3)>>), Block(<<Let(5, Op("mul", L(2), N(2)))>>, <<L(5)>>))}

\* An `else if` is the tail of the arm it is in.
Chained(c) ==
    If("if", c, Block(<<>>, <<L(3)>>),
       Block(<<>>, <<If("if", B(1), Block(<<Let(5, N(3))>>, <<L(5)>>), Block(<<>>, <<N(1)>>))>>))

Widths == <<E("local", 2), COp("sub", L(3), E("param", 1)), COp("div", E("num", 4), L(4)),
            Field(L(6), "a"), COp("add", E("assoc", 2), L(2)), E("assoc", 3), E("deferred", 0)>>

Main(x, y, r, turned) ==
    LET stmts == <<x, y, Eq(4, Op("sub", L(3), N(1))), Let(6, Pair(L(2), N(1))), Eq(7, r)>>
    IN  [params |-> <<"in">>, locals |-> 7, results |-> {7}, widths |-> Widths,
         block |-> Block(IF turned THEN Reverse(stmts) ELSE stmts, <<>>)]

Bodies == UNION {Arms(c) : c \in Conds}
Typical == Arms(Op("lt", L(2), N(3)))

Crate(x, y, r, turned) == <<Main(x, y, r, turned), Scale, Fact, Loop, LastOf>>

MCCrates == {Crate(x, y, r, r.e = "if") : x \in XSites, y \in YSites, r \in Typical}
       \union {Crate(x, y, r, turned) : x \in {Let(2, N(2)), Let(2, P(1))}, y \in {Let(3, L(1)), Let(3, N(2))},
                                       r \in Bodies, turned \in BOOLEAN}


\* The width of a type: of a byte, of two of them, and one of itself.
MCAssocs == <<E("num", 4), COp("mul", E("num", 2), E("assoc", 1)), COp("add", E("num", 1), E("assoc", 3))>>

MCGenericArgs == {<<>>, <<1>>, <<2>>}
MCInputValues == {0, 2}

=============================================================================
