----------------------------- MODULE MCScopes -----------------------------
(* Bodies for Scopes: every sequence of statements drawn from a menu, at    *)
(* the top of a function and inside each construct that opens a scope.      *)
EXTENDS Scopes

Nm(n) == Leaf("name", n)
To(n) == Leaf("target", n)
Op(kids) == Node("op", kids)
Width(n) == Node("type", <<Leaf("width", n)>>)
Of(a, b) == Node("block", <<a, b>>)
Only(a) == Node("block", <<a>>)

LetIs(pat, ty, e) == [Node("let", <<ty, e>>) EXCEPT !.pat = pat]
LetName(n, e) == LetIs(PName(n), None, e)
LetMut(n, e) == [LetName(n, e) EXCEPT !.n = "mut"]
Vars(names, ty, e) == [Node("var", <<ty, e>>) EXCEPT !.pat = PTuple(names)]
Assign(a, b) == Node("assign", <<a, b>>)
Returns(e) == Node("returns", <<e>>)
Does(e) == Node("run", <<e>>)
WhenDo(event, init, body) == Node("whenDo", <<event, init, body>>)
IfDo(cond, body) == Node("ifDo", <<cond, body>>)
For(pat, iter, body) == [Node("for", <<iter, body>>) EXCEPT !.pat = pat]
Enumerate(of) == Node("enumerate", <<of>>)
RangeTo(of) == Node("call", <<Nm("range"), of>>)
CallWith(args) == Node("call", <<Nm("f")>> \o args)
Pair(a, b) == PTuple(<<PName(a), PName(b)>>)
Struct(ctor, a) == PStruct(ctor, <<PName(a)>>)

MCItems == {"f", "range", "x", "P", "S"}
MCTypes == {"P", "S"}
MCPorts == {"P"}
MCPaths == {"S"}

\* What defines or drives x or y.
Binding == {
    LetName("x", Nm("y")),
    LetName("y", Op(<<Nm("x"), Nm("a")>>)),
    LetMut("x", Nm("x")),
    LetIs(PName("x"), Width("N"), Nm("a")),
    LetIs(PName("y"), Width("x"), None),
    LetIs(Pair("x", "y"), None, Nm("x")),
    LetIs(Pair("y", "x"), None, Op(<<Nm("a")>>)),
    LetIs(PTuple(<<Struct("S", "y"), PName("x")>>), Width("y"), Nm("x")),
    LetIs(Struct("P", "x"), None, Nm("a")),
    Vars(<<PName("x")>>, None, None),
    Vars(<<PName("x"), PName("y")>>, Width("N"), Nm("a")),
    Vars(<<PName("y"), PName("y")>>, None, Nm("x")) }

Driving == {
    Assign(Nm("x"), Nm("y")),
    Does(CallWith(<<To("x"), Leaf("short", "y")>>)),
    Does(CallWith(<<To("y"), Nm("y"), Leaf("length", "x")>>)),
    Returns(Nm("x")),
    WhenDo(Op(<<Nm("clk")>>), None, Of(Assign(Nm("x"), Nm("y")), Node("if", <<Nm("x"), Only(Nm("y")), Only(Nm("x"))>>))),
    WhenDo(Nm("clk"), Only(Assign(Nm("y"), Nm("N"))), Of(LetName("x", Nm("y")), IfDo(Nm("x"), Only(Assign(Nm("y"), Nm("x")))))),
    IfDo(Nm("x"), Only(Assign(Nm("y"), To("x")))),
    For(PName("x"), Nm("x"), Only(Assign(Nm("y"), Nm("x")))),
    For(PName("y"), RangeTo(Nm("N")), Of(Assign(Nm("x"), Nm("y")), LetName("x", Nm("y")))),
    For(Pair("x", "y"), Enumerate(Nm("y")), Only(Assign(Nm("x"), Nm("y")))),
    For(PTuple(<<PName("y"), Pair("x", "x")>>), Enumerate(Nm("a")), Only(Vars(<<PName("x")>>, None, Nm("y")))),
    For(Pair("x", "y"), Op(<<Nm("x")>>), Of(Assign(Nm("x"), Nm("y")), Vars(<<PName("y")>>, Width("x"), Nm("x")))) }

Menu == Binding \union Driving

\* What reads x and y at the end: a value, or one more statement.
Reads == Op(<<Nm("x"), Nm("y")>>)
Last3 == { Reads, Nm("x"),
           Assign(Nm("x"), Nm("y")),
           Op(<<Leaf("return", "return"), Leaf("path", "S"), Leaf("path", "A"), Leaf("onType", "T"), Leaf("onType", "x")>>),
           Op(<<Leaf("record", "S"), Leaf("record", "q"), Leaf("short", "N"), Nm("true"), Nm("q"), Leaf("length", "N")>>) }

\* s and t inside each construct that opens a scope.
Inside(s, t) == {
    Does(Node("block", <<s, t, Reads>>)),
    Does(Node("if", <<Nm("x"), Of(s, Nm("x")), Of(t, Nm("y"))>>)),
    WhenDo(Nm("clk"), Only(s), Of(t, Nm("x"))),
    Does(Node("when", <<Nm("clk"), Of(s, Nm("y")), Only(t)>>)),
    For(PName("x"), Nm("y"), Of(s, t)),
    For(Pair("y", "x"), Enumerate(Nm("x")), Of(s, t)) }

Generic(n, kind) == [n |-> n, kind |-> kind]
Fn(params, results, body) ==
    [params |-> params, results |-> results, ports |-> {}, body |-> body, splices |-> <<>>,
     generics |-> <<Generic("clk", "domain"), Generic("N", "const"), Generic("T", "type"), Generic("A", "bounded")>>]

Sequences3 == {Node("block", <<s, t, u>>) : s \in Menu, t \in Menu, u \in Last3}
Nested == {Node("block", <<w, Reads>>) : w \in UNION {Inside(s, t) : s, t \in Menu}}
After == {Node("block", <<s, w, Reads>>) : s \in Binding, w \in UNION {Inside(t, t) : t \in Menu}}

Plain(bodies) == {Fn(<<"a", "y">>, <<"return">>, b) : b \in bodies}
Signatures == {<<<<"a">>, <<>>>>, <<<<"a", "x">>, <<"x">>>>, <<<<"N", "a">>, <<"x", "y">>>>}
Varied == {Fn(sg[1], sg[2], Node("block", <<s, t, u>>)) :
              sg \in Signatures, s \in Binding, t \in Driving, u \in {Reads, Assign(Nm("x"), Nm("y"))}}

Spliced == {[Fn(p, <<"return">>, Node("block", <<>>)) EXCEPT !.splices = <<s, t>>, !.ports = q] :
               p \in {<<"a">>, <<"N">>}, q \in {{}, {"a", "N"}}, s, t \in {"a", "N", "clk", "return", "result", "x", "T"}}

MCFns == Plain(Sequences3 \union Nested \union After) \union Varied \union Spliced
=============================================================================
