---------------------------- MODULE MCInference ----------------------------
(* Bodies for Inference: every sequence of statements drawn from a menu,   *)
(* over two clocks.                                                        *)
EXTENDS Inference

\* The generics of the inferred function: two clocks, a width, a type.
C1 == Param(1)  C2 == Param(2)  W == Param(3)
TyA == ParamKind(4)

Bool(d) == Value(Kind("bool"), d)
Reset(d) == Value(Kind("reset"), d)
U(w, d) == Value(UInt(w), d)
Bits(w, d) == Value(Wide("bits", w), d)
Wide3S == Value(Wide("sint", Lit(3)), Unspecified)

\* Expressions.
Num(k) == [e |-> "num", n |-> k]
Nibble(k) == [e |-> "typed", ty |-> U(Lit(4), Unspecified), n |-> k]
True == [e |-> "bool"]
ConstW == [e |-> "constparam", i |-> 3]
L(l) == [e |-> "local", l |-> l]
Tup(a, b) == [e |-> "tuple", elems |-> <<a, b>>]
Single(a) == [e |-> "tuple", elems |-> <<a>>]
List(a, b) == [e |-> "vec", elems |-> <<a, b>>]
Proj(of, k) == [e |-> "field", of |-> of, i |-> k, name |-> ""]
Dot(of, name) == [e |-> "field", of |-> of, i |-> 0, name |-> name]
At(of, by) == [e |-> "index", of |-> of, by |-> by]
By(v) == [out |-> FALSE, of |-> v]          \* = v
To(v) == [out |-> TRUE, of |-> v]           \* => v
Is(name, v) == [name |-> name, out |-> FALSE, of |-> v]
Binds(name, v) == [name |-> name, out |-> TRUE, of |-> v]
CallNamed(d, args, named) == [e |-> "call", def |-> d, args |-> args, named |-> named]
Call(d, args) == CallNamed(d, args, <<>>)
Dots(of, name, args) == [e |-> "method", of |-> of, name |-> name, args |-> args, named |-> <<>>]
Reg(of, r, init) == Dots(of, "reg", <<By(r), By(init)>>)
Path(ty, name, args) == [e |-> "path", of |-> ty, name |-> name, args |-> args, named |-> <<>>]
Make(ctor, fields) == [e |-> "record", ctor |-> ctor, fields |-> fields]
Slice(of, lo, hi) == [e |-> "slice", of |-> of, lo |-> lo, hi |-> hi, width |-> <<>>]
SliceFrom(of, lo, w) == [e |-> "slice", of |-> of, lo |-> <<lo>>, hi |-> <<>>, width |-> <<w>>]
Repeat(of, len) == [e |-> "repeat", of |-> of, len |-> len]
Yields(v) == [stmts |-> <<>>, tail |-> <<v>>]
If(c, a, b) == [e |-> "if", const |-> FALSE, cond |-> c, then |-> Yields(a), else |-> Yields(b)]
ConstIf(c, a, b) == [If(c, a, b) EXCEPT !.const = TRUE]
Value1(v) == [e |-> "block", body |-> Yields(v)]
Edge(l) == Dots(L(l), "posedge", <<>>)
WhenOn(l, init, v) == [e |-> "when", event |-> Edge(l), init |-> init, body |-> Yields(v)]

\* Statements.
Eq(l, v) == [s |-> "eq", lhs |-> L(l), rhs |-> v]
EqAt(lhs, v) == [s |-> "eq", lhs |-> lhs, rhs |-> v]
Block(stmts) == [stmts |-> stmts, tail |-> <<>>]
LetIs(l, v) == [s |-> "let", l |-> l, e |-> v]
When(l, stmts) == [s |-> "when", event |-> Edge(l), init |-> Block(<<>>), body |-> Block(stmts)]
Do(v) == [s |-> "expr", e |-> v]
For(elem, iter, stmts) ==
    [s |-> "for", elem |-> elem, index |-> <<>>, iter |-> iter, body |-> Block(stmts)]
ForEach(index, elem, iter, stmts) == [For(elem, iter, stmts) EXCEPT !.index = <<index>>]

\* Locals: 1-2 bool and 3-4 reset on each clock, 5 uint(3), 6 uint(W), 7 a
\* value of the type parameter, 8 a vector; 9 the result; then the vars. The
\* type of `wide` is as wide as n says; other bodies leave it open.
Given(t) == [ty |-> t, param |-> TRUE, result |-> FALSE]
Var(t) == [ty |-> t, param |-> FALSE, result |-> FALSE]
LocalConst(l) == [is |-> "local", l |-> l]
MCLocals == <<
    Given(Bool(C1)), Given(Bool(C2)), Given(Reset(C1)), Given(Reset(C2)),
    Given(U(Lit(3), C1)), Given(U(W, C1)), Given(Value(TyA, C1)),
    Given(Vec(Lit(2), Bool(C1))),
    [ty |-> Tuple(<<Bool(C1), U(Lit(3), C1)>>), param |-> FALSE, result |-> TRUE],
    Var(NoTy),                                 \* 10 x
    Var(NoTy),                                 \* 11 y
    Var(NoTy),                                 \* 12 n
    Var(NoTy),                                 \* 13 wide
    Var(Bool(Const)), Var(Reset(Unspecified)), \* 14 fixed, 15 rst
    Given(Value(Kind("integer"), C1)),         \* 16
    Given(ClockTy), Given(ClockTy),            \* 17, 18 the clocks
    Given(Bits(W, C1)), Given(Bits(Lit(4), C1)), \* 19, 20
    Given(RecordTy("Pair", <<Lit(3)>>, C1)),   \* 21
    Var(NoTy)                                  \* 22 i
    >>
MCClocks == 17 :> 1 @@ 18 :> 2

MCSizedLocals ==
    [MCLocals EXCEPT ![13] = Var(U(Op("sub", LocalConst(12), Lit(1)), Unspecified))]

x == 10  y == 11  n == 12  wide == 13  fixed == 14  rst == 15  i == 22

Param1(name, t) ==
    [name |-> name, ty |-> t, out |-> FALSE, self |-> FALSE, named |-> FALSE, default |-> FALSE]
In(t) == Param1("", t)
Out(t) == [In(t) EXCEPT !.out = TRUE]
Self(t) == [In(t) EXCEPT !.self = TRUE]
Opt(t) == [In(t) EXCEPT !.default = TRUE]
ByName(name, t) == [Param1(name, t) EXCEPT !.named = TRUE]
Bound(t, of) == [trait |-> t, of |-> of]
P1(d) == Value(ParamKind(1), d)
P2(d) == Value(ParamKind(2), d)
P3(d) == Value(ParamKind(3), d)
Fun(generics, params, ret) == [generics |-> generics, names |-> {}, preds |-> <<>>, params |-> params, ret |-> ret]

\* same{T, D}(T @D, T @D) -> T @D; grow{N, D}(uint(N) @D) -> uint(N) @D;
\* show{T: Show}(T) -> bool; split{D}(bool @D, out bool @D) -> Reset @D;
\* tune{N, D, gain: uint(N) @D, done: out bool @D}(uint(N) @D, uint(N) @D = ..)
MCSigs == [
    same |-> Fun(<<"type", "domain">>, <<In(P1(Param(2))), In(P1(Param(2)))>>, P1(Param(2))),
    grow |-> Fun(<<"const", "domain">>, <<In(U(Param(1), Param(2)))>>, U(Param(1), Param(2))),
    show |-> [Fun(<<"type">>, <<In(P1(Const))>>, Bool(Const)) EXCEPT !.preds = <<Bound("Show", P1(Const))>>],
    split |-> Fun(<<"clock">>, <<In(Bool(Param(1))), Out(Bool(Param(1)))>>, Reset(Param(1))),
    tune |-> [Fun(<<"const", "domain">>,
                  <<ByName("gain", U(Param(1), Param(2))),
                    [ByName("done", Bool(Param(2))) EXCEPT !.out = TRUE],
                    In(U(Param(1), Param(2))), Opt(U(Param(1), Param(2)))>>,
                  U(Param(1), Param(2))) EXCEPT !.names = {"N"}],
    uint_add |-> Fun(<<"const", "domain">>,
                     <<Self(U(Param(1), Param(2))), In(U(Param(1), Param(2)))>>, U(Param(1), Param(2))),
    integer_add |-> Fun(<<>>, <<Self(Integer), In(Integer)>>, Integer),
    bool_flip |-> Fun(<<"domain">>, <<Self(Bool(Param(1)))>>, Bool(Param(1))),
    bool_twist |-> Fun(<<"domain">>, <<Self(Bool(Param(1)))>>, Bool(Param(1))),
    bool_zero |-> Fun(<<>>, <<>>, Bool(Const)),
    uint_flip |-> Fun(<<"const", "domain">>, <<Self(U(Param(1), Param(2)))>>, U(Param(1), Param(2))),
    uint_zero |-> Fun(<<"const">>, <<>>, U(Param(1), Const)),
    flip |-> Fun(<<"type">>, <<Self(P1(Unspecified))>>, P1(Unspecified)),
    twist |-> Fun(<<"type">>, <<Self(P1(Unspecified))>>, P1(Unspecified)),
    turn |-> Fun(<<"type">>, <<Self(P1(Unspecified)), In(P1(Unspecified))>>, P1(Unspecified)),
    zero |-> Fun(<<"type">>, <<>>, P1(Const)),
    pair_first |-> Fun(<<"type", "type">>, <<Self(Tuple(<<P1(Const), P2(Const)>>))>>, P1(Const)),
    triple_first |-> Fun(<<"type", "type", "type">>,
                         <<Self(Tuple(<<P1(Const), P2(Const), P3(Const)>>))>>, P1(Const))]

\* Pair{N}{a: uint(N), b: bool}, Box{T}{v: T, w: bool}; a port.
Field(name, t) == [name |-> name, ty |-> t, dir |-> "none"]
MCRecords == [
    Pair |-> [generics |-> <<"const">>,
              fields |-> <<Field("a", U(Param(1), Unspecified)), Field("b", Bool(Unspecified))>>],
    Box |-> [generics |-> <<"type">>,
             fields |-> <<Field("v", P1(Unspecified)), Field("w", Bool(Unspecified))>>],
    Link |-> [generics |-> <<>>,
              fields |-> <<[Field("valid", Bool(Unspecified)) EXCEPT !.dir = "out"],
                           [Field("ready", Bool(Unspecified)) EXCEPT !.dir = "in"]>>]]

ImplOf(tr, h, preds, methods) == [trait |-> tr, header |-> h, preds |-> preds, methods |-> methods]
Impl(tr, h, preds) == ImplOf(tr, h, preds, <<>>)
\* Show for bool, for uint(N) and uint(4), for pairs whose parts show, and for
\* a vector that shows. Flip and Twist both offer a bool, and what is bounded by
\* both, a flip of their own: the call is ambiguous. Pairs and triples have a
\* first.
MCImpls == {
    Impl("Show", Bool(Const), <<>>),
    Impl("Show", U(Param(1), Const), <<>>),
    Impl("Show", U(Lit(4), Const), <<>>),
    Impl("Show", Tuple(<<P1(Const), P2(Const)>>), <<Bound("Show", P1(Const)), Bound("Show", P2(Const))>>),
    Impl("Show", Vec(Param(2), P1(Const)), <<Bound("Show", Vec(Param(2), P1(Const)))>>),
    ImplOf("Flip", Bool(Unspecified), <<>>, [flip |-> "bool_flip", zero |-> "bool_zero"]),
    ImplOf("Flip", U(Param(1), Unspecified), <<>>, [flip |-> "uint_flip", zero |-> "uint_zero"]),
    ImplOf("Twist", Bool(Unspecified), <<>>, [flip |-> "bool_twist"]),
    ImplOf("First", Tuple(<<P1(Const), P2(Const)>>), <<>>, [first |-> "pair_first"]),
    ImplOf("First", Tuple(<<P1(Const), P2(Const), P3(Const)>>), <<>>, [first |-> "triple_first"]),
    ImplOf("Slice", Bits(Param(1), Unspecified), <<>>, [slice |-> "bits_slice", slice_from |-> "bits_slice_from"])}
MCInherent == <<"uint", "add">> :> "uint_add" @@ <<"integer", "add">> :> "integer_add"
              @@ <<"Vec", "slice">> :> "vec_slice"
MCTraitMethods == <<"Flip", "flip">> :> "flip" @@ <<"Twist", "flip">> :> "twist"
                  @@ <<"Flip", "zero">> :> "zero" @@ <<"Twist", "turn">> :> "turn"

Add(a, b) == Dots(a, "add", <<By(b)>>)
PairOf(a, b) == Make("Pair", <<Is("a", a), Is("b", b)>>)
LinkOf(r) == Make("Link", <<Is("valid", L(1)), r>>)

\* Every one alone and with every other.
Menu == {
    Eq(x, True), Eq(x, L(1)), Eq(x, L(2)), Eq(y, L(x)), Eq(x, L(y)),
    Eq(y, Num(9)), Eq(x, L(5)), Eq(y, Nibble(7)), Eq(y, Nibble(16)),
    Eq(x, Tup(L(1), Num(3))), Eq(x, Tup(L(x), Num(1))), Eq(9, L(x)), Eq(9, Tup(True, Num(5))),
    Eq(9, Single(True)), EqAt(Proj(L(9), 1), L(2)), Eq(y, Proj(L(x), 1)), Eq(y, Proj(L(9), 3)),
    Eq(y, List(Num(1), L(6))), Eq(y, At(L(8), Num(2))), Eq(y, At(L(8), L(5))), Eq(x, At(L(y), L(1))),
    Eq(x, Call("same", <<By(L(y)), By(L(1))>>)), Eq(y, Call("grow", <<By(L(6))>>)),
    Eq(y, Call("grow", <<By(L(x))>>)), Eq(y, Call("grow", <<>>)),
    Eq(y, Call("same", <<By(True), By(L(2)), By(L(1))>>)),
    Eq(y, Call("show", <<By(L(x))>>)), Eq(y, Call("show", <<By(L(7))>>)), Eq(y, Call("show", <<By(L(8))>>)),
    Eq(y, Call("show", <<By(L(3))>>)), Eq(y, Call("show", <<By(Nibble(7))>>)), Eq(y, L(5)),
    Eq(y, Call("show", <<By(Call("grow", <<By(L(5))>>))>>)),
    Eq(y, Call("split", <<By(L(x)), To(L(y))>>)), Eq(y, Call("split", <<By(L(2)), To(L(x))>>)),
    Eq(y, Reg(L(1), L(3), True)), Eq(y, Reg(L(1), L(4), True)), Eq(y, Reg(L(x), L(4), True)),
    Eq(y, Reg(True, L(rst), True)), Eq(fixed, L(y)), Eq(rst, L(3)),
    Eq(x, If(L(2), True, L(1))), Eq(y, ConstIf(L(x), Num(1), Num(2))),
    Eq(y, WhenOn(17, <<True>>, L(x))), When(18, <<Eq(x, L(1))>>),
    For(y, L(8), <<Eq(x, L(y))>>), For(y, List(Num(1), Num(2)), <<>>), For(y, L(1), <<>>),
    LetIs(n, Num(4)), LetIs(n, L(x)), LetIs(n, L(16)), Eq(wide, L(5)), Eq(wide, ConstW)}

\* Records, methods, type paths and slices, alone, with every other and with
\* the statements their effects meet.
Menu2 == {
    Eq(x, PairOf(L(5), L(1))), Eq(x, PairOf(L(y), L(2))), Eq(21, PairOf(Num(9), True)), Eq(y, L(21)),
    Eq(x, Make("Pair", <<Is("a", L(6)), Is("a", Num(1))>>)), Eq(x, Make("none", <<Is("a", L(y))>>)),
    Eq(x, Make("Box", <<Is("v", L(y)), Is("w", L(1))>>)), Eq(x, Make("Box", <<Is("u", True)>>)),
    Eq(x, LinkOf(Binds("ready", L(y)))), Eq(x, LinkOf(Is("ready", L(1)))),
    Eq(y, Dot(L(x), "a")), Eq(y, Dot(L(x), "w")), Eq(y, Dot(L(21), "b")), Eq(y, Dot(L(9), "a")),
    Eq(y, Add(L(5), Num(9))), Eq(y, Add(Num(1), L(5))), Eq(y, Add(L(x), L(y))), Eq(x, Add(Num(1), Num(2))),
    Eq(y, Dots(L(5), "flip", <<>>)), Eq(y, Dots(L(1), "flip", <<>>)), Eq(y, Dots(L(7), "flip", <<>>)),
    Eq(x, Dots(L(7), "turn", <<By(L(y))>>)), Eq(y, Path(Value(TyA, Unspecified), "zero", <<>>)),
    Eq(y, Path(U(Lit(3), Unspecified), "zero", <<>>)), Eq(y, Path(Bool(Unspecified), "flip", <<>>)),
    Eq(y, Path(Bool(Unspecified), "zero", <<>>)),
    Eq(y, Path(U(W, Unspecified), "nope", <<>>)),
    Eq(y, Dots(Tup(L(1), L(x)), "first", <<>>)), Eq(y, Dots(Single(L(1)), "first", <<>>)),
    Eq(y, Dots(L(8), "replace", <<By(Num(1)), By(L(x))>>)), Eq(y, Dots(L(8), "replace", <<By(True)>>)),
    Eq(y, Dots(L(8), "enumerate", <<>>)), Eq(y, Dots(L(1), "reg", <<>>)),
    Eq(x, Slice(L(20), <<Num(1)>>, <<Num(3)>>)), Eq(x, Slice(L(20), <<Num(1)>>, <<Num(5)>>)),
    Eq(x, Slice(L(19), <<>>, <<Num(2)>>)), Eq(y, Slice(L(8), <<L(n)>>, <<>>)), Eq(y, Slice(L(1), <<>>, <<>>)),
    Eq(y, Slice(L(20), <<Num(3)>>, <<Add(Num(1), Num(1))>>)),
    Eq(y, SliceFrom(L(20), L(5), Num(2))), Eq(y, SliceFrom(L(20), Num(3), L(n))),
    Eq(y, SliceFrom(L(19), ConstW, Num(1))), Eq(y, At(L(20), Num(4))), Eq(y, At(L(x), Num(1))),
    Eq(y, Repeat(L(x), Lit(2))), Eq(y, Value1(L(x))), Do(L(x)), Eq(y, WhenOn(1, <<>>, L(2))),
    ForEach(i, y, L(20), <<>>), For(y, Call("range", <<By(Num(2))>>), <<>>), Eq(x, Call("range", <<By(L(n))>>)),
    Eq(x, Call("none", <<By(L(y))>>)), LetIs(n, Num(0)), Eq(y, [Nibble(7) EXCEPT !.ty = Wide3S]),
    Eq(y, CallNamed("tune", <<By(L(5))>>, <<Is("gain", Num(7)), Binds("done", L(x))>>)),
    Eq(y, CallNamed("tune", <<By(L(x)), By(L(6))>>, <<Binds("gain", L(y)), Is("N", Num(3)), Is("M", True)>>)),
    Eq(y, Call("split", <<To(L(1)), By(L(2))>>))}
Beside == {
    Eq(x, True), Eq(x, L(1)), Eq(x, L(2)), Eq(y, L(x)), Eq(x, L(y)), Eq(y, Num(9)), Eq(x, L(5)), Eq(y, L(5)),
    Eq(9, L(x)), Eq(y, Proj(L(x), 1)), Eq(y, Call("grow", <<By(L(x))>>)), Eq(y, Call("show", <<By(L(x))>>)),
    Eq(y, Reg(L(x), L(4), True)), Eq(fixed, L(y)), LetIs(n, Num(4)), LetIs(n, Num(0)), LetIs(n, L(x)),
    Eq(wide, L(5)), For(y, L(8), <<Eq(x, L(y))>>)}

\* The ones whose effects chain, in threes.
Chains == {
    Eq(x, True), Eq(x, L(1)), Eq(x, L(2)), Eq(y, L(x)), Eq(9, Tup(L(y), Num(5))),
    Eq(x, Call("same", <<By(L(y)), By(L(1))>>)), Eq(y, Call("grow", <<By(L(x))>>)),
    Eq(y, Call("show", <<By(L(x))>>)),
    Eq(y, Reg(L(x), L(3), True)), Eq(y, Reg(True, L(rst), True)), Eq(fixed, L(y))}

MCPreds == {[trait |-> tr, i |-> 4] : tr \in {"Show", "Flip", "Twist"}}

\* A register of a type that contains itself: the walk would not return.
Loops == {Eq(x, Tup(L(x), Num(1))), Eq(y, Reg(L(x), L(4), True))}
Of(menu, k) == {b \in [1 .. k -> menu] : ~(Loops \subseteq ToSet(b))}
Both2(m1, m2) == {<<s, t>> : s \in m1, t \in m2} \union {<<t, s>> : s \in m1, t \in m2}

Sized == {LetIs(n, Num(4)), LetIs(n, Num(0)), LetIs(n, L(x)), LetIs(n, L(16)), Eq(wide, L(5)), Eq(wide, ConstW)}
Fn(b) == [locals |-> IF ToSet(b) \intersect Sized = {} THEN MCLocals ELSE MCSizedLocals,
          preds |-> MCPreds, clocks |-> MCClocks,
          body |-> Block(b)]
MCFns == {Fn(b) : b \in Of(Menu, 1) \union Of(Menu, 2) \union Of(Chains, 3)
                        \union Of(Menu2, 1) \union Of(Menu2, 2) \union Both2(Menu2, Beside)}
=============================================================================
