----------------------------- MODULE MCLowering -----------------------------
(***************************************************************************)
(* Crates whose first definition puts one kind of value behind one kind of *)
(* binding, for types of every shape.                                      *)
(***************************************************************************)
EXTENDS SourceMeaning

(* Types. *)
U == [k |-> "bit", w |-> CLit(8)]
Vec(n, elem) == [k |-> "vec", len |-> n, elem |-> elem]
Tup(es) == [k |-> "tuple", es |-> es]
Agg(struct, fields) == [k |-> "agg", struct |-> struct, fields |-> fields]
Field(name, ty) == [name |-> name, in |-> FALSE, ty |-> ty]
InField(name, ty) == [name |-> name, in |-> TRUE, ty |-> ty]
Pair == Agg(TRUE, <<Field("a", U), Field("b", Tup(<<U, U>>))>>)
Bus == Agg(FALSE, <<Field("valid", U), InField("ready", U)>>)
Integer == [k |-> "int"]
Par(i) == [k |-> "par", i |-> i]
IntLocal(l) == [k |-> "local", l |-> l]

(* Expressions. *)
Num(v) == [k |-> "lit", v |-> v, ty |-> U]
Use(l, ty) == [k |-> "local", l |-> l, ty |-> ty]
Const(k) == [k |-> "const", c |-> k, ty |-> U]
Dot(e, f, ty) == [k |-> "field", e |-> e, f |-> f, ty |-> ty]
Elem(e, i) == [k |-> "index", e |-> e, i |-> i, ty |-> e.ty.elem]
Tuple(es) == [k |-> "tuple", es |-> es, ty |-> Tup([i \in DOMAIN es |-> es[i].ty])]
VecLit(es) == [k |-> "vec", es |-> es, ty |-> Vec(CLit(Len(es)), es[1].ty)]
Times2(e, n) == [k |-> "repeat", e |-> e, n |-> n, ty |-> Vec(n, e.ty)]
Record(ty, fields) == [k |-> "record", fields |-> fields, ty |-> ty]
Give(name, e) == [name |-> name, out |-> FALSE, e |-> e]
Take(name, place) == [name |-> name, out |-> TRUE, place |-> place]
Blk(stmts, e) == [stmts |-> stmts, tail |-> <<e>>]
Body(stmts) == [stmts |-> stmts, tail |-> <<>>]
If(c, a, b) == [k |-> "if", cond |-> c, then |-> a, else |-> b, ty |-> a.tail[1].ty]
ConstIfIs(k, v, a, b) == [k |-> "cif", a |-> k, v |-> v, then |-> a, else |-> b, ty |-> a.tail[1].ty]
Reg(d, rst, init, dom) == [k |-> "reg", d |-> d, rst |-> rst, init |-> init, dom |-> dom, ty |-> d.ty]
WhenVal(event, b, init) == [k |-> "when", event |-> event, body |-> b, init |-> init, ty |-> b.tail[1].ty]
Replace(v, i, x) == [k |-> "replace", e |-> v, i |-> i, x |-> x, ty |-> v.ty]
Block(b) == [k |-> "block", b |-> b, ty |-> b.tail[1].ty]
Slice(e, lo, hi, len) == [k |-> "slice", e |-> e, off |-> <<>>, lo |-> lo, hi |-> hi, w |-> CLit(0),
                          ty |-> Vec(len, e.ty.elem)]
Window(e, off, w) == [k |-> "slice", e |-> e, off |-> <<off>>, lo |-> <<>>, hi |-> <<>>, w |-> w,
                      ty |-> Vec(w, e.ty.elem)]
In(e) == [out |-> FALSE, e |-> e]
To(place) == [out |-> TRUE, place |-> place]
Named(name, conn) == [name |-> <<name>>, conn |-> conn]
Call(def, gens, args, named, ty) ==
  [k |-> "call", def |-> def, gens |-> gens, args |-> args, named |-> named, ty |-> ty]

(* Places and statements. *)
Bare(l) == [l |-> l, projs |-> <<>>]
DotP(place, f) == [place EXCEPT !.projs = Append(@, [k |-> "field", f |-> f])]
ElemP(place, i) == [place EXCEPT !.projs = Append(@, [k |-> "index", e |-> i])]
RangeP(l, lo, hi) == [l |-> l, projs |-> <<[k |-> "range", off |-> <<>>, lo |-> lo, hi |-> hi, w |-> CLit(0)]>>]
Let(l, e) == [k |-> "let", l |-> l, e |-> e]
Var(l) == [k |-> "var", l |-> l]
Eq(place, e) == [k |-> "eq", lhs |-> place, rhs |-> e]
Return(e) == [k |-> "return", e |-> e]
Expr(e) == [k |-> "expr", e |-> e]
WhenDo(event, stmts, init) == [k |-> "when", event |-> event, body |-> Body(stmts), init |-> init]
For(idx, elem, iter, stmts) == [k |-> "for", idx |-> idx, elem |-> elem, iter |-> iter, body |-> Body(stmts)]

(* Definitions. *)
Dom(name) == [kind |-> "dom", name |-> name]
Size(name, val) == [kind |-> "const", name |-> name, val |-> val]
Clk == [k |-> "dom", i |-> 1]
Local(name, ty, kind) == [name |-> <<name>>, ty |-> ty, dom |-> 1, kind |-> kind, result |-> <<>>,
                          mut |-> FALSE, is |-> CLit(0)]
ResultLocal(base, ty) == [Local("return", ty, "let") EXCEPT !.result = base]
Mut(name, ty) == [Local(name, ty, "let") EXCEPT !.mut = TRUE]
IntegerLocal(name, k) == [Local(name, Integer, "let") EXCEPT !.is = k]
Param(l, name, ty) == [local |-> l, named |-> FALSE, out |-> FALSE, default |-> <<>>, name |-> <<name>>, ty |-> ty]
OutParam(l, name, ty) == [Param(l, name, ty) EXCEPT !.out = TRUE]
Whole(l, ty) == <<[base |-> <<"result">>, ty |-> ty, path |-> <<>>, local |-> l]>>
Def(kind, name, gens, params, results, ret, locals, stmts, tail) ==
  [kind |-> kind, name |-> <<name>>, gens |-> gens, params |-> params, results |-> results,
   ret |-> ret, locals |-> locals, body |-> [stmts |-> stmts, tail |-> tail]]
Opaque(op, exprForm, n) ==
  [kind |-> "verilog", name |-> <<"op">>, gens |-> <<>>, op |-> op, exprForm |-> exprForm,
   params |-> [i \in 1..n |-> Param(i, "p", U)], results |-> <<>>, ret |-> <<U>>,
   locals |-> [i \in 1..n |-> Local("p", U, "param")], body |-> Body(<<>>)]

(***************************************************************************)
(* What the first definition uses: `pick` is a module, `sel` an inline     *)
(* function whose locals have the names of the caller's, `add` an operator, *)
(* `net` an inline verilog body.                                           *)
(***************************************************************************)
PickDef(ty) ==
  Def("module", "pick", <<>>,
      <<Param(1, "p", ty), Param(2, "q", ty),
        [Param(3, "s", U) EXCEPT !.named = TRUE, !.default = <<1>>]>>,
      Whole(4, ty), <<ty>>,
      <<Local("p", ty, "param"), Local("q", ty, "param"), Local("s", U, "param"),
        ResultLocal(<<"result">>, ty)>>,
      <<>>, <<If(Use(3, U), Blk(<<>>, Use(1, ty)), Blk(<<>>, Use(2, ty)))>>)
SelDef(ty) ==
  Def("inline", "sel", <<>>,
      <<Param(1, "x", ty), Param(2, "t", ty), Param(3, "c", U)>>,
      Whole(5, ty), <<ty>>,
      <<Local("x", ty, "param"), Local("t", ty, "param"), Local("c", U, "param"),
        Local("t", ty, "let"), ResultLocal(<<"result">>, ty)>>,
      <<Let(4, If(Use(3, U), Blk(<<>>, Use(1, ty)), Blk(<<>>, Use(2, ty))))>>, <<Use(4, ty)>>)
Uses(ty) == <<PickDef(ty), SelDef(ty), Opaque(11, TRUE, 2), Opaque(12, FALSE, 2)>>
Pick(p, q, named) == Call(2, <<>>, <<In(p), In(q)>>, named, p.ty)
Sel(p, q, s) == Call(3, <<>>, <<In(p), In(q), In(s)>>, <<>>, p.ty)
Add(a, b) == Call(4, <<>>, <<In(a), In(b)>>, <<>>, U)
Add2(a, b) == Call(5, <<>>, <<In(a), In(b)>>, <<>>, U)
NetOp(a, b) == Call(5, <<>>, <<In(a), In(b)>>, <<>>, U)

(* main{dom clk, N}(x: T, y: T, c: U): locals 4 `t`, 5 `v`, 6 `t` again.  *)
MainLocals(ty) ==
  <<Local("x", ty, "param"), Local("y", ty, "param"), Local("c", U, "param"),
    Local("t", ty, "let"), Local("v", ty, "let"), Local("t", ty, "let")>>
MainParams(ty) == <<Param(1, "x", ty), Param(2, "y", ty), Param(3, "c", U)>>
MainGens == <<Dom("clk"), Size("N", 2)>>
X(ty) == Use(1, ty)
Y(ty) == Use(2, ty)
C == Use(3, U)

(* Values of any type. *)
Arms(ty) == If(C, Blk(<<>>, X(ty)), Blk(<<>>, Y(ty)))
ArmLet(ty) == If(C, Blk(<<Let(6, Y(ty))>>, Use(6, ty)), Blk(<<>>, Block(Blk(<<>>, X(ty)))))
PickNamed(ty) == Pick(X(ty), Y(ty), <<Named("s", In(C))>>)
PickDefault(ty) == Pick(Y(ty), X(ty), <<>>)
PickPick(ty) == Pick(PickNamed(ty), Arms(ty), <<Named("s", In(C))>>)
Sels(ty) == Sel(X(ty), Y(ty), C)
SelSel(ty) == Sel(Y(ty), Sel(X(ty), Y(ty), C), C)
SelPick(ty) == Sel(Pick(X(ty), Y(ty), <<>>), PickNamed(ty), C)
ClockedIf(ty) == WhenVal(1, Blk(<<>>, Arms(ty)), <<>>)
ClockedInit(ty) == WhenVal(1, Blk(<<>>, Y(ty)), <<X(ty)>>)
Flopped(ty) == Reg(X(ty), C, Y(ty), 1)
Literal(ty) ==
  CASE ty.k = "tuple" -> Tuple(<<Dot(X(ty), "1", ty.es[1]), Dot(Y(ty), "0", ty.es[2])>>)
    [] ty.k = "agg"   -> Record(ty, <<Give("b", Dot(X(ty), "b", ty.fields[2].ty)),
                                      Give("a", Dot(Y(ty), "a", ty.fields[1].ty))>>)
    [] ty.k = "vec"   -> VecLit(<<Elem(X(ty), Num(1)), Elem(Y(ty), Num(0))>>)
    [] OTHER          -> Add(X(ty), NetOp(Y(ty), C))
ConstArm(ty) ==
  IF ty.k = "bit" THEN ConstIfIs(Par(2), 2, Blk(<<Let(6, X(ty))>>, Use(6, ty)),
                                 Blk(<<Let(4, Y(ty))>>, Use(4, ty)))
  ELSE ConstIfIs(CLit(3), 2, Blk(<<>>, X(ty)), Blk(<<>>, Y(ty)))
ValuesOf(ty) ==
  <<X(ty), Arms(ty), ArmLet(ty), PickNamed(ty), PickDefault(ty), PickPick(ty), Sels(ty),
    SelSel(ty), SelPick(ty), ClockedIf(ty), Literal(ty), ConstArm(ty)>>

(* Bindings: the statements, the tail and the results of main. *)
Bind1(ty, e) == [stmts |-> <<Let(4, e)>>, tail |-> <<Use(4, ty)>>, out |-> FALSE]
Bind2(ty, e) == [stmts |-> <<>>, tail |-> <<e>>, out |-> FALSE]
Bind3(ty, e) == [stmts |-> <<Return(e)>>, tail |-> <<>>, out |-> FALSE]
Bind4(ty, e) == [stmts |-> <<Var(5), Eq(Bare(5), e)>>, tail |-> <<Use(5, ty)>>, out |-> FALSE]
Bind5(ty, e) == [stmts |-> <<Eq(Bare(7), e)>>, tail |-> <<>>, out |-> FALSE]
Bind6(ty, e) == [stmts |-> <<Eq(Bare(7), e)>>, tail |-> <<>>, out |-> TRUE]
BindingsOf(ty, e) == <<Bind1(ty, e), Bind2(ty, e), Bind3(ty, e), Bind4(ty, e), Bind5(ty, e), Bind6(ty, e)>>
Main(ty, b) ==
  Def("module", "main", MainGens,
      MainParams(ty) \o (IF b.out THEN <<OutParam(7, "o", ty)>> ELSE <<>>),
      IF b.out THEN <<>> ELSE Whole(7, ty), IF b.out THEN <<>> ELSE <<ty>>,
      MainLocals(ty) \o <<IF b.out THEN Local("o", ty, "param") ELSE ResultLocal(<<"result">>, ty)>>,
      b.stmts, b.tail)

Shapes == <<U, Tup(<<U, U>>), Pair, Vec(CLit(2), U), Vec(CLit(2), Pair)>>
CrateOf(ty, b) == <<Main(ty, b)>> \o Uses(ty)
ShapeCrates(ty) ==
  FlattenSeq([v \in DOMAIN ValuesOf(ty) |->
    [b \in 1..6 |-> CrateOf(ty, BindingsOf(ty, ValuesOf(ty)[v])[b])]])
  \o [b \in 1..3 |-> CrateOf(ty, BindingsOf(ty, ClockedInit(ty))[b + 3])]
  \o [b \in 1..3 |-> CrateOf(ty, BindingsOf(ty, Flopped(ty))[b + 3])]
  \o <<CrateOf(ty, Bind1(ty, Flopped(ty)))>>

(***************************************************************************)
(* The other families: a function of some inputs, its result the local     *)
(* after them, then the locals of its body.                                *)
(***************************************************************************)
Arg(name, ty) == [name |-> name, ty |-> ty]
Fn(kind, name, gens, ins, ret, locals, stmts, tail) ==
  Def(kind, name, gens,
      [i \in DOMAIN ins |-> Param(i, ins[i].name, ins[i].ty)],
      Whole(Len(ins) + 1, ret), <<ret>>,
      [i \in DOMAIN ins |-> Local(ins[i].name, ins[i].ty, "param")]
        \o <<ResultLocal(<<"result">>, ret)>> \o locals,
      stmts, tail)

(* Ports with a field against the flow: i: Bus is local 1, result 2, b 3. *)
Through(kind) == Fn(kind, "through", <<>>, <<Arg("p", Bus)>>, Bus, <<>>, <<>>, <<Use(1, Bus)>>)
Sink == [Def("module", "sink", <<>>,
             <<Param(1, "p", Bus), [OutParam(2, "v", U) EXCEPT !.named = TRUE]>>, <<>>, <<>>,
             <<Local("p", Bus, "param"), Local("v", U, "param")>>,
             <<Eq(Bare(2), Dot(Use(1, Bus), "valid", U)), Eq(DotP(Bare(1), "ready"), Num(9))>>, <<>>)
         EXCEPT !.ret = <<>>]
I == Use(1, Bus)
Forwarded == Record(Bus, <<Take("ready", DotP(Bare(1), "ready")), Give("valid", Dot(I, "valid", U))>>)
Sent == Call(2, <<>>, <<In(I)>>, <<>>, Bus)
PortMain(stmts, tail) ==
  <<Fn("module", "main", <<>>, <<Arg("i", Bus)>>, Bus, <<Local("b", Bus, "let")>>, stmts, tail),
    Through("module")>>
PortCrates ==
  <<PortMain(<<>>, <<I>>), PortMain(<<Eq(Bare(2), I)>>, <<>>), PortMain(<<Return(I)>>, <<>>),
    PortMain(<<>>, <<Forwarded>>), PortMain(<<Eq(Bare(2), Forwarded)>>, <<>>),
    PortMain(<<Let(3, Forwarded)>>, <<Use(3, Bus)>>), PortMain(<<Return(Forwarded)>>, <<>>),
    PortMain(<<Var(3), Eq(Bare(3), Forwarded)>>, <<Use(3, Bus)>>),
    PortMain(<<>>, <<Sent>>), PortMain(<<Eq(Bare(2), Sent)>>, <<>>), PortMain(<<Return(Sent)>>, <<>>),
    PortMain(<<Let(3, Sent)>>, <<Use(3, Bus)>>),
    PortMain(<<Let(3, Sent), Eq(Bare(2), Call(2, <<>>, <<In(Use(3, Bus))>>, <<>>, Bus))>>, <<>>),
    <<Fn("module", "main", <<>>, <<Arg("i", Bus)>>, U, <<Local("t", U, "let")>>,
         <<Expr(Call(2, <<>>, <<In(I)>>, <<Named("v", To(Bare(3)))>>, U))>>, <<Use(3, U)>>), Sink>>,
    <<Fn("module", "main", <<>>, <<Arg("i", Bus)>>, Tup(<<U, U>>), <<>>,
         <<Expr(Call(2, <<>>, <<In(I)>>, <<Named("v", To(DotP(Bare(2), "1")))>>, U)),
           Eq(DotP(Bare(2), "0"), Num(4))>>, <<>>), Sink>>>>

(* Loops: v is local 1, w 2, c 3, result 4, i 5, e 6, k 7 (a genvar), t 8, *)
(* e of an inner loop 9, j 10, a mutable acc 11.                           *)
LoopMain(n, ty, ret, acc, stmts, tail) ==
  <<Fn("module", "main", MainGens, <<Arg("v", Vec(n, ty)), Arg("w", Vec(n, ty)), Arg("c", U)>>, ret,
       <<Local("i", U, "let"), Local("e", ty, "let"), Local("k", U, "genvar"), Local("t", ty, "let"),
         Local("e", IF ty.k = "vec" THEN ty.elem ELSE U, "let"), Local("j", U, "let"),
         Mut("acc", acc), Local("m", ret, "let")>>, stmts, tail)>> \o Uses(ty)
V(n, ty) == Use(1, Vec(n, ty))
W(n, ty) == Use(2, Vec(n, ty))
To1(n) == [k |-> "lit", v |-> 0, ty |-> Vec(n, U)]                       \* the range 0..n
OverV(n, ty, stmts) == For(<<5>>, 6, V(n, ty), stmts)
OverK(n, stmts) == For(<<>>, 7, To1(n), stmts)
AtI == ElemP(Bare(4), Use(5, U))
AtK == ElemP(Bare(4), Use(7, U))
VK(n, ty) == Elem(V(n, ty), Use(7, U))
WK(n, ty) == Elem(W(n, ty), Use(7, U))
LoopsOf(n, ty) ==
  LET main(stmts) == LoopMain(n, ty, Vec(n, ty), U, stmts, <<>>)
      e == Use(6, ty)
      wi == Elem(W(n, ty), Use(5, U))
  IN <<main(<<OverV(n, ty, <<Eq(AtI, e)>>)>>),
       main(<<OverV(n, ty, <<Let(8, If(Use(3, U), Blk(<<>>, e), Blk(<<>>, wi))), Eq(AtI, Use(8, ty))>>)>>),
       main(<<For(<<>>, 6, W(n, ty), <<Let(8, Pick(e, e, <<>>))>>), Eq(Bare(4), V(n, ty))>>),
       main(<<OverK(n, <<Let(8, Pick(VK(n, ty), WK(n, ty), <<Named("s", In(Use(3, U)))>>)),
                         Eq(AtK, Use(8, ty))>>)>>),
       main(<<OverK(n, <<Eq(AtK, Sel(VK(n, ty), WK(n, ty), Use(3, U)))>>)>>),
       main(<<OverK(n, <<Eq(AtK, WhenVal(1, Blk(<<>>, VK(n, ty)), <<>>))>>)>>),
       main(<<OverK(n, <<Var(8), Eq(Bare(8), WK(n, ty)), Eq(AtK, Use(8, ty))>>)>>)>>
Nested(n) ==
  LoopMain(n, Vec(CLit(2), U), Vec(n, Vec(CLit(2), U)), U,
           <<OverV(n, Vec(CLit(2), U),
                   <<For(<<10>>, 9, Use(6, Vec(CLit(2), U)),
                         <<Eq(ElemP(AtI, Use(10, U)), Add(Use(9, U), Elem(Use(6, Vec(CLit(2), U)), Num(0))))>>)>>)>>, <<>>)
LoopCrates == LoopsOf(CLit(2), U) \o LoopsOf(CLit(2), Pair) \o LoopsOf(Par(2), U)
              \o <<Nested(CLit(2)), Nested(Par(2))>>

(* Folds: each leaf of the accumulator reads itself and others' inputs. *)
Acc(ty) == Use(11, ty)
FoldMain(ty, stmts) == LoopMain(CLit(2), U, ty, ty, stmts, <<Acc(ty)>>)
Sum2(a, b) == Tuple(<<Add(Dot(Acc(Tup(<<U, U>>)), "0", U), a), Add(b, Dot(Acc(Tup(<<U, U>>)), "1", U))>>)
FoldCrates ==
  <<FoldMain(U, <<Let(11, Use(3, U)), OverV(CLit(2), U, <<Eq(Bare(11), Add(Acc(U), Use(6, U)))>>)>>),
    FoldMain(U, <<Let(11, Num(1)), OverK(CLit(2), <<Eq(Bare(11), Add(VK(CLit(2), U), Acc(U)))>>),
                  Eq(Bare(11), Add(Acc(U), Acc(U))), OverV(CLit(2), U, <<Eq(Bare(11), Add(Acc(U), Use(6, U)))>>)>>),
    FoldMain(Tup(<<U, U>>),
             <<Let(11, Tuple(<<Use(3, U), Num(2)>>)),
               OverV(CLit(2), U, <<Eq(Bare(11), Sum2(Use(6, U), Elem(W(CLit(2), U), Use(5, U))))>>)>>),
    FoldMain(Tup(<<U, U>>),
             <<Let(11, Tuple(<<Num(5), Use(3, U)>>)), Eq(DotP(Bare(11), "1"), Dot(Acc(Tup(<<U, U>>)), "0", U)),
               Eq(DotP(Bare(11), "0"), Add(Dot(Acc(Tup(<<U, U>>)), "1", U), Use(3, U)))>>),
    FoldMain(Vec(CLit(2), U),
             <<Let(11, W(CLit(2), U)),
               OverV(CLit(2), U, <<Eq(ElemP(Bare(11), Use(5, U)), Add(Use(6, U), Elem(Acc(Vec(CLit(2), U)), Num(0))))>>)>>)>>

(* Memories: m is local 12, written under guards at an edge of the clock. *)
MemMain(stmts) == LoopMain(CLit(2), U, Vec(CLit(2), U), U, <<Var(12)>> \o stmts, <<Use(12, Vec(CLit(2), U))>>)
Cell(i) == ElemP(Bare(12), Num(i))
VAt(i) == Elem(V(CLit(2), U), Num(i))
WAt(i) == Elem(W(CLit(2), U), Num(i))
Guard(c, a, b) == Expr([k |-> "if", cond |-> c, then |-> Body(a), else |-> Body(b), ty |-> U])
MemCrates ==
  <<MemMain(<<WhenDo(1, <<Eq(Cell(0), VAt(1)), Eq(Cell(1), WAt(0))>>, <<>>)>>),
    MemMain(<<WhenDo(1, <<Guard(Use(3, U), <<Eq(Cell(0), VAt(0))>>, <<Eq(Cell(1), VAt(1))>>)>>,
                     <<<<Eq(Bare(12), VecLit(<<Num(7), Num(8)>>))>>>>)>>),
    MemMain(<<WhenDo(1, <<Eq(Cell(0), WAt(1)),
                          Guard(Use(3, U), <<Guard(VAt(0), <<Eq(Cell(0), VAt(1))>>, <<Eq(Cell(0), WAt(0))>>)>>,
                                <<Guard(WAt(0), <<Eq(Cell(1), WAt(1))>>, <<>>)>>)>>, <<>>)>>),
    MemMain(<<WhenDo(1, <<Let(8, Add(VAt(0), Elem(Use(12, Vec(CLit(2), U)), Num(1)))), Eq(Cell(0), Use(8, U)),
                          Guard(Use(8, U), <<Let(6, Add(Use(8, U), WAt(1))), Eq(Cell(1), Use(6, U))>>, <<>>)>>,
                     <<<<Eq(Cell(1), Num(3))>>>>)>>),
    MemMain(<<WhenDo(1, <<Eq(Bare(12), V(CLit(2), U)), Guard(Use(3, U), <<Eq(Cell(1), Num(6))>>, <<>>)>>, <<>>)>>)>>

(* Slices of v: Vec(n, T) and what is built from several values; result is 4. *)
N == Par(2)
Ins(n, ty) == <<Arg("v", Vec(n, ty)), Arg("w", Vec(n, ty)), Arg("c", U)>>
SliceMain(n, ty, ret, stmts, tail) ==
  <<Fn("module", "main", MainGens, Ins(n, ty), ret, <<Local("k", U, "genvar")>>, stmts, tail)>> \o Uses(ty)
Low(k) == <<k>>
Sliced(n, ty, e) == SliceMain(n, ty, e.ty, <<>>, <<e>>)
Four == CLit(4)
SlicesOf(ty) ==
  <<Sliced(Four, ty, Slice(V(Four, ty), Low(CLit(1)), Low(CLit(3)), CLit(2))),
    Sliced(Four, ty, Slice(V(Four, ty), <<>>, Low(CLit(3)), CLit(3))),
    Sliced(Four, ty, Slice(W(Four, ty), Low(CLit(2)), <<>>, CLit(2))),
    Sliced(Four, ty, Slice(V(Four, ty), Low(CLit(2)), Low(CLit(2)), CLit(0))),
    Sliced(Four, ty, Slice(V(Four, ty), Low(N), Low(Four), Sub(Four, N))),
    Sliced(N, ty, Slice(V(N, ty), Low(N), <<>>, Sub(N, N))),
    Sliced(Four, ty, Slice(V(Four, ty), <<>>, Low(Sub(N, CLit(1))), Sub(N, CLit(1)))),
    Sliced(Four, ty, Window(W(Four, ty), Const(CLit(1)), CLit(2))),
    Sliced(Four, ty, Window(W(Four, ty), Const(CLit(1)), N)),
    Sliced(Four, ty, Slice(If(C, Blk(<<>>, V(Four, ty)), Blk(<<>>, W(Four, ty))), Low(CLit(1)), Low(CLit(3)), CLit(2))),
    Sliced(Four, ty, Replace(V(Four, ty), Num(2), Elem(W(Four, ty), Num(0)))),
    Sliced(Four, ty, Replace(Replace(V(Four, ty), Num(1), Elem(W(Four, ty), Num(3))), Num(1),
                             Elem(V(Four, ty), Num(0)))),
    Sliced(N, ty, Times2(Elem(W(N, ty), Num(1)), CLit(3))),
    Sliced(N, ty, Times2(Elem(V(N, ty), Num(0)), N)),
    SliceMain(Four, ty, Vec(Four, ty),
              <<Eq(RangeP(4, <<>>, Low(CLit(2))), Slice(W(Four, ty), Low(CLit(2)), <<>>, CLit(2))),
                Eq(RangeP(4, Low(CLit(2)), <<>>), Slice(V(Four, ty), <<>>, Low(CLit(2)), CLit(2)))>>, <<>>),
    SliceMain(Four, ty, Vec(Four, ty),
              <<Eq(RangeP(4, <<>>, Low(N)), Slice(W(Four, ty), Low(CLit(2)), <<>>, CLit(2))),
                Eq(ElemP(Bare(4), Num(2)), Elem(V(Four, ty), Num(1))),
                Eq(ElemP(Bare(4), Num(3)), Elem(V(Four, ty), Num(3)))>>, <<>>)>>
SliceCrates == SlicesOf(U) \o SlicesOf(Pair)

(* Sizes: main{N}(v: Vec(N, U), c) with `let w = N - 1` (local 4), a Vec of *)
(* that size (5), and callees with a size of their own.                     *)
SizeGens == <<Size("K", 2)>>
Rep(kind) == Fn(kind, "rep", SizeGens, <<Arg("a", U)>>, Vec(Par(1), U), <<>>, <<>>,
                <<IF kind = "module" THEN Times2(Use(1, U), Par(1))
                  ELSE Slice(VecLit(<<Use(1, U), Use(1, U), Num(5)>>), <<>>, Low(Par(1)), Par(1))>>)
Tail2 == Fn("inline", "tail2", SizeGens, <<Arg("v", Vec(Par(1), U)), Arg("v", U)>>, U, <<Local("v", U, "let")>>,
            <<Let(4, ConstIfIs(Par(1), 2, Blk(<<>>, Elem(Use(1, Vec(Par(1), U)), Num(1))), Blk(<<>>, Use(2, U))))>>,
            <<Add2(Use(4, U), Const(Sub(Par(1), CLit(1))))>>)
Deep == Fn("inline", "deep", SizeGens, <<Arg("v", Vec(Par(1), U))>>, U, <<>>, <<>>,
           <<Call(4, <<Sub(Par(1), CLit(1))>>, <<In(Slice(Use(1, Vec(Par(1), U)), Low(CLit(1)), <<>>,
                                                         Sub(Par(1), CLit(1)))), In(Num(8))>>, <<>>, U)>>)
SizeMain(ret, stmts, tail) ==
  <<Fn("module", "main", <<Dom("clk"), Size("N", 3)>>, <<Arg("v", Vec(N, U)), Arg("c", U)>>, ret,
       <<IntegerLocal("w", Sub(N, CLit(1))), Local("r", Vec(IntLocal(4), U), "let"),
         IntegerLocal("q", CLit(2)), Local("p", Vec(IntLocal(6), U), "let")>>, stmts, tail),
    Rep("module"), Rep("inline"), Tail2, Opaque(11, TRUE, 2), Deep>>
LetW == Let(4, Const(Sub(N, CLit(1))))
LetQ == Let(6, Const(CLit(2)))
VN == Use(1, Vec(N, U))
C2 == Use(2, U)
RepCall(def, k) == Call(def, <<k>>, <<In(C2)>>, <<>>, Vec(k, U))
TailCall(k, e) == Call(4, <<k>>, <<In(e), In(C2)>>, <<>>, U)
SizeCrates ==
  <<SizeMain(Vec(Sub(N, CLit(1)), U), <<LetW, Let(5, Slice(VN, Low(CLit(1)), <<>>, Sub(N, CLit(1))))>>,
             <<Use(5, Vec(IntLocal(4), U))>>),
    SizeMain(Vec(N, U), <<>>, <<RepCall(2, N)>>),
    SizeMain(Vec(N, U), <<>>, <<RepCall(3, N)>>),
    SizeMain(Vec(CLit(2), U), <<>>, <<RepCall(2, CLit(2))>>),
    SizeMain(Vec(CLit(2), U), <<>>, <<RepCall(3, CLit(2))>>),
    SizeMain(Vec(Sub(N, CLit(1)), U), <<LetW, Let(5, RepCall(2, IntLocal(4)))>>, <<Use(5, Vec(IntLocal(4), U))>>),
    SizeMain(Vec(Sub(N, CLit(1)), U), <<LetW, Let(5, RepCall(3, IntLocal(4)))>>, <<Use(5, Vec(IntLocal(4), U))>>),
    SizeMain(Vec(CLit(2), U), <<LetQ, Let(7, RepCall(3, IntLocal(6)))>>, <<Use(7, Vec(IntLocal(6), U))>>),
    SizeMain(U, <<>>, <<TailCall(N, VN)>>),
    SizeMain(U, <<LetW, Let(5, Slice(VN, Low(CLit(1)), <<>>, Sub(N, CLit(1))))>>,
             <<TailCall(IntLocal(4), Use(5, Vec(IntLocal(4), U)))>>),
    SizeMain(U, <<>>, <<TailCall(CLit(2), Slice(VN, <<>>, Low(CLit(2)), CLit(2)))>>),
    SizeMain(U, <<>>, <<TailCall(CLit(1), Slice(VN, Low(CLit(2)), <<>>, CLit(1)))>>),
    SizeMain(U, <<>>, <<Call(6, <<N>>, <<In(VN)>>, <<>>, U)>>),
    SizeMain(U, <<>>, <<Call(6, <<CLit(2)>>, <<In(Slice(VN, Low(CLit(1)), Low(CLit(3)), CLit(2)))>>, <<>>, U)>>)>>

(* Calls with outs: main(x, c) with a var p (3) and the result (4).        *)
Halves == [Def("module", "halves", <<Dom("ck")>>,
               <<Param(1, "a", U), OutParam(2, "b", Tup(<<U, U>>)), [OutParam(3, "d", U) EXCEPT !.named = TRUE]>>,
               <<>>, <<>>,
               <<Local("a", U, "param"), Local("b", Tup(<<U, U>>), "param"), Local("d", U, "param")>>,
               <<Eq(DotP(Bare(2), "0"), Use(1, U)), Eq(DotP(Bare(2), "1"), Dot(Use(2, Tup(<<U, U>>)), "0", U)),
                 Eq(Bare(3), Reg(Use(1, U), Num(1), Num(0), 1))>>, <<>>) EXCEPT !.ret = <<>>]
OutMain(ret, stmts, tail) ==
  <<Fn("module", "main", MainGens, <<Arg("x", U), Arg("c", U)>>, ret,
       <<Local("p", Tup(<<U, U>>), "let"), Local("q", U, "let")>>, stmts, tail),
    Halves, Opaque(11, TRUE, 2)>>
HalvesOf(e, b, d) == Expr(Call(2, <<Clk>>, <<In(e), To(b)>>, <<Named("d", To(d))>>, U))
OutCrates ==
  <<OutMain(Tup(<<U, U>>), <<HalvesOf(Use(1, U), Bare(4), Bare(5))>>,
            <<Tuple(<<Dot(Use(4, Tup(<<U, U>>)), "1", U), Use(5, U)>>)>>),
    OutMain(Vec(CLit(2), U), <<Var(4), HalvesOf(Use(2, U), Bare(4), ElemP(Bare(3), Num(1))),
                               Eq(ElemP(Bare(3), Num(0)), Dot(Use(4, Tup(<<U, U>>)), "0", U))>>, <<>>),
    OutMain(Tup(<<U, Tup(<<U, U>>)>>), <<HalvesOf(Use(1, U), DotP(Bare(3), "1"), DotP(Bare(3), "0"))>>, <<>>),
    OutMain(U, <<HalvesOf(Use(1, U), Bare(4), Bare(3))>>, <<>>)>>

(* An accumulator whose parts are computed from each other.               *)
Swapped(a) == Tuple(<<Dot(Acc(Tup(<<U, U>>)), "1", U), Add(Dot(Acc(Tup(<<U, U>>)), "0", U), a)>>)
CrossCrates ==
  <<FoldMain(Tup(<<U, U>>),
             <<Let(11, Tuple(<<Use(3, U), Num(2)>>)), OverV(CLit(2), U, <<Eq(Bare(11), Swapped(Use(6, U)))>>)>>)>>

MCCrates == FlattenSeq([i \in DOMAIN Shapes |-> ShapeCrates(Shapes[i])])
            \o PortCrates \o LoopCrates \o FoldCrates \o MemCrates
            \o SliceCrates \o SizeCrates \o OutCrates

(***************************************************************************)
(* The properties.                                                         *)
(***************************************************************************)
Seeds == {1, 2}

\* The SystemVerilog of a definition means what its source says: whatever
\* mixture of instances, splices, muxes, registers, loops and slices lowering
\* makes of an expression, and whatever it names and orders them, each leaf that
\* the module drives carries, at every tick, the value its source denotes
\* (lower_module and everything it calls).
MeansTheSource ==
  Finished => \A seed \in Seeds, t \in 0..2 :
    ModuleMeans(Top(modules, Emitted(1), ParEnv(crate[1]), seed), AsTop(crate, 1, seed), t)

\* What is emitted is a legal module: no `todo!` and no panic on the way, each
\* name is declared once in its scope and before it is read, although splices
\* merge the locals of several bodies into it, no input is driven, and every
\* element of every net has exactly one driver.
WellFormed ==
  Finished => LET x == Top(modules, Emitted(1), ParEnv(crate[1]), 1)
              IN ~x.m.fault /\ NamesResolve(x) /\ EachDrivenOnce(x)

\* What is emitted is a legal module, and the one the source describes.
ModulesAreRight == WellFormed /\ MeansTheSource
=============================================================================
