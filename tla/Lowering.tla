------------------------------ MODULE Lowering ------------------------------
(***************************************************************************)
(* How backend/lower.rs turns one definition's MIR into the items of a     *)
(* SystemVerilog module: aggregates become leaves, every statement and     *)
(* expression becomes nets, assignments, registers and instances, inline   *)
(* bodies are merged under a prefix of their own.                          *)
(*                                                                         *)
(* A definition is a record: its kind ("module", "inline" with a Mirin     *)
(* body, "verilog" with an inline expression), generics, parameters,       *)
(* result places, locals and MIR block.  A const is a literal, a const     *)
(* generic, an `integer` local, a difference, or SystemVerilog text already *)
(* rendered in a caller's frame.                                           *)
(***************************************************************************)
EXTENDS Netlist

CONSTANTS Crates      \* a sequence of crates to lower, each a sequence of definitions

VARIABLES crate,      \* the crate being lowered
          at,         \* the definition whose module is built (0 before the first)
          todo,       \* the statements of its block still to lower
          sv,         \* what its lowering has emitted
          modules     \* the modules finished

vars == <<crate, at, todo, sv, modules>>

(***************************************************************************)
(* Consts and types.                                                       *)
(***************************************************************************)
CLit(v) == [k |-> "lit", v |-> v]
Sym(e) == [k |-> "sym", e |-> e]
Sub(a, b) == [k |-> "sub", a |-> a, b |-> b]

(* What a const is worth inside definition d, if it needs no generic. *)
RECURSIVE EvalConst(_, _)
EvalConst(d, k) ==
  CASE k.k = "lit"   -> {k.v}
    [] k.k = "local" -> EvalConst(d, d.locals[k.l].is)
    [] k.k = "sub"   -> {a - b : a \in EvalConst(d, k.a), b \in EvalConst(d, k.b)}
    [] OTHER         -> {}

RECURSIVE SubstConst(_, _)
SubstConst(k, subst) ==
  CASE k.k = "par" /\ k.i \in DOMAIN subst ->
         IF subst[k.i].k \in {"none", "dom"} THEN k ELSE subst[k.i]
    [] k.k = "sub" -> Sub(SubstConst(k.a, subst), SubstConst(k.b, subst))
    [] OTHER -> k

(* One name per local: the first use of a name keeps it, later ones get    *)
(* `_1`, `_2`, ...                                                         *)
UniqueName(d, l) ==
  LET n == Cardinality({j \in 1..(l - 1) : d.locals[j].name = d.locals[l].name})
  IN IF n = 0 THEN d.locals[l].name
     ELSE d.locals[l].name \o <<"_" \o ToString(n)>>
LocalName(c, l) ==
  IF c.d.locals[l].result # <<>> THEN c.d.locals[l].result
  ELSE c.prefix \o UniqueName(c.d, l)

(* A symbolic `integer` local rides a localparam. *)
IsSymbolic(d, l) == EvalConst(d, d.locals[l].is) = {}
RECURSIVE Promoted(_, _)
Promoted(c, k) ==
  CASE k.k = "local" /\ IsSymbolic(c.d, k.l) -> Sym(Id(LocalName(c, k.l)))
    [] k.k = "sub" -> Sub(Promoted(c, k.a), Promoted(c, k.b))
    [] OTHER -> k

Fold(c, k) == IF EvalConst(c.d, k) = {} THEN k ELSE CLit(CHOOSE v \in EvalConst(c.d, k) : TRUE)
Ground(c, k) == Fold(c, Promoted(c, SubstConst(k, c.subst)))

RECURSIVE Render(_, _)
Render(c, k) ==
  CASE k.k = "lit" -> Lit(k.v)
    [] k.k = "par" -> Id(<<c.d.gens[k.i].name>>)
    [] k.k = "sym" -> k.e
    [] k.k = "sub" -> Minus(Render(c, k.a), Render(c, k.b))
    [] OTHER -> Marker
RenderConst(c, k) == Render(c, Ground(c, k))

(* A type flattens into leaves: a Vec adds an unpacked dimension to each    *)
(* leaf of its element, a tuple, struct or port one word to its suffix, and *)
(* an `in` field of a port turns the direction around.                      *)
Under(word, leaves) == [i \in DOMAIN leaves |-> [leaves[i] EXCEPT !.suf = <<word>> \o @]]
Wider(len, leaves) == [i \in DOMAIN leaves |-> [leaves[i] EXCEPT !.dims = <<len>> \o @]]
RECURSIVE Flatten(_, _)
Flatten(ty, drives) ==
  CASE ty.k = "vec"   -> Wider(ty.len, Flatten(ty.elem, drives))
    [] ty.k = "tuple" -> FlattenSeq([i \in DOMAIN ty.es |->
                           Under(ToString(i - 1), Flatten(ty.es[i], drives))])
    [] ty.k = "agg"   -> FlattenSeq([i \in DOMAIN ty.fields |->
                           Under(ty.fields[i].name,
                                 Flatten(ty.fields[i].ty, drives = ~ty.fields[i].in))])
    [] OTHER -> <<[suf |-> <<>>, w |-> ty.w, dims |-> <<>>, drives |-> drives]>>

(* The leaves of a type with their widths rendered: those of a node under   *)
(* a substitution, those of a local with the localparams too.               *)
TypeLeaves(c, subst, ty) ==
  LET bare(k) == Render(c, Fold(c, SubstConst(k, subst)))
      leaves == Flatten(ty, TRUE)
  IN [i \in DOMAIN leaves |->
        [leaves[i] EXCEPT !.w = bare(@), !.dims = [j \in DOMAIN @ |-> bare(@[j])]]]
NodeLeaves(c, e) == TypeLeaves(c, c.subst, e.ty)
LocalTy(c, l) == c.d.locals[l].ty
LocalTypeLeaves(c, l) ==
  LET leaves == Flatten(LocalTy(c, l), TRUE)
  IN [i \in DOMAIN leaves |->
        [leaves[i] EXCEPT !.w = RenderConst(c, @),
                          !.dims = [j \in DOMAIN @ |-> RenderConst(c, @[j])]]]
Leaf(suf, e) == [suf |-> suf, e |-> e]
Idents(base, leaves) ==
  [i \in DOMAIN leaves |-> Leaf(leaves[i].suf, Id(base \o leaves[i].suf))]
LocalLeaves(c, l) == Idents(LocalName(c, l), LocalTypeLeaves(c, l))

(* With the direction: the body drives what an `out` parameter produces.    *)
ParamsFor(d, l) == {i \in DOMAIN d.params : d.params[i].local = l}
BaseDrives(c, l) == \A i \in ParamsFor(c.d, l) : c.d.params[i].out
Sided(e, drives) == [e |-> e, drives |-> drives]
LocalLeavesDir(c, l) ==
  LET leaves == Flatten(LocalTy(c, l), BaseDrives(c, l))
  IN [i \in DOMAIN leaves |-> Sided(Id(LocalName(c, l) \o leaves[i].suf), leaves[i].drives)]

(* `integer`, or a struct of nothing else: no hardware. *)
RECURSIVE IsConstOnly(_)
IsConstOnly(ty) ==
  \/ ty.k = "int"
  \/ /\ ty.k = "agg" /\ ty.struct /\ ty.fields # <<>>
     /\ \A i \in DOMAIN ty.fields : IsConstOnly(ty.fields[i].ty)
IsIntegerLocal(c, l) == IsConstOnly(LocalTy(c, l))

StripField(leaves, f) ==
  LET hit == SelectSeq(leaves, LAMBDA x : x.suf # <<>> /\ Head(x.suf) = f)
  IN [i \in DOMAIN hit |-> [hit[i] EXCEPT !.suf = Tail(@)]]

(***************************************************************************)
(* The lowering's state: items, the counter of synthesised names, locals    *)
(* declared, modules instantiated, and whether a `todo!` or a panic was     *)
(* reached.                                                                 *)
(***************************************************************************)
Blanked == [items |-> <<>>, synth |-> 0, declared |-> {}, insts |-> <<>>, fault |-> FALSE]
Out(s, v) == [s |-> s, v |-> v]
Then(r, K(_, _)) == K(r.s, r.v)
Emit(s, it) == [s EXCEPT !.items = Append(@, it)]
EmitAll(s, its) == [s EXCEPT !.items = @ \o its]
Fault(s) == [s EXCEPT !.fault = TRUE]
(* A variant: names without the prefix of the splice they are made in. *)
FreshBare(c, s, word) == <<word \o ToString(s.synth)>>

(* A synthesised name. *)
Fresh(c, s, word) == c.prefix \o <<word \o ToString(s.synth)>>

Next1(s) == [s EXCEPT !.synth = @ + 1]

Logic(name, leaf) == [k |-> "logic", name |-> name \o leaf.suf, w |-> leaf.w, dims |-> leaf.dims]
Logics(base, leaves) == [i \in DOMAIN leaves |-> Logic(base, leaves[i])]
AssignItem(lhs, rhs) == [k |-> "assign", lhs |-> lhs, rhs |-> rhs]
SeqAssign(lhs, rhs, guard) == [lhs |-> lhs, rhs |-> rhs, guard |-> guard]
Flop(clock, body) ==
  [k |-> "ff", clock |-> clock, reset |-> <<>>, rbody |-> <<>>, body |-> body]
Comb(body) == [k |-> "comb", body |-> body]
PushAssign(s, lhs, rhs) == Emit(s, AssignItem(lhs, rhs))
Bit1 == [suf |-> <<>>, w |-> Lit(1), dims |-> <<>>, drives |-> TRUE]

(* A `logic` per leaf, once per local; result places are ports already. *)
DeclareLocal(c, s, l) ==
  IF \/ c.d.locals[l].result # <<>>
     \/ IsIntegerLocal(c, l)
     \/ l \in s.declared
  THEN s
  ELSE EmitAll([s EXCEPT !.declared = @ \cup {l}],
               Logics(LocalName(c, l), LocalTypeLeaves(c, l)))

(* Two lists side by side: the longer one is cut, silently. *)
Paired(as, bs) ==
  [i \in 1..(IF Len(as) < Len(bs) THEN Len(as) ELSE Len(bs)) |-> <<as[i], bs[i]>>]
Nth(leaves, i) == IF i \in DOMAIN leaves THEN leaves[i].e ELSE Lit(0)
OneLeaf(leaves) == IF Len(leaves) = 1 THEN leaves[1].e ELSE Marker

(* Target leaves with the value leaf of the same suffix: <<target, value>>. *)
BySuffix(target, values) ==
  LET has(x) == {j \in DOMAIN values : values[j].suf = x.suf}
      hit == SelectSeq(target, LAMBDA x : has(x) # {})
  IN [i \in DOMAIN hit |->
        <<hit[i], values[CHOOSE j \in has(hit[i]) : \A k \in has(hit[i]) : j <= k]>>]
DriveBySuffix(s, target, values) ==
  EmitAll(s, LET ps == BySuffix(target, values)
             IN [i \in DOMAIN ps |-> AssignItem(ps[i][1].e, ps[i][2].e)])

(***************************************************************************)
(* Clocks.                                                                 *)
(***************************************************************************)
Doms(d) == SelectSeq(d.gens, LAMBDA g : g.kind = "dom")
FirstClock(c) == IF Doms(c.d) = <<>> THEN <<"clk">> ELSE <<Doms(c.d)[1].name>>
(* The clock of a value's domain; a Vec or a tuple has no domain of its own. *)
ClockOf(c, ty, dom) ==
  IF ty.k \in {"bit", "agg"} /\ dom \in DOMAIN c.d.gens THEN <<c.d.gens[dom].name>>
  ELSE FirstClock(c)
(* The clock of a `clk.posedge()` event. *)
ClockOfEvent(c, event) ==
  IF event \in DOMAIN c.d.gens THEN <<c.d.gens[event].name>> ELSE FirstClock(c)

Callee(c, e) == c.cr[e.def]
SplicesInline(c, e) == Callee(c, e).kind \in {"inline", "verilog"}
IsInstanceCall(c, e) == e.k = "call" /\ ~SplicesInline(c, e)

(***************************************************************************)
(* Expressions.  Value gives one SystemVerilog expression, Leaves one per   *)
(* leaf; both emit what the value needs.                                    *)
(***************************************************************************)
RECURSIVE Lowered(_, _, _, _)
Lower(c, s, how, x) == Lowered(c, s, how, x)
Value(c, s, e) == Lower(c, s, "value", e)
Leaves(c, s, e) == Lower(c, s, "leaves", e)
Stmts(c, s, stmts) == Lower(c, s, "stmts", stmts)

(* The lists of leaves of several expressions, lowered left to right. *)
RECURSIVE EachLeaves(_, _, _)
EachLeaves(c, s, es) ==
  IF es = <<>> THEN Out(s, <<>>)
  ELSE Then(Leaves(c, s, Head(es)), LAMBDA s1, h :
         Then(EachLeaves(c, s1, Tail(es)), LAMBDA s2, t : Out(s2, <<h>> \o t)))

BlockValue(c, s, b) ==
  LET s1 == Stmts(c, s, b.stmts)
  IN IF b.tail = <<>> THEN Out(s1, Lit(0)) ELSE Value(c, s1, b.tail[1])
BlockLeaves(c, s, b) ==
  LET s1 == Stmts(c, s, b.stmts)
  IN IF b.tail = <<>> THEN Out(s1, <<>>) ELSE Leaves(c, s1, b.tail[1])

(* The leaves of a value by its node: only a local, a field or a record     *)
(* have several; another aggregate cannot be rendered.                      *)
SvTypeOf(c, e) == [TypeLeaves(c, <<>>, e.ty)[1] EXCEPT !.suf = <<>>]
RECURSIVE ExprTypeLeaves(_, _)
ExprTypeLeaves(c, e) ==
  CASE e.k = "local"  -> LocalTypeLeaves(c, e.l)
    [] e.k = "field"  -> StripField(ExprTypeLeaves(c, e.e), e.f)
    [] e.k = "record" -> TypeLeaves(c, <<>>, e.ty)
    [] OTHER -> <<SvTypeOf(c, e)>>
RECURSIVE Scalar(_)
Scalar(ty) == IF ty.k = "vec" THEN Scalar(ty.elem) ELSE ty.k = "bit"
Renderable(e) == e.k \in {"local", "field", "record"} \/ Scalar(e.ty)

(* A register per leaf, clocked, with its reset. *)
Registers(c, s, base, leaves, reg, clock, declare) ==
  LET flop(r, d, i, n) ==
        [k |-> "ff", clock |-> clock, reset |-> <<r>>,
         rbody |-> <<SeqAssign(Id(base \o leaves[n].suf), Nth(i, n), <<>>)>>,
         body |-> <<SeqAssign(Id(base \o leaves[n].suf), Nth(d, n), <<>>)>>]
      wire(n) == IF declare THEN <<Logic(base, leaves[n])>> ELSE <<>>
  IN Then(Value(c, s, reg.rst), LAMBDA s1, r :
       Then(Leaves(c, s1, reg.d), LAMBDA s2, d :
         Then(Leaves(c, s2, reg.init), LAMBDA s3, i :
           EmitAll(s3, FlattenSeq([n \in DOMAIN leaves |-> wire(n) \o <<flop(r, d, i, n)>>])))))

(* `e.reg(rst, init)` in value position: a register into a fresh net. *)
ValueReg(c, s, e) ==
  LET name == Fresh(c, s, "__block_")
      s1 == Emit(Next1(s), Logic(name, SvTypeOf(c, e)))
      s2 == Registers(c, s1, name, <<Bit1>>, e, ClockOf(c, e.d.ty, e.dom), FALSE)
  IN Out(IF Scalar(e.ty) THEN s2 ELSE Fault(s2), Id(name))

(* A mux into a fresh net: the arms' own items stay outside the block. *)
Mux(cond, name, then, else) ==
  [k |-> "if", cond |-> cond, then |-> <<AssignItem(name, then)>>,
   else |-> <<AssignItem(name, else)>>]
ValueIf(c, s, e) ==
  LET name == Fresh(c, s, "__block_")
  IN Then(Value(c, Emit(Next1(s), Logic(name, SvTypeOf(c, e))), e.cond), LAMBDA s1, b :
       Then(BlockValue(c, s1, e.then), LAMBDA s2, t :
         Then(BlockValue(c, s2, e.else), LAMBDA s3, f :
           Out(Emit(s3, Comb(<<Mux(b, Id(name), t, f)>>)), Id(name)))))

(* Nets of an expression's value: one for each leaf of `values`, with the    *)
(* width of the leaf of the type in its place.                              *)
Nets1(base, values) == [i \in DOMAIN values |-> Leaf(values[i].suf, Id(base \o values[i].suf))]
WithNets(s, base, tys, values) ==
  EmitAll(s, [i \in DOMAIN values |->
    Logic(base, [(IF i \in DOMAIN tys THEN tys[i] ELSE Bit1) EXCEPT !.suf = values[i].suf])])
LeavesIf(c, s, e) ==
  LET base == Fresh(c, s, "__block_")
      mux(b, t, f, i) == Mux(b, Id(base \o t[i].suf), t[i].e, Nth(f, i))
  IN Then(Value(c, Next1(s), e.cond), LAMBDA s1, b :
       Then(BlockLeaves(c, s1, e.then), LAMBDA s2, t :
         Then(BlockLeaves(c, s2, e.else), LAMBDA s3, f :
           Out(Emit(WithNets(s3, base, NodeLeaves(c, e), t),
                    Comb([i \in DOMAIN t |-> mux(b, t, f, i)])),
               Nets1(base, t)))))

(* `when clk.posedge() { d }` as a value: a register without a reset. *)
Inits(base, leaves) ==
  [i \in DOMAIN leaves |-> SeqAssign(Id(base \o leaves[i].suf), leaves[i].e, <<>>)]
Initial(assigns) == [k |-> "initial", assigns |-> assigns]
ValueWhen(c, s, e) ==
  LET name == Fresh(c, s, "__block_")
      inits(s1) == IF e.init = <<>> THEN s1
                   ELSE Then(Value(c, s1, e.init[1]), LAMBDA s2, i :
                          Emit(s2, Initial(<<SeqAssign(Id(name), i, <<>>)>>)))
  IN Then(BlockValue(c, inits(Emit(Next1(s), Logic(name, SvTypeOf(c, e)))), e.body), LAMBDA s1, d :
       Out(Emit(s1, Flop(ClockOfEvent(c, e.event), <<SeqAssign(Id(name), d, <<>>)>>)), Id(name)))
WhenInits(c, s, base, e) ==
  IF e.init = <<>> THEN s
  ELSE Then(Leaves(c, s, e.init[1]), LAMBDA s1, i : Emit(s1, Initial(Inits(base, i))))
LeavesWhen(c, s, e) ==
  LET base == Fresh(c, s, "__block_")
  IN Then(BlockLeaves(c, WhenInits(c, Next1(s), base, e), e.body), LAMBDA s1, d :
       Out(Emit(WithNets(s1, base, NodeLeaves(c, e), d),
                Flop(ClockOfEvent(c, e.event), Inits(base, d))),
           Nets1(base, d)))

(* A `const if`: folded when the splice's generics decide it, else a        *)
(* generate-if around what each arm emits.                                  *)
Decided(c, e) == EvalConst(c.d, SubstConst(e.a, c.subst))
Taken(c, e) == IF Decided(c, e) = {e.v} THEN e.then ELSE e.else
ConstIf(c, s, e) ==
  LET base == Fresh(c, s, "__block_")
      arm(s1, v) == Append(s1.items, AssignItem(Id(base), v))
      gif(s1, t, s2, f) ==
        [k |-> "gif", cond |-> Equal(RenderConst(c, e.a), Lit(e.v)),
         label |-> base \o <<"g">>, then |-> arm(s1, t), else |-> arm(s2, f)]
      wire == Logic(base, [NodeLeaves(c, e)[1] EXCEPT !.suf = <<>>])
  IN Then(BlockValue(c, [Next1(s) EXCEPT !.items = <<>>], e.then), LAMBDA s1, t :
       Then(BlockValue(c, [s1 EXCEPT !.items = <<>>], e.else), LAMBDA s2, f :
         Out(EmitAll([s2 EXCEPT !.items = s.items], <<wire, gif(s1, t, s2, f)>>), Id(base))))

(***************************************************************************)
(* Slices `v[lo..hi]` and `v[off..+w]`, of a vector: a part-select, empty  *)
(* when its width is 0, under a generate-if when its width is symbolic.    *)
(***************************************************************************)
SliceWidth(c, ty, e) ==
  SubstConst(IF e.off # <<>> THEN e.w
             ELSE Sub(IF e.hi = <<>> THEN ty.len ELSE e.hi[1],
                      IF e.lo = <<>> THEN CLit(0) ELSE e.lo[1]), c.subst)
IsEmptySlice(c, ty, e) == EvalConst(c.d, SliceWidth(c, ty, e)) = {0}
RangeOf(c, s, ty, e) ==
  Then(IF e.off # <<>> THEN Value(c, s, e.off[1])
       ELSE Out(s, IF e.lo = <<>> THEN Lit(0) ELSE RenderConst(c, e.lo[1])),
       LAMBDA s1, lo : Out(s1, [lo |-> lo, w |-> RenderConst(c, SliceWidth(c, ty, e))]))
Parts(leaves, range) ==
  [i \in DOMAIN leaves |-> Leaf(leaves[i].suf, Part(leaves[i].e, range.lo, range.w))]

EmptyLeaves(c, e) ==
  LET empty(tys) == [i \in DOMAIN tys |-> Leaf(tys[i].suf, Fill(tys[i].dims))]
  IN empty(NodeLeaves(c, e))
KnownSlice(c, s, e) ==
  Then(RangeOf(c, s, e.e.ty, e), LAMBDA s1, range :
    Then(Leaves(c, s1, e.e), LAMBDA s2, b : Out(s2, Parts(b, range))))
SymbolicSlice(c, s, e) ==
  LET net(base, leaf) == Id(base \o leaf.suf)
      gif(base, tys, b, range) ==
        [k |-> "gif", cond |-> Equal(range.w, Lit(0)), label |-> base \o <<"g">>,
         then |-> [i \in DOMAIN b |-> AssignItem(net(base, b[i]), Fill(tys[i].dims))],
         else |-> [i \in DOMAIN b |-> AssignItem(net(base, b[i]), Parts(b, range)[i].e)]]
      sliced(s1, base, tys, b, range) ==
        Out(Emit(WithNets(Next1(s1), base, tys, b), gif(base, tys, b, range)), Nets1(base, b))
  IN Then(RangeOf(c, s, e.e.ty, e), LAMBDA s1, range :
       Then(Leaves(c, s1, e.e), LAMBDA s2, b :
         sliced(s2, Fresh(c, s2, "__block_"), NodeLeaves(c, e), b, range)))
SliceLeaves(c, s, e) ==
  CASE IsEmptySlice(c, e.e.ty, e) -> Out(s, EmptyLeaves(c, e))
    [] EvalConst(c.d, SliceWidth(c, e.e.ty, e)) = {} -> SymbolicSlice(c, s, e)
    [] OTHER -> KnownSlice(c, s, e)

(* `v.replace(i, x)`: a copy of v with one element written over. *)
ReplaceLeaves(c, s, e) ==
  LET name == Fresh(c, s, "__block_")
      net(leaf) == Id(name \o leaf.suf)
      copy(i, v, x, n) == <<AssignItem(net(v[n]), v[n].e),
                            AssignItem(At(net(v[n]), i), Nth(x, n))>>
  IN Then(Value(c, Next1(s), e.i), LAMBDA s1, i :
       Then(Leaves(c, s1, e.e), LAMBDA s2, v :
         Then(Leaves(c, s2, e.x), LAMBDA s3, x :
           Out(Emit(WithNets(s3, name, ExprTypeLeaves(c, e.e), v),
                    Comb(FlattenSeq([n \in DOMAIN v |-> copy(i, v, x, n)]))),
               Nets1(name, v)))))

(***************************************************************************)
(* Places and records.                                                     *)
(***************************************************************************)
RECURSIVE ProjectFrom(_, _, _, _)
ProjectFrom(c, s, leaves, projs) ==
  LET p == Head(projs)
      element(i) == [n \in DOMAIN leaves |-> Leaf(leaves[n].suf, At(leaves[n].e, i))]
  IN CASE projs = <<>> -> Out(s, leaves)
       [] projs # <<>> /\ p.k = "field" -> ProjectFrom(c, s, StripField(leaves, p.f), Tail(projs))
       [] OTHER -> Then(Value(c, s, p.e), LAMBDA s1, i :
                     ProjectFrom(c, s1, element(i), Tail(projs)))
Projected(c, s, place) == ProjectFrom(c, s, LocalLeaves(c, place.l), place.projs)

AllDriven(leaves) == [i \in DOMAIN leaves |-> Sided(leaves[i].e, TRUE)]
RangeLeaves(c, s, l, p) ==
  IF IsEmptySlice(c, LocalTy(c, l), p) THEN Out(s, <<>>)
  ELSE Then(RangeOf(c, s, LocalTy(c, l), p), LAMBDA s1, range :
         Out(s1, AllDriven(Parts(LocalLeaves(c, l), range))))
PlaceLeaves(c, s, place) ==
  LET last == place.projs[Len(place.projs)]
  IN CASE place.projs = <<>> -> Out(s, LocalLeavesDir(c, place.l))
       [] place.projs # <<>> /\ last.k = "range" -> RangeLeaves(c, s, place.l, last)
       [] OTHER -> Then(Projected(c, s, place), LAMBDA s1, leaves :
                     IF last.k = "index" THEN Out(s1, AllDriven(leaves))
                     ELSE Out(s1, <<Sided(OneLeaf(leaves), TRUE)>>))
ValueLeavesDir(c, s, e) ==
  IF e.k = "local" THEN Out(s, LocalLeavesDir(c, e.l))
  ELSE Then(Leaves(c, s, e), LAMBDA s1, v : Out(s1, AllDriven(v)))

(* The fields given a value, in the declared order of the type's fields. *)
Below(word, leaves) == [i \in DOMAIN leaves |-> Leaf(<<word>> \o leaves[i].suf, leaves[i].e)]
RecordLeaves(c, s, e) ==
  LET given(f) == {i \in DOMAIN e.fields : e.fields[i].name = f.name /\ ~e.fields[i].out}
      written == SelectSeq(e.ty.fields, LAMBDA f : given(f) # {})
      exprs(fs) == [i \in DOMAIN fs |-> e.fields[CHOOSE j \in given(fs[i]) : TRUE].e]
  IN Then(EachLeaves(c, s, exprs(written)), LAMBDA s1, v :
       Out(s1, FlattenSeq([i \in DOMAIN v |-> Below(written[i].name, v[i])])))

(* The `field => target` of a record: what its targets read. *)
RECURSIVE OutConnsOf(_, _, _)
OutConnsOf(c, s, fields) ==
  IF fields = <<>> THEN Out(s, <<>>)
  ELSE Then(Projected(c, s, Head(fields).place), LAMBDA s1, h :
         Then(OutConnsOf(c, s1, Tail(fields)), LAMBDA s2, t :
           Out(s2, Below(Head(fields).name, h) \o t)))
OutConns(c, s, e) ==
  OutConnsOf(c, s, IF e.k = "record" THEN SelectSeq(e.fields, LAMBDA f : f.out) ELSE <<>>)
DriveOutConns(c, s, base, e) ==
  Then(OutConns(c, s, e), LAMBDA s1, v :
    EmitAll(s1, [i \in DOMAIN v |-> AssignItem(v[i].e, Id(base \o v[i].suf))]))

(***************************************************************************)
(* Calls.  The positional connections (a receiver first) go to the         *)
(* parameters outside the named section, in order.                         *)
(***************************************************************************)
ConnOf(d, e, i) ==
  LET named == {j \in DOMAIN e.named : e.named[j].name = d.params[i].name}
      pos == Cardinality({j \in 1..i : ~d.params[j].named})
  IN IF d.params[i].named
     THEN IF named = {} THEN <<>> ELSE <<e.named[CHOOSE j \in named : TRUE].conn>>
     ELSE IF pos \in DOMAIN e.args THEN <<e.args[pos]>> ELSE <<>>
Broadcast(leaves, default) == [i \in DOMAIN leaves |-> Leaf(<<>>, Lit(default))]
LeafSuffixes(ty) == LET leaves == Flatten(ty, TRUE) IN [i \in DOMAIN leaves |-> leaves[i].suf]

(* The caller's leaves for each parameter from the i-th on. *)
RECURSIVE Slots(_, _, _, _)
Slot(c, s, e, i) ==
  LET par == Callee(c, e).params[i]
      conn == ConnOf(Callee(c, e), e, i)
  IN CASE conn = <<>> -> Out(s, IF par.default = <<>> THEN <<>>
                                ELSE Broadcast(LeafSuffixes(par.ty), par.default[1]))
       [] conn # <<>> /\ conn[1].out -> Projected(c, s, conn[1].place)
       [] OTHER -> Leaves(c, s, conn[1].e)
Slots(c, s, e, i) ==
  IF i > Len(Callee(c, e).params) THEN Out(s, <<>>)
  ELSE Then(Slot(c, s, e, i), LAMBDA s1, h :
         Then(Slots(c, s1, e, i + 1), LAMBDA s2, t : Out(s2, <<h>> \o t)))

(* What a callee's results are called, in the order of its return type. *)
ResultPorts(d) ==
  FlattenSeq([i \in DOMAIN d.results |->
    LET sufs == LeafSuffixes(d.results[i].ty) IN [j \in DOMAIN sufs |-> d.results[i].base \o sufs[j]]])

(* An instance: the caller's first clock on each `dom`, the parameters leaf *)
(* by leaf, the results leaf by leaf with `target`.                         *)
ConstGens(c, e) == {i \in DOMAIN Callee(c, e).gens : /\ Callee(c, e).gens[i].kind = "const"
                                                     /\ e.gens[i].k # "none"}
ParsOf(c, e, is) ==
  [j \in DOMAIN is |-> [name |-> <<Callee(c, e).gens[is[j]].name>>,
                        e |-> RenderConst(c, e.gens[is[j]])]]
ConnsOf(ps) == [j \in DOMAIN ps |-> [port |-> ps[j][1], e |-> ps[j][2].e]]
InstanceName(c, s, d) ==
  LET n == Cardinality({i \in DOMAIN s.insts : s.insts[i] = d.name})
  IN c.prefix \o d.name \o (IF n = 0 THEN <<>> ELSE <<"_" \o ToString(n)>>)
Instance(c, s, e, target) ==
  LET d == Callee(c, e)
      doms == [i \in DOMAIN Doms(d) |-> [port |-> <<Doms(d)[i].name>>, e |-> Id(FirstClock(c))]]
      names(i) == LET sufs == LeafSuffixes(d.params[i].ty)
                  IN [j \in DOMAIN sufs |-> d.params[i].name \o sufs[j]]
      conns(slots) == doms \o FlattenSeq([i \in DOMAIN slots |-> ConnsOf(Paired(names(i), slots[i]))])
                           \o ConnsOf(Paired(ResultPorts(d), target))
  IN Then(Slots(c, s, e, 1), LAMBDA s1, slots :
       Emit([s1 EXCEPT !.insts = Append(@, d.name)],
            [k |-> "inst", module |-> d.name, name |-> InstanceName(c, s1, d),
             pars |-> ParsOf(c, e, SetToSortSeq(ConstGens(c, e), <)), conns |-> conns(slots)]))

(* A call in value position: an instance into a fresh net. *)
IntoNets(c, s, e, base, tys) ==
  Out(Instance(c, EmitAll(Next1(s), Logics(base, tys)), e, Idents(base, tys)), Idents(base, tys))
CallLeaves(c, s, e) ==
  IF Callee(c, e).ret = <<>> THEN Out(Instance(c, s, e, <<>>), <<Leaf(<<>>, Lit(0))>>)
  ELSE IntoNets(c, s, e, Fresh(c, s, "__call_"), TypeLeaves(c, e.gens, Callee(c, e).ret[1]))

(* `= verilog expr { .. }`, and an `#[inline]` verilog body, which drives a *)
(* net of its own: one scalar for each parameter.                           *)
RECURSIVE Operands(_, _, _, _)
Operand(c, s, e, i) ==
  LET par == Callee(c, e).params[i]
      conn == ConnOf(Callee(c, e), e, i)
  IN IF conn # <<>> THEN Value(c, s, conn[1].e)
     ELSE Out(s, Lit(IF par.default = <<>> THEN 0 ELSE par.default[1]))
Operands(c, s, e, i) ==
  IF i > Len(Callee(c, e).params) THEN Out(s, <<>>)
  ELSE Then(Operand(c, s, e, i), LAMBDA s1, h :
         Then(Operands(c, s1, e, i + 1), LAMBDA s2, t : Out(s2, <<h>> \o t)))
VerilogValue(c, s, e) ==
  LET d == Callee(c, e)
      gens == [i \in DOMAIN e.gens |-> Ground(c, e.gens[i])]
      driven(s1, name, text) ==
        Out(PushAssign(Emit(Next1(s1), Logic(name, [TypeLeaves(c, gens, d.ret[1])[1]
                                                    EXCEPT !.suf = <<>>])),
                       Id(name), text), Id(name))
  IN Then(Operands(c, s, e, 1), LAMBDA s1, v :
       IF d.exprForm THEN Out(s1, Apply(<<Lit(d.op)>> \o v))
       ELSE driven(s1, Fresh(c, s1, "__block_"), Apply(<<Lit(d.op)>> \o v)))

(* An `#[inline]` Mirin body: its parameters become wires of the caller,    *)
(* its body is lowered under a prefix of its own, with the call's generics, *)
(* and its tail, result equation or return is the value.                    *)
CallerConst(c, k) ==
  LET known(g) == IF EvalConst(c.d, g) = {} THEN Sym(Render(c, g)) ELSE g
  IN IF k.k \in {"none", "dom"} THEN k ELSE known(Ground(c, k))
Wire(s, base, ps) ==
  EmitAll(s, FlattenSeq([j \in DOMAIN ps |->
    <<Logic(base, ps[j][1]), AssignItem(Id(base \o ps[j][1].suf), ps[j][2].e)>>]))
WireParam(c, s, sub, e, i, tys) ==
  LET par == Callee(c, e).params[i]
      conn == ConnOf(Callee(c, e), e, i)
  IN Then(IF conn # <<>> THEN Leaves(c, s, conn[1].e)
          ELSE Out(s, IF par.default = <<>> THEN <<>> ELSE Broadcast(tys, par.default[1])),
          LAMBDA s1, v : Wire(s1, LocalName(sub, par.local), Paired(tys, v)))
RECURSIVE Wires(_, _, _, _, _)
Wires(c, s, sub, e, i) ==
  IF i > Len(sub.d.params) THEN s
  ELSE Wires(c, WireParam(c, s, sub, e, i, LocalTypeLeaves(sub, sub.d.params[i].local)),
             sub, e, i + 1)
IsResultEquation(d, st) ==
  st.k = "eq" /\ st.lhs.projs = <<>> /\ d.locals[st.lhs.l].result # <<>>
ValueSource(d) ==
  FoldLeft(LAMBDA src, st : CASE st.k = "return"         -> <<st.e>>
                              [] IsResultEquation(d, st) -> <<st.rhs>>
                              [] OTHER                   -> src,
           d.body.tail, d.body.stmts)
BeforeValue(d) ==
  SelectSeq(d.body.stmts, LAMBDA st : ~(st.k = "return" \/ IsResultEquation(d, st)))
Joined(s, inner) == [s EXCEPT !.items = @ \o inner.items, !.fault = @ \/ inner.fault]
SplicedAs(c, s, sub, e) ==
  LET value == ValueSource(sub.d)
      before == Stmts(sub, Blanked, BeforeValue(sub.d))
      into(s1) == Then(IF value = <<>> THEN Out(before, <<Leaf(<<>>, Lit(0))>>)
                       ELSE Leaves(sub, before, value[1]),
                       LAMBDA inner, v : Out(Joined(s1, inner), v))
  IN into(Wires(c, s, sub, e, 1))
Splice(c, s, e) ==
  SplicedAs(c, Next1(s),
            [cr |-> c.cr, d |-> Callee(c, e), prefix |-> Fresh(c, s, "__inl"),
             subst |-> [i \in DOMAIN e.gens |-> CallerConst(c, e.gens[i])]], e)
Single(r) == Then(r, LAMBDA s, v : Out(s, <<Leaf(<<>>, v)>>))
InlineLeaves(c, s, e) ==
  IF Callee(c, e).kind = "inline" THEN Splice(c, s, e)
  ELSE Single(VerilogValue(c, s, e))

(***************************************************************************)
(* The two ways to lower an expression.                                    *)
(***************************************************************************)
ValueOf(c, s, e) ==
  CASE e.k = "lit"   -> Out(s, Lit(e.v))
    [] e.k = "const" -> Out(s, RenderConst(c, e.c))
    [] e.k = "local" -> Out(s, Id(LocalName(c, e.l)))
    [] e.k = "call"  -> Then(Leaves(c, s, e), LAMBDA s1, v : Out(s1, Nth(v, 1)))
    [] e.k = "reg"   -> ValueReg(c, s, e)
    [] e.k = "replace" -> Out(Fault(s), Marker)
    [] e.k = "index" -> Then(Value(c, s, e.e), LAMBDA s1, b :
                          Then(Value(c, s1, e.i), LAMBDA s2, i : Out(s2, At(b, i))))
    [] e.k = "when"  -> ValueWhen(c, s, e)
    [] e.k = "if"    -> ValueIf(c, s, e)
    [] e.k = "cif"   -> IF Decided(c, e) = {} THEN ConstIf(c, s, e)
                        ELSE BlockValue(c, s, Taken(c, e))
    [] e.k = "block" -> BlockValue(c, s, e.b)
    [] OTHER         -> Then(Leaves(c, s, e), LAMBDA s1, v : Out(s1, OneLeaf(v)))

VecOf(v) ==
  [n \in DOMAIN v[1] |-> Leaf(v[1][n].suf, Pattern([i \in DOMAIN v |-> Nth(v[i], n)]))]
TupleOfLeaves(v) == FlattenSeq([i \in DOMAIN v |-> Below(ToString(i - 1), v[i])])
Elements(b, i) == [n \in DOMAIN b |-> Leaf(b[n].suf, At(b[n].e, i))]
Copies(v, n) == [i \in DOMAIN v |-> Leaf(v[i].suf, Repeat(n, v[i].e))]
LeavesOf(c, s, e) ==
  CASE e.k = "local" -> Out(s, LocalLeaves(c, e.l))
    [] e.k = "field" -> Then(Leaves(c, s, e.e), LAMBDA s1, v : Out(s1, StripField(v, e.f)))
    [] e.k = "vec"   -> Then(EachLeaves(c, s, e.es), LAMBDA s1, v : Out(s1, VecOf(v)))
    [] e.k = "tuple" -> Then(EachLeaves(c, s, e.es), LAMBDA s1, v : Out(s1, TupleOfLeaves(v)))
    [] e.k = "repeat" -> Then(Leaves(c, s, e.e), LAMBDA s1, v :
                           Out(s1, Copies(v, Render(c, Fold(c, e.n)))))
    [] e.k = "record" -> RecordLeaves(c, s, e)
    [] e.k = "index" -> Then(Value(c, s, e.i), LAMBDA s1, i :
                          Then(Leaves(c, s1, e.e), LAMBDA s2, b : Out(s2, Elements(b, i))))
    [] e.k = "call"  -> IF SplicesInline(c, e) THEN InlineLeaves(c, s, e) ELSE CallLeaves(c, s, e)
    [] e.k = "replace" -> ReplaceLeaves(c, s, e)
    [] e.k = "cif"   -> IF Decided(c, e) = {} THEN Single(ConstIf(c, s, e))
                        ELSE BlockLeaves(c, s, Taken(c, e))
    [] e.k = "if"    -> LeavesIf(c, s, e)
    [] e.k = "when"  -> LeavesWhen(c, s, e)
    [] e.k = "block" -> BlockLeaves(c, s, e.b)
    [] e.k = "slice" -> SliceLeaves(c, s, e)
    [] OTHER         -> Single(Value(c, s, e))

(***************************************************************************)
(* Statements, each a step of the lowering's state.                        *)
(***************************************************************************)
LetConst(c, s, st) ==
  IF ~IsSymbolic(c.d, st.l) THEN s
  ELSE Then(Value(c, s, st.e), LAMBDA s1, v :
         Emit(s1, [k |-> "lparam", name |-> LocalName(c, st.l), value |-> v]))
LetReg(c, s, st) ==
  Registers(c, IF Renderable(st.e.d) THEN s ELSE Fault(s), LocalName(c, st.l),
            ExprTypeLeaves(c, st.e.d), st.e, ClockOf(c, LocalTy(c, st.l), c.d.locals[st.l].dom), TRUE)
LetCall(c, s, st) == Instance(c, DeclareLocal(c, s, st.l), st.e, LocalLeaves(c, st.l))
LetValue(c, s, st) ==
  Then(Leaves(c, DeclareLocal(c, s, st.l), st.e), LAMBDA s1, v :
    DriveOutConns(c, DriveBySuffix(s1, LocalLeaves(c, st.l), v), LocalName(c, st.l), st.e))
LetStmt(c, s, st) ==
  CASE IsIntegerLocal(c, st.l)  -> LetConst(c, s, st)
    [] ~IsIntegerLocal(c, st.l) /\ st.e.k = "reg" -> LetReg(c, s, st)
    [] ~IsIntegerLocal(c, st.l) /\ IsInstanceCall(c, st.e) -> LetCall(c, s, st)
    [] OTHER -> LetValue(c, s, st)

(* `place = value;` *)
EqReg(c, s, st) ==
  LET l == st.lhs.l
  IN Registers(c, s, LocalName(c, l), LocalTypeLeaves(c, l), st.rhs,
               ClockOf(c, LocalTy(c, l), c.d.locals[l].dom), FALSE)
EqWhen(c, s, st) ==
  Then(BlockLeaves(c, WhenInits(c, s, LocalName(c, st.lhs.l), st.rhs), st.rhs.body), LAMBDA s1, d :
    Emit(s1, Flop(ClockOfEvent(c, st.rhs.event), Inits(LocalName(c, st.lhs.l), d))))
EqRecord(c, s, st) ==
  Then(Leaves(c, s, st.rhs), LAMBDA s1, v : DriveBySuffix(s1, LocalLeaves(c, st.lhs.l), v))
(* The leaves of an equation's two sides, side by side. *)
Sides(c, s, st) ==
  Then(PlaceLeaves(c, s, st.lhs), LAMBDA s1, p :
    Then(ValueLeavesDir(c, s1, st.rhs), LAMBDA s2, v : Out(s2, Paired(p, v))))
(* A variant: the value always drives the place. *)
ConnectForward(pair) == AssignItem(pair[1].e, pair[2].e)

(* Leaf by leaf, the side the body drives is the sink. *)
Connect(pair) ==
  IF ~pair[1].drives /\ pair[2].drives THEN AssignItem(pair[2].e, pair[1].e)
  ELSE AssignItem(pair[1].e, pair[2].e)

EqZip(c, s, st) ==
  Then(Sides(c, s, st), LAMBDA s1, ps : EmitAll(s1, [i \in DOMAIN ps |-> Connect(ps[i])]))
EqStmt(c, s, st) ==
  LET bare == st.lhs.projs = <<>>
      s1 == DriveOutConns(c, s, LocalName(c, st.lhs.l), st.rhs)
  IN CASE bare /\ IsIntegerLocal(c, st.lhs.l) -> s
       [] bare /\ st.rhs.k = "reg"            -> EqReg(c, s, st)
       [] bare /\ st.rhs.k = "when"           -> EqWhen(c, s, st)
       [] bare /\ IsInstanceCall(c, st.rhs)   -> Instance(c, s, st.rhs, LocalLeaves(c, st.lhs.l))
       [] bare /\ st.rhs.k = "record"         -> EqRecord(c, s1, st)
       [] OTHER                               -> EqZip(c, s, st)

(* A call for its connections alone. *)
RECURSIVE DeclareTargets(_, _, _)
DeclareTargets(c, s, conns) ==
  IF conns = <<>> THEN s
  ELSE LET place == Head(conns).place
           fresh == place.projs = <<>> /\ c.d.locals[place.l].kind # "param"
       IN DeclareTargets(c, IF fresh THEN DeclareLocal(c, s, place.l) ELSE s, Tail(conns))
CallStmt(c, s, e) ==
  LET conns == [i \in DOMAIN e.named |-> e.named[i].conn] \o e.args
  IN IF IsInstanceCall(c, e)
     THEN Instance(c, DeclareTargets(c, s, SelectSeq(conns, LAMBDA x : x.out)), e, <<>>)
     ELSE s

(* A returned value drives the result ports, and reads those of its leaves  *)
(* the caller drives.                                                       *)
Drive(c, s, e) ==
  LET tys == Flatten(c.d.ret[1], TRUE)
      side(n) == [suf |-> tys[n].suf, e |-> Id(<<"result">> \o tys[n].suf), drives |-> tys[n].drives]
      driven(ps) == [n \in DOMAIN ps |-> IF ps[n][1].drives THEN AssignItem(ps[n][1].e, ps[n][2].e)
                                          ELSE AssignItem(ps[n][2].e, ps[n][1].e)]
  IN CASE c.d.ret = <<>> -> CallStmt(c, s, e)
       [] c.d.ret # <<>> /\ IsInstanceCall(c, e) -> Instance(c, s, e, [n \in DOMAIN tys |-> side(n)])
       [] OTHER -> Then(Leaves(c, s, e), LAMBDA s1, v :
                     DriveOutConns(c, EmitAll(s1, driven(BySuffix([n \in DOMAIN tys |-> side(n)], v))),
                                   <<"result">>, e))

(* `when` as a statement: guarded nonblocking assignments.  A `let` inside  *)
(* is lowered outside of it, other statements are left out.                 *)
Guarded(ps, guard) == [i \in DOMAIN ps |-> SeqAssign(ps[i][1].e, ps[i][2].e, guard)]
Narrow(guard, e) == IF guard = <<>> THEN <<e>> ELSE <<Both(guard[1], e)>>
RECURSIVE Clocking(_, _, _, _)
Branches(c, s, e, guard) ==
  Then(Value(c, s, e.cond), LAMBDA s1, b :
    Then(Clocking(c, s1, e.then.stmts, Narrow(guard, b)), LAMBDA s2, then :
      Then(Clocking(c, s2, e.else.stmts, Narrow(guard, Not(b))), LAMBDA s3, else :
        Out(s3, then \o else))))
OneClocked(c, s, st, guard) ==
  CASE st.k = "eq" -> Then(Sides(c, s, st), LAMBDA s1, ps : Out(s1, Guarded(ps, guard)))
    [] st.k = "expr" /\ st.e.k = "if" -> Branches(c, s, st.e, guard)
    [] st.k = "let" -> Out(Stmts(c, s, <<st>>), <<>>)
    [] OTHER -> Out(s, <<>>)
Clocking(c, s, stmts, guard) ==
  IF stmts = <<>> THEN Out(s, <<>>)
  ELSE Then(OneClocked(c, s, Head(stmts), guard), LAMBDA s1, h :
         Then(Clocking(c, s1, Tail(stmts), guard), LAMBDA s2, t : Out(s2, h \o t)))
InitStmts(c, s, stmts) ==
  Then(Clocking(c, s, SelectSeq(stmts, LAMBDA st : st.k = "eq"), <<>>), LAMBDA s1, assigns :
    IF assigns = <<>> THEN s1 ELSE Emit(s1, Initial(assigns)))
WhenStmt(c, s, st) ==
  Then(Clocking(c, IF st.init = <<>> THEN s ELSE InitStmts(c, s, st.init[1]), st.body.stmts, <<>>),
       LAMBDA s1, assigns : Emit(s1, Flop(ClockOfEvent(c, st.event), assigns)))

(* `for x in v`: a generate-for, the element a net of each iteration. *)
LoopVar(c, s, st) ==
  CASE c.d.locals[st.elem].kind = "genvar" -> LocalName(c, st.elem)
    [] c.d.locals[st.elem].kind # "genvar" /\ st.idx # <<>> -> LocalName(c, st.idx[1])
    [] OTHER -> <<"__i" \o ToString(s.synth)>>
Counted(c, s, st) ==
  IF c.d.locals[st.elem].kind # "genvar" /\ st.idx = <<>> THEN Next1(s) ELSE s
BindElement(c, s, st, var) ==
  LET at1(v) == [i \in DOMAIN v |-> AssignItem(Id(LocalName(c, st.elem) \o v[i].suf), At(v[i].e, Id(var)))]
  IN IF c.d.locals[st.elem].kind = "genvar" THEN Out(s, <<>>)
     ELSE Then(Leaves(c, DeclareLocal(c, s, st.elem), st.iter), LAMBDA s1, v : Out(s1, at1(v)))
ForStmt(c, s, st) ==
  LET generate(items, var) ==
        [k |-> "for", var |-> var, bound |-> RenderConst(c, st.iter.ty.len),
         label |-> <<"g">> \o LocalName(c, st.elem), items |-> items]
      around(inner) == Emit([inner EXCEPT !.items = s.items], generate(inner.items, LoopVar(c, s, st)))
  IN Then(BindElement(c, [Counted(c, s, st) EXCEPT !.items = <<>>], st, LoopVar(c, s, st)),
          LAMBDA s1, bound : around(Stmts(c, EmitAll(s1, bound), st.body.stmts)))

(* `let mut acc` and the statements after it that assign it: one           *)
(* `always_comb`, an assignment per leaf.                                   *)
Carries(st, l) ==
  CASE st.k = "eq"  -> st.lhs.l = l
    [] st.k = "for" -> \E i \in DOMAIN st.body.stmts : /\ st.body.stmts[i].k = "eq"
                                                       /\ st.body.stmts[i].lhs.l = l
    [] OTHER        -> FALSE
Carried(stmts) ==
  LET stops == {i \in 2..Len(stmts) : ~Carries(stmts[i], stmts[1].l)} \cup {Len(stmts) + 1}
  IN SubSeq(stmts, 2, (CHOOSE i \in stops : \A j \in stops : i <= j) - 1)
IsFold(c, stmts) ==
  /\ stmts # <<>> /\ stmts[1].k = "let"
  /\ c.d.locals[stmts[1].l].mut
  /\ Carried(stmts) # <<>>

AssignAll(ps) == [i \in DOMAIN ps |-> AssignItem(ps[i][1].e, ps[i][2].e)]
RECURSIVE Blocking(_, _, _)
BlockingLoop(c, s, st, var) ==
  Then(BindElement(c, Counted(c, s, st), st, var), LAMBDA s1, bound :
    Then(Blocking(c, s1, SelectSeq(st.body.stmts, LAMBDA x : x.k = "eq")), LAMBDA s2, inner :
      Out(s2, <<[k |-> "loop", var |-> var, body |-> bound \o inner,
                 bound |-> RenderConst(c, st.iter.ty.len)]>>)))
OneBlocking(c, s, st) ==
  IF st.k = "eq" THEN Then(Sides(c, s, st), LAMBDA s1, ps : Out(s1, AssignAll(ps)))
  ELSE BlockingLoop(c, s, st, LoopVar(c, s, st))
Blocking(c, s, steps) ==
  IF steps = <<>> THEN Out(s, <<>>)
  ELSE Then(OneBlocking(c, s, Head(steps)), LAMBDA s1, h :
         Then(Blocking(c, s1, Tail(steps)), LAMBDA s2, t : Out(s2, h \o t)))
FoldStmts(c, s, stmts) ==
  LET l == stmts[1].l
  IN Then(Leaves(c, DeclareLocal(c, s, l), stmts[1].e), LAMBDA s1, init :
       Then(Blocking(c, s1, Carried(stmts)), LAMBDA s2, steps :
         Emit(s2, Comb(AssignAll(Paired(LocalLeaves(c, l), init)) \o steps))))

OneStmt(c, s, st) ==
  CASE st.k = "let"    -> LetStmt(c, s, st)
    [] st.k = "var"    -> DeclareLocal(c, s, st.l)
    [] st.k = "eq"     -> EqStmt(c, s, st)
    [] st.k \in {"return", "tail"} -> Drive(c, s, st.e)
    [] st.k = "expr"   -> CallStmt(c, s, st.e)
    [] st.k = "when"   -> WhenStmt(c, s, st)
    [] st.k = "for"    -> ForStmt(c, s, st)
StmtsOf(c, s, stmts) ==
  CASE stmts = <<>>      -> s
    [] IsFold(c, stmts)  -> Stmts(c, FoldStmts(c, s, stmts),
                                  SubSeq(stmts, Len(Carried(stmts)) + 2, Len(stmts)))
    [] OTHER             -> Stmts(c, OneStmt(c, s, Head(stmts)), Tail(stmts))
Lowered(c, s, how, x) ==
  CASE how = "value"  -> ValueOf(c, s, x)
    [] how = "leaves" -> LeavesOf(c, s, x)
    [] how = "stmts"  -> StmtsOf(c, s, x)

(***************************************************************************)
(* A module: its ports, then its statements, then its tail.                *)
(***************************************************************************)
Port(dir, name, leaf) == [dir |-> dir, name |-> name \o leaf.suf, w |-> leaf.w, dims |-> leaf.dims]
PortsOf(c, base, ty, drives) ==
  LET sides == Flatten(ty, drives)
      leaves == TypeLeaves(c, <<>>, ty)
  IN IF ty.k = "int" THEN <<>>
     ELSE [i \in DOMAIN leaves |->
             Port(IF sides[i].drives THEN "output" ELSE "input", base, leaves[i])]
Ports(c) ==
  [i \in DOMAIN Doms(c.d) |-> Port("input", <<Doms(c.d)[i].name>>, Bit1)]
  \o FlattenSeq([i \in DOMAIN c.d.params |->
       PortsOf(c, c.d.params[i].name, c.d.params[i].ty, c.d.params[i].out)])
  \o FlattenSeq([i \in DOMAIN c.d.results |->
       PortsOf(c, c.d.results[i].base, c.d.results[i].ty, TRUE)])

Here == [cr |-> crate, d |-> crate[at], subst |-> <<>>, prefix |-> <<>>]
Consts(d) == SelectSeq(d.gens, LAMBDA g : g.kind = "const")

Init ==
  /\ \E i \in DOMAIN Crates : crate = Crates[i]
  /\ at = 0
  /\ todo = <<>>
  /\ sv = Blanked
  /\ modules = <<>>

(* The next definition in source order that is emitted as a module. *)
Following == {i \in (at + 1)..Len(crate) : crate[i].kind = "module"}
Building == todo # <<>>
StartModule ==
  /\ todo = <<>>
  /\ Following # {}
  /\ at' = CHOOSE i \in Following : \A j \in Following : i <= j
  /\ LET d == crate[CHOOSE i \in Following : \A j \in Following : i <= j]
     IN todo' = d.body.stmts \o [i \in DOMAIN d.body.tail |-> [k |-> "tail", e |-> d.body.tail[i]]]
                             \o <<[k |-> "end"]>>
  /\ sv' = Blanked
  /\ UNCHANGED <<crate, modules>>

Done(n) == /\ todo' = SubSeq(todo, n + 1, Len(todo))
           /\ UNCHANGED <<crate, at, modules>>
Plain(kind) == /\ Building
               /\ ~IsFold(Here, todo)
               /\ Head(todo).k = kind
OneStatement == /\ sv' = Stmts(Here, sv, <<Head(todo)>>)
                /\ Done(1)

LowerLet == Plain("let") /\ OneStatement
LowerVar == Plain("var") /\ OneStatement
LowerEquation == Plain("eq") /\ OneStatement
LowerReturn == Plain("return") /\ OneStatement
LowerCall == Plain("expr") /\ OneStatement
LowerWhen == Plain("when") /\ OneStatement
LowerFor == Plain("for") /\ OneStatement
LowerFold == LET n == Len(Carried(todo)) + 1
             IN /\ Building /\ IsFold(Here, todo)
                /\ sv' = Stmts(Here, sv, SubSeq(todo, 1, n))
                /\ Done(n)
DriveTail == Plain("tail") /\ OneStatement
EndModule ==
  /\ Plain("end")
  /\ modules' = Append(modules, [name |-> crate[at].name, ports |-> Ports(Here), items |-> sv.items,
                                 params |-> [i \in DOMAIN Consts(crate[at]) |-> <<Consts(crate[at])[i].name>>],
                                 fault |-> sv.fault])
  /\ todo' = <<>>
  /\ UNCHANGED <<crate, at, sv>>

Next ==
  \/ StartModule \/ LowerLet \/ LowerVar \/ LowerEquation \/ LowerReturn \/ LowerCall
  \/ LowerWhen \/ LowerFor \/ LowerFold \/ DriveTail \/ EndModule

Spec == Init /\ [][Next]_vars
=============================================================================
