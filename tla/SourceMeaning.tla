--------------------------- MODULE SourceMeaning ---------------------------
(***************************************************************************)
(* What a definition says, read from its statements and expressions alone: *)
(* the value of every leaf of every local at every tick.  It knows nothing *)
(* of nets, names, prefixes or the order statements are lowered in.  A     *)
(* path selects a leaf: field words and element numbers.                   *)
(***************************************************************************)
EXTENDS Lowering

(***************************************************************************)
(* An activation `a` is a definition with the values of its generics, and  *)
(* the call it stands for, in the caller's activation and environment.     *)
(***************************************************************************)
RECURSIVE ConstOf(_, _)
ConstOf(a, k) ==
  CASE k.k = "lit"   -> k.v
    [] k.k = "par"   -> a.gens[k.i]
    [] k.k = "dom"   -> a.gens[k.i]
    [] k.k = "local" -> ConstOf(a, a.d.locals[k.l].is)
    [] k.k = "sub"   -> ConstOf(a, k.a) - ConstOf(a, k.b)
    [] OTHER         -> 0
(* The leaves of a type, and whether one flows with the binding (`drives`). *)
RECURSIVE Paths(_, _), Forward(_, _, _)
Paths(a, ty) ==
  CASE ty.k = "vec"   -> {<<i>> \o p : i \in 0..(ConstOf(a, ty.len) - 1), p \in Paths(a, ty.elem)}
    [] ty.k = "tuple" -> UNION {{<<ToString(i - 1)>> \o p : p \in Paths(a, ty.es[i])} : i \in DOMAIN ty.es}
    [] ty.k = "agg"   -> UNION {{<<ty.fields[i].name>> \o p : p \in Paths(a, ty.fields[i].ty)}
                                : i \in DOMAIN ty.fields}
    [] OTHER          -> {<<>>}
FieldOf(ty, f) == ty.fields[CHOOSE i \in DOMAIN ty.fields : ty.fields[i].name = f]
Forward(ty, p, drives) ==
  CASE ty.k = "vec"   -> Forward(ty.elem, Tail(p), drives)
    [] ty.k = "tuple" -> Forward(ty.es[CHOOSE i \in DOMAIN ty.es : ToString(i - 1) = Head(p)],
                                 Tail(p), drives)
    [] ty.k = "agg"   -> Forward(FieldOf(ty, Head(p)).ty, Tail(p), drives = ~FieldOf(ty, Head(p)).in)
    [] OTHER          -> drives
(* Does the body of d drive this leaf of local l? *)
BodyDrives(d, l, p) ==
  Forward(d.locals[l].ty, p, \A i \in ParamsFor(d, l) : d.params[i].out)

(* The words of a path, its element numbers, and their lengths. *)
RECURSIVE Split(_, _, _)
Split(a, ty, p) ==
  LET word(sub) == LET r == Split(a, sub, Tail(p)) IN [r EXCEPT !.suf = <<Head(p)>> \o @]
      r == Split(a, ty.elem, Tail(p))
  IN CASE ty.k = "vec"   -> [suf |-> r.suf, idx |-> <<Head(p)>> \o r.idx,
                             dims |-> <<ConstOf(a, ty.len)>> \o r.dims]
       [] ty.k = "tuple" -> word(ty.es[CHOOSE i \in DOMAIN ty.es : ToString(i - 1) = Head(p)])
       [] ty.k = "agg"   -> word(FieldOf(ty, Head(p)).ty)
       [] OTHER          -> [suf |-> <<>>, idx |-> <<>>, dims |-> <<>>]
RECURSIVE CellAt(_, _)
CellAt(v, idx) == IF idx = <<>> THEN v ELSE CellAt(Read(v, Head(idx)), Tail(idx))
(* What the outside puts on an input of the top definition. *)
Outside(a, base, ty, p, t) ==
  LET s == Split(a, ty, p)
      ports == Ports([cr |-> a.cr, d |-> a.d, subst |-> <<>>, prefix |-> <<>>])
      i == CHOOSE j \in DOMAIN ports : ports[j].name = base \o s.suf
  IN CellAt(Stimulus(a.seed, i, s.dims, t), s.idx)
(* Clocks are the first ports of a module, a domain is the top's clock.    *)
Ticks(a, dom, t) == Holds(Stimulus(a.seed, a.gens[dom], <<>>, t))

(***************************************************************************)
(* The statements of a definition, those of the blocks inside expressions   *)
(* too, each iteration of a loop on its own.                                *)
(***************************************************************************)
Bind(l, entry, env) == (l :> entry) @@ env
(* Which iteration of the loops around it an environment stands in. *)
Turn(env) == IF 0 \in DOMAIN env THEN env[0].turn ELSE <<>>
SameTurn(env1, env2) == IsPrefix(Turn(env1), Turn(env2)) \/ IsPrefix(Turn(env2), Turn(env1))
Iteration(a, st, env, i) ==
  LET elem == IF a.d.locals[st.elem].kind = "genvar" THEN [k |-> "int", v |-> i]
              ELSE [k |-> "elem", e |-> st.iter, i |-> i, env |-> env]
      idx == IF st.idx = <<>> THEN env ELSE Bind(st.idx[1], [k |-> "int", v |-> i], env)
  IN Bind(0, [k |-> "turn", turn |-> Append(Turn(env), i)], Bind(st.elem, elem, idx))
Times(a, st) == ConstOf(a, st.iter.ty.len)

RECURSIVE BlocksIn(_)
BlocksIn(e) ==                     \* the statements of the blocks inside e
  LET of(b) == b.stmts \o FlattenSeq([i \in DOMAIN b.tail |-> BlocksIn(b.tail[i])])
      conns(cs) == FlattenSeq([i \in DOMAIN cs |-> IF cs[i].out THEN <<>> ELSE BlocksIn(cs[i].e)])
  IN CASE e.k \in {"field", "slice", "repeat"} -> BlocksIn(e.e)
       [] e.k = "index"   -> BlocksIn(e.e) \o BlocksIn(e.i)
       [] e.k = "replace" -> BlocksIn(e.e) \o BlocksIn(e.i) \o BlocksIn(e.x)
       [] e.k = "reg"     -> BlocksIn(e.d) \o BlocksIn(e.rst) \o BlocksIn(e.init)
       [] e.k \in {"tuple", "vec"} -> FlattenSeq([i \in DOMAIN e.es |-> BlocksIn(e.es[i])])
       [] e.k = "record"  -> conns(e.fields)
       [] e.k = "call"    -> conns(e.args) \o conns([i \in DOMAIN e.named |-> e.named[i].conn])
       [] e.k = "if"      -> BlocksIn(e.cond) \o of(e.then) \o of(e.else)
       [] e.k = "cif"     -> of(e.then) \o of(e.else)
       [] e.k = "when"    -> of(e.body)
       [] e.k = "block"   -> of(e.b)
       [] OTHER           -> <<>>
ExprsOf(st) == CASE st.k \in {"let", "return", "expr"} -> <<st.e>>
                 [] st.k = "eq" -> <<st.rhs>>
                 [] OTHER       -> <<>>
Site(st, env) == [st |-> st, env |-> env]
RECURSIVE LetsIn(_)
LetsIn(stmts) ==                   \* the lets of a `when`, those of its branches too
  FlattenSeq([i \in DOMAIN stmts |->
    CASE stmts[i].k = "let" -> <<stmts[i]>>
      [] stmts[i].k = "expr" -> LetsIn(stmts[i].e.then.stmts) \o LetsIn(stmts[i].e.else.stmts)
      [] OTHER -> <<>>])
RECURSIVE Sites(_, _, _)
Sites(a, stmts, env) ==
  FlattenSeq([i \in DOMAIN stmts |->
    LET st == stmts[i]
        inner == FlattenSeq([j \in DOMAIN ExprsOf(st) |-> BlocksIn(ExprsOf(st)[j])])
    IN CASE st.k = "for" -> FlattenSeq([n \in 1..Times(a, st) |->
                              Sites(a, st.body.stmts, Iteration(a, st, env, n - 1))])
         [] st.k = "when" -> <<Site(st, env)>> \o
                             Sites(a, LetsIn(st.body.stmts), env)
         [] OTHER -> <<Site(st, env)>> \o Sites(a, inner, env)])
Tails(d) == IF d.body.tail = <<>> THEN <<>> ELSE <<[k |-> "return", e |-> d.body.tail[1]]>>
Settled(a) == [a EXCEPT !.sites = Sites(a, a.d.body.stmts \o Tails(a.d), <<>>)]
Activation(cr, def, gens, up, call, env, sink, seed) ==
  Settled([cr |-> cr, d |-> cr[def], gens |-> gens, up |-> up, call |-> call, env |-> env,
           sink |-> sink, seed |-> seed, sites |-> <<>>])
AsTop(cr, def, seed) ==
  Activation(cr, def, [i \in DOMAIN cr[def].gens |->
                         IF cr[def].gens[i].kind = "const" THEN cr[def].gens[i].val ELSE i],
             <<>>, <<>>, <<>>, <<>>, seed)
(* The activation of a call; `sink` is the place its result goes to. *)
Called(a, env, e, sink) ==
  Activation(a.cr, e.def, [i \in DOMAIN e.gens |-> ConstOf(a, e.gens[i])], <<a>>, e, env, sink, a.seed)

DeclaredInLoop(a, l) ==
  \E i \in DOMAIN a.sites :
    LET x == a.sites[i] IN x.st.k = "var" /\ x.st.l = l /\ Turn(x.env) # <<>>
LetsOf(a, l) == SelectSeq(a.sites, LAMBDA x : x.st.k = "let" /\ x.st.l = l)

(***************************************************************************)
(* Values.                                                                 *)
(***************************************************************************)
RECURSIVE Denoted(_, _, _, _, _, _)
Denotes(a, env, how, x, p, t) == Denoted(a, env, how, x, p, t)
E(a, env, e, p, t) == Denotes(a, env, "expression", e, p, t)
OfLocal(a, env, l, p, t) == Denotes(a, env, "local", l, p, t)
ResultIn(a, p, t) == Denotes(a, <<>>, "result", 0, p, t)

(* What is left of a path after a place's projections, if it starts so. *)
RECURSIVE Rest(_, _, _, _, _)
Rest(a, env, projs, p, t) ==
  LET h == Head(projs)
      lo == IF h.off # <<>> THEN E(a, env, h.off[1], <<>>, t)
            ELSE IF h.lo = <<>> THEN 0 ELSE ConstOf(a, h.lo[1])
      w == IF h.off # <<>> THEN ConstOf(a, h.w)
           ELSE IF h.hi = <<>> THEN 1000 ELSE ConstOf(a, h.hi[1]) - lo
  IN CASE projs = <<>> -> {p}
       [] projs # <<>> /\ h.k = "field" ->
            IF Head(p) = h.f THEN Rest(a, env, Tail(projs), Tail(p), t) ELSE {}
       [] projs # <<>> /\ h.k = "index" ->
            IF Head(p) = E(a, env, h.e, <<>>, t) THEN Rest(a, env, Tail(projs), Tail(p), t) ELSE {}
       [] OTHER -> IF Head(p) >= lo /\ Head(p) < lo + w THEN {<<Head(p) - lo>> \o Tail(p)} ELSE {}
TheRest(set) == CHOOSE q \in set : TRUE
Covers(a, env, place, l, p, t) ==
  IF place.l # l THEN {} ELSE Rest(a, env, place.projs, p, t)
(* The leaf of a place. *)
OfPlace(a, env, place, q, t) ==
  LET path == [i \in DOMAIN place.projs |->
                 IF place.projs[i].k = "field" THEN place.projs[i].f
                 ELSE E(a, env, place.projs[i].e, <<>>, t)] \o q
  IN IF place.l = 0 THEN ResultIn(a, path, t) ELSE OfLocal(a, env, place.l, path, t)
(* An expression that is a place, as one. *)
RECURSIVE PlaceOf(_)
PlaceOf(e) ==
  CASE e.k = "local" -> <<[l |-> e.l, projs |-> <<>>]>>
    [] e.k = "field" -> LET b == PlaceOf(e.e)
                        IN IF b = <<>> THEN <<>>
                           ELSE <<[b[1] EXCEPT !.projs = Append(@, [k |-> "field", f |-> e.f])]>>
    [] OTHER -> <<>>

(* A fold's accumulator: each assignment sees the whole value before it.    *)
RECURSIVE Steps(_, _, _)
Steps(a, env, stmts) ==
  FoldLeft(LAMBDA en, st :
    CASE st.k = "eq" -> Bind(st.lhs.l, [k |-> "let", e |-> st.rhs, env |-> en, projs |-> st.lhs.projs], en)
      [] st.k = "let" -> Bind(st.l, [k |-> "let", e |-> st.e, env |-> en, projs |-> <<>>], en)
      [] st.k = "for" -> FoldLeft(LAMBDA inner, i :
                                    Steps(a, Iteration(a, st, inner, i - 1), st.body.stmts),
                                  en, [i \in 1..Times(a, st) |-> i])
      [] OTHER -> en, env, stmts)
FoldAt(d, l) ==
  {i \in DOMAIN d.body.stmts :
     /\ d.body.stmts[i].k = "let" /\ d.body.stmts[i].l = l /\ d.locals[l].mut
     /\ Carried(SubSeq(d.body.stmts, i, Len(d.body.stmts))) # <<>>}
Accumulated(a, l) ==
  LET from == SubSeq(a.d.body.stmts, CHOOSE i \in FoldAt(a.d, l) : TRUE, Len(a.d.body.stmts))
  IN Steps(a, <<>>, <<Head(from)>> \o Carried(from))

RECURSIVE Bound(_, _, _, _, _)
Bound(a, en, l, p, t) ==
  LET by == en[l]
      rest == Rest(a, by.env, by.projs, p, t)
  IN CASE by.k = "int"  -> by.v
       [] by.k = "elem" -> E(a, by.env, by.e, <<by.i>> \o p, t)
       [] by.k = "let"  -> IF rest = {} THEN Bound(a, by.env, l, p, t)
                           ELSE E(a, by.env, by.e, TheRest(rest), t)

(* A register holds 0 until its clock first ticks. *)
Register(a, env, e, p, t) ==
  CASE t = 0 -> 0
    [] t > 0 /\ ~Ticks(a, e.dom, t - 1) -> E(a, env, e, p, t - 1)
    [] OTHER -> E(a, env, IF Holds(E(a, env, e.rst, <<>>, t - 1)) THEN e.d ELSE e.init, p, t - 1)
Memory(a, env, e, p, t) ==
  CASE t = 0 -> IF e.init = <<>> THEN 0 ELSE E(a, env, e.init[1], p, 0)
    [] t > 0 /\ ~Ticks(a, e.event, t - 1) -> E(a, env, e, p, t - 1)
    [] OTHER -> E(a, env, e.body.tail[1], p, t - 1)
(* The guarded assignments of a `when`, in order. *)
RECURSIVE Clauses(_, _)
Clauses(stmts, conds) ==
  FlattenSeq([i \in DOMAIN stmts |->
    CASE stmts[i].k = "eq" -> <<[st |-> stmts[i], conds |-> conds]>>
      [] stmts[i].k = "expr" /\ stmts[i].e.k = "if" ->
           Clauses(stmts[i].e.then.stmts, Append(conds, [e |-> stmts[i].e.cond, v |-> TRUE]))
           \o Clauses(stmts[i].e.else.stmts, Append(conds, [e |-> stmts[i].e.cond, v |-> FALSE]))
      [] OTHER -> <<>>])
Active(a, env, cl, t) ==
  \A i \in DOMAIN cl.conds : Holds(E(a, env, cl.conds[i].e, <<>>, t)) = cl.conds[i].v
Stored(a, env, st, l, p, t) ==
  LET inits == SelectSeq(FlattenSeq(st.init), LAMBDA x : Covers(a, env, x.lhs, l, p, 0) # {})
      writes == SelectSeq(Clauses(st.body.stmts, <<>>),
                          LAMBDA cl : /\ Active(a, env, cl, t - 1)
                                      /\ Covers(a, env, cl.st.lhs, l, p, t - 1) # {})
      last == writes[Len(writes)].st
  IN CASE t = 0 -> IF inits = <<>> THEN 0
                   ELSE E(a, env, inits[1].rhs, TheRest(Covers(a, env, inits[1].lhs, l, p, 0)), 0)
       [] t > 0 /\ (~Ticks(a, st.event, t - 1) \/ writes = <<>>) -> OfLocal(a, env, l, p, t - 1)
       [] OTHER -> E(a, env, last.rhs, TheRest(Covers(a, env, last.lhs, l, p, t - 1)), t - 1)
Stores(st, l) == \/ \E i \in DOMAIN Clauses(st.body.stmts, <<>>) :
                      Clauses(st.body.stmts, <<>>)[i].st.lhs.l = l
                 \/ \E i \in DOMAIN FlattenSeq(st.init) : FlattenSeq(st.init)[i].lhs.l = l

(***************************************************************************)
(* Who drives a leaf: the ways a statement can, as sets of values.         *)
(***************************************************************************)
(* The target of a statement's value: a place (0 is the result), or none. *)
SinkOf(st) == CASE st.k = "let" -> <<[l |-> st.l, projs |-> <<>>]>>
                [] st.k = "eq"  -> <<st.lhs>>
                [] st.k = "return" -> <<[l |-> 0, projs |-> <<>>]>>
                [] OTHER        -> <<>>
ResultVal(b, p, t) ==
  LET returns == SelectSeq(b.d.body.stmts \o Tails(b.d), LAMBDA st : st.k = "return")
      named == {i \in DOMAIN b.d.results :
                  /\ Len(b.d.results[i].path) <= Len(p)
                  /\ SubSeq(p, 1, Len(b.d.results[i].path)) = b.d.results[i].path}
      r == b.d.results[CHOOSE i \in named : TRUE]
  IN IF returns # <<>> THEN E(b, <<>>, returns[1].e, p, t)
     ELSE OfLocal(b, <<>>, r.local, SubSeq(p, Len(r.path) + 1, Len(p)), t)
ByEquation(a, x, l, p, t) ==
  LET fwd == Covers(a, x.env, x.st.lhs, l, p, t)
      rhs == PlaceOf(x.st.rhs)
      back == IF rhs = <<>> THEN {} ELSE Covers(a, x.env, rhs[1], l, p, t)
      projs == SelectSeq(x.st.lhs.projs, LAMBDA h : h.k # "range")
      flows(q) == BodyDrives(a.d, x.st.lhs.l,
                             [i \in DOMAIN projs |-> IF projs[i].k = "field" THEN projs[i].f ELSE 0] \o q)
  IN {E(a, x.env, x.st.rhs, q, t) : q \in {r \in fwd : flows(r)}}
     \cup {OfPlace(a, x.env, x.st.lhs, q, t) : q \in {r \in back : ~flows(r)}}
(* What is returned as a place reads its leaves against the flow. *)
ByReturn(a, x, l, p, t) ==
  LET place == PlaceOf(x.st.e)
      back == IF place = <<>> THEN {} ELSE Covers(a, x.env, place[1], l, p, t)
  IN {ResultIn(a, q, t) : q \in {r \in back : ~Forward(a.d.ret[1], r, TRUE)}}
(* A callee drives the targets of its outs, and what its ports drive. *)
ByCall(a, x, e, l, p, t) ==
  LET b == Called(a, x.env, e, SinkOf(x.st))
      reach(i) == LET conn == ConnOf(b.d, e, i) IN
                  CASE conn = <<>> -> {}
                    [] conn # <<>> /\ conn[1].out -> Covers(a, x.env, conn[1].place, l, p, t)
                    [] OTHER -> IF PlaceOf(conn[1].e) = <<>> THEN {}
                                ELSE Covers(a, x.env, PlaceOf(conn[1].e)[1], l, p, t)
  IN UNION {{OfLocal(b, <<>>, b.d.params[i].local, q, t) :
               q \in {r \in reach(i) : BodyDrives(b.d, b.d.params[i].local, r)}}
            : i \in {j \in DOMAIN b.d.params : b.d.kind = "module"}}
(* `field => target`: the target reads the field of what is bound. *)
ByRecord(a, x, e, l, p, t) ==
  UNION {LET f == e.fields[i]
         IN {OfPlace(a, x.env, SinkOf(x.st)[1], <<f.name>> \o q, t)
             : q \in Covers(a, x.env, f.place, l, p, t)}
         : i \in {j \in DOMAIN e.fields : e.fields[j].out}}
ByStatement(a, x, l, p, t) ==
  LET e == ExprsOf(x.st)[1]
      here == ExprsOf(x.st) # <<>>
  IN (IF x.st.k = "eq" THEN ByEquation(a, x, l, p, t) ELSE {})
     \cup (IF x.st.k = "return" THEN ByReturn(a, x, l, p, t) ELSE {})
     \cup (IF here /\ e.k = "call" THEN ByCall(a, x, e, l, p, t) ELSE {})
     \cup (IF here /\ e.k = "record" THEN ByRecord(a, x, e, l, p, t) ELSE {})
     \cup (IF x.st.k = "when" /\ Stores(x.st, l) THEN {Stored(a, x.env, x.st, l, p, t)} ELSE {})

(* An input leaf of a parameter. *)
Supplied(a, i, p, t) ==
  LET par == a.d.params[i]
      conn == ConnOf(a.d, a.call, i)
  IN CASE a.up = <<>> -> Outside(a, par.name, par.ty, p, t)
       [] a.up # <<>> /\ conn = <<>> -> IF par.default = <<>> THEN Undef ELSE par.default[1]
       [] a.up # <<>> /\ conn # <<>> /\ conn[1].out -> OfPlace(a.up[1], a.env, conn[1].place, p, t)
       [] OTHER -> E(a.up[1], a.env, conn[1].e, p, t)

(* A leaf of a result its consumer drives. *)
ResultOf(b, p, t) ==
  CASE b.up = <<>>   -> Outside(b, <<"result">>, b.d.ret[1], p, t)
    [] b.sink # <<>> -> OfPlace(b.up[1], b.env, b.sink[1], p, t)
    [] OTHER         -> Undef

LocalOf(a, env, l, p, t) ==
  LET lets == LetsOf(a, l)
      omitted == /\ lets[1].st.e.k = "record"
                 /\ \E i \in DOMAIN lets[1].st.e.fields :
                      lets[1].st.e.fields[i].out /\ lets[1].st.e.fields[i].name = Head(p)
      mine(x) == ~DeclaredInLoop(a, l) \/ SameTurn(x.env, env)
      sites == SelectSeq(a.sites, mine)
      by == UNION {ByStatement(a, sites[i], l, p, t) : i \in DOMAIN sites}
  IN CASE l \in DOMAIN env -> Bound(a, env, l, p, t)
       [] l \notin DOMAIN env /\ ParamsFor(a.d, l) # {} /\ ~BodyDrives(a.d, l, p) ->
            Supplied(a, CHOOSE i \in ParamsFor(a.d, l) : TRUE, p, t)
       [] l \notin DOMAIN env /\ FoldAt(a.d, l) # {} -> Bound(a, Accumulated(a, l), l, p, t)
       [] l \notin DOMAIN env /\ a.d.locals[l].result # <<>> /\ ~BodyDrives(a.d, l, p) ->
            ResultIn(a, p, t)
       [] l \notin DOMAIN env /\ FoldAt(a.d, l) = {} /\ lets # <<>> /\ BodyDrives(a.d, l, p)
          /\ ~omitted -> E(a, env, lets[1].st.e, p, t)
       [] OTHER -> IF by = {} THEN Undef ELSE CHOOSE v \in by : TRUE

ExprOf(a, env, e, p, t) ==
  CASE e.k = "lit"    -> e.v
    [] e.k = "const"  -> ConstOf(a, e.c)
    [] e.k = "local"  -> OfLocal(a, env, e.l, p, t)
    [] e.k = "field"  -> E(a, env, e.e, <<e.f>> \o p, t)
    [] e.k = "index"  -> LET i == E(a, env, e.i, <<>>, t)
                         IN IF i \in 0..(ConstOf(a, e.e.ty.len) - 1) THEN E(a, env, e.e, <<i>> \o p, t)
                            ELSE Undef
    [] e.k = "vec"    -> E(a, env, e.es[Head(p) + 1], Tail(p), t)
    [] e.k = "repeat" -> E(a, env, e.e, Tail(p), t)
    [] e.k = "tuple"  -> E(a, env, e.es[CHOOSE i \in DOMAIN e.es : ToString(i - 1) = Head(p)], Tail(p), t)
    [] e.k = "record" -> LET f == {i \in DOMAIN e.fields : e.fields[i].name = Head(p) /\ ~e.fields[i].out}
                         IN IF f = {} THEN Undef
                            ELSE E(a, env, e.fields[CHOOSE i \in f : TRUE].e, Tail(p), t)
    [] e.k = "slice"  -> LET lo == IF e.off # <<>> THEN E(a, env, e.off[1], <<>>, t)
                                   ELSE IF e.lo = <<>> THEN 0 ELSE ConstOf(a, e.lo[1])
                         IN E(a, env, e.e, <<lo + Head(p)>> \o Tail(p), t)
    [] e.k = "replace" -> IF E(a, env, e.i, <<>>, t) = Head(p) THEN E(a, env, e.x, Tail(p), t)
                          ELSE E(a, env, e.e, p, t)
    [] e.k = "if"     -> E(a, env, IF Holds(E(a, env, e.cond, <<>>, t)) THEN e.then.tail[1]
                                   ELSE e.else.tail[1], p, t)
    [] e.k = "cif"    -> E(a, env, IF ConstOf(a, e.a) = e.v THEN e.then.tail[1]
                                   ELSE e.else.tail[1], p, t)
    [] e.k = "block"  -> E(a, env, e.b.tail[1], p, t)
    [] e.k = "reg"    -> Register(a, env, e, p, t)
    [] e.k = "when"   -> Memory(a, env, e, p, t)
    [] e.k = "call" /\ Callee([cr |-> a.cr], e).kind = "verilog" ->
         LET d == Callee([cr |-> a.cr], e)
             arg(i) == LET conn == ConnOf(d, e, i)
                       IN IF conn = <<>> THEN d.params[i].default[1]
                          ELSE E(a, env, conn[1].e, <<>>, t)
         IN Mix(<<d.op>> \o [i \in DOMAIN d.params |-> arg(i)])
    [] OTHER -> ResultVal(Called(a, env, e, <<>>), p, t)

Denoted(a, env, how, x, p, t) ==
  CASE how = "local"      -> LocalOf(a, env, x, p, t)
    [] how = "result"     -> ResultOf(a, p, t)
    [] how = "expression" -> ExprOf(a, env, x, p, t)

(***************************************************************************)
(* The interface of a module: the leaves its body drives, each by its port  *)
(* name and the source value it stands for.                                 *)
(***************************************************************************)
Finished == todo = <<>> /\ at # 0 /\ Following = {}
Emitted(def) == ModuleNamed(modules, crate[def].name)
ParamMeans(x, a, i, t) ==
  LET par == a.d.params[i]
  IN \A p \in Paths(a, par.ty) :
       BodyDrives(a.d, par.local, p) =>
         LET s == Split(a, par.ty, p)
         IN CellAt(NetVal(x, Net(<<>>, par.name \o s.suf), t), s.idx)
              = OfLocal(a, <<>>, par.local, p, t)
ResultMeans(x, a, i, t) ==
  LET r == a.d.results[i]
  IN \A p \in Paths(a, r.ty) :
       Forward(r.ty, p, TRUE) =>
         LET s == Split(a, r.ty, p)
         IN CellAt(NetVal(x, Net(<<>>, r.base \o s.suf), t), s.idx) = ResultVal(a, r.path \o p, t)
ModuleMeans(x, a, t) ==
  /\ \A i \in DOMAIN a.d.params : a.d.params[i].ty.k = "int" \/ ParamMeans(x, a, i, t)
  /\ \A i \in DOMAIN a.d.results : a.d.results[i].ty.k = "int" \/ ResultMeans(x, a, i, t)
ParEnv(d) ==
  LET is == {i \in DOMAIN d.gens : d.gens[i].kind = "const"}
  IN [n \in {<<d.gens[i].name>> : i \in is} |->
        d.gens[CHOOSE i \in is : d.gens[i].name = n[1]].val]
=============================================================================
