------------------------------ MODULE Inference ------------------------------
(***************************************************************************)
(* Type and clock-domain inference of one body (hir/infer.rs): the union-  *)
(* find table, unification, subsumption and join, the walk over the body,  *)
(* the obligations it leaves, their discharge at the end of the body with  *)
(* the fallback of literals, and the defaults of what stays unbound.       *)
(*                                                                         *)
(* A term is a record whose `is` names its constructor; types, consts and  *)
(* domains share it, as they share one space of variables in the code.     *)
(* An expression is known by its path in the body, as the code knows it by *)
(* its ExprId. Left out: spans and the wording of diagnostics, associated  *)
(* consts, fields of const records in widths, and all of width arithmetic  *)
(* but + and -.                                                            *)
(***************************************************************************)
EXTENDS Integers, FiniteSets, SequencesExt

CONSTANTS
    Fns,         \* the functions to infer
    Sigs,        \* the signatures of the defs they call, by name
    Records,     \* the structs and ports: their generics and fields, by name
    Impls,       \* the trait impls of the crate
    Inherent,    \* the inherent methods, by <<owner, name>>
    TraitMethods,\* the methods traits declare, by <<trait, name>>
    MaxDepth     \* the limit of nested bounds, 64 in the code

ASSUME DepthAssumption == MaxDepth \in Nat

VARIABLES
    fn,         \* the function under inference
    phase,      \* "walk", "discharge", "done" or "overflow"
    next,       \* the statement of the body to infer next
    cx,         \* the InferCtx: table, local types, obligations, diagnostics...
    pending,    \* discharge_obligations: the rest of the pass
    progress,   \* discharge_obligations: has the pass decided anything?
    final       \* the Inference: types and substitutions, deep-resolved

vars == <<fn, phase, next, cx, pending, progress, final>>

-----------------------------------------------------------------------------
(* Terms.                                                                  *)

Infer(v) == [is |-> "infer", v |-> v]
ErrorTy == [is |-> "error"]
Unbound == [is |-> "unbound"]

Lit(n) == [is |-> "lit", n |-> n]
Deferred == [is |-> "deferred"]

Const == [is |-> "const"]
Unspecified == [is |-> "unspecified"]

\* In type position `Param` is a kind, in const and domain position a term.
Param(i) == [is |-> "param", i |-> i]

Value(kind, dom) == [is |-> "value", kind |-> kind, dom |-> dom]
Wide(n, w) == [name |-> n, width |-> w]   \* "uint", "sint", "bits"
UInt(w) == Wide("uint", w)
Kind(n) == [name |-> n]                   \* "bool", "reset", "event", "integer"
ParamKind(i) == [name |-> "param", i |-> i]
Integer == Value(Kind("integer"), Const)

Vec(len, elem) == [is |-> "vec", len |-> len, elem |-> elem]
Tuple(elems) == [is |-> "tuple", elems |-> elems]
\* Type::Port, of a struct or a port: its domain is that of the fields that
\* name none.
RecordTy(def, args, dom) == [is |-> "record", def |-> def, args |-> args, dom |-> dom]

ClockTy == [is |-> "clock"]
Event == Value(Kind("event"), Const)

\* Width arithmetic.
Op(op, a, b) == [is |-> "op", op |-> op, a |-> a, b |-> b]

\* Terms side by side, where an operator takes them in turn.
Listed(terms) == [is |-> "list", of |-> terms]

HasWidth(t) == t.is = "value" /\ "width" \in DOMAIN t.kind
HasDomain(t) == t.is \in {"value", "record"}

\* The sorts of a record's arguments, the types a type is made of, its consts.
Sorts(t) == Records[t.def].generics
ArgsOf(t, sort) == {t.args[i] : i \in {j \in DOMAIN t.args : Sorts(t)[j] = sort}}

Inner(t) ==
    CASE t.is = "vec" -> {t.elem}
      [] t.is = "tuple" -> ToSet(t.elems)
      [] t.is = "record" -> ArgsOf(t, "type")
      [] OTHER -> {}

Consts(t) ==
    CASE HasWidth(t) -> {t.kind.width}
      [] t.is = "vec" -> {t.len}
      [] t.is = "record" -> ArgsOf(t, "const")
      [] OTHER -> {}

\* The def whose impls a type dispatches to.
NoOwner == "none"
OwnerOf(t) ==
    CASE t.is = "value" /\ t.kind.name \in {"uint", "sint", "bits", "bool", "integer"} -> t.kind.name
      [] t.is = "vec" -> "Vec"
      [] t.is = "tuple" -> "Tuple"
      [] t.is = "record" -> t.def
      [] t.is = "clock" -> "Clock"
      [] OTHER -> NoOwner

RECURSIVE Leaves(_)
Leaves(x) == IF x.is = "op" THEN Leaves(x.a) \union Leaves(x.b) ELSE {x}

Both(a, b, con) == a.is = con /\ b.is = con

-----------------------------------------------------------------------------
(* The inference table.                                                    *)

\* `fresh` with the sort of the variable; the variable is the table's length.
Fresh(c, sort) ==
    [c EXCEPT !.table = Append(@, [sort |-> sort, to |-> 0, term |-> Unbound])]
Newest(c) == Infer(Len(c.table))

\* The root of a variable. Path compression changes no root and is left out.
RECURSIVE Find(_, _)
Find(tb, v) == IF tb[v].to = 0 THEN v ELSE Find(tb, tb[v].to)

\* resolve_type_shallow, resolve_const_shallow and resolve_domain_shallow
RECURSIVE Resolve(_, _)
Resolve(tb, x) ==
    IF x.is # "infer" THEN x
    ELSE LET r == Find(tb, x.v)
         IN  IF tb[r].term = Unbound THEN Infer(r) ELSE Resolve(tb, tb[r].term)

\* Variant: a merged variable forgets that it must be a clock.
UnionForgets(c, a, b) ==
    LET ra == Find(c.table, a)
        rb == Find(c.table, b)
    IN  IF ra = rb THEN c ELSE [c EXCEPT !.table[rb].to = ra]

\* Domain sorts merge upward.
Union(c, a, b) ==
    LET Roots(ra, rb) ==
            IF ra = rb THEN c
            ELSE [c EXCEPT !.table[rb].to = ra,
                           !.table[ra].sort = IF c.table[rb].sort = "clock" THEN "clock" ELSE @]
    IN  Roots(Find(c.table, a), Find(c.table, b))

Bind(c, v, t) == [c EXCEPT !.table[Find(c.table, v)].term = t]

-----------------------------------------------------------------------------
(* Diagnostics and obligations.                                            *)

DiagOf(c, kind, t) == [c EXCEPT !.diags = @ \union {[kind |-> kind, of |-> t]}]
Diag(c, kind) == DiagOf(c, kind, ErrorTy)
Reported(c, kind, bad) == IF bad = {} THEN c ELSE Diag(c, kind)

Oblige(c, o) == [c EXCEPT !.obls = Append(@, o)]

ConstEq(a, b) == [o |-> "eq", a |-> a, b |-> b]
ConstDomain(l) == [o |-> "const", l |-> l]
TraitBound(tr, of, depth) == [o |-> "trait", trait |-> tr, of |-> of, depth |-> depth]
LiteralFits(ty, v) == [o |-> "fits", ty |-> ty, v |-> v]

-----------------------------------------------------------------------------
(* Unification.                                                            *)

UnifyWidths(c, a, b) ==
    CASE a = b -> c
      [] Both(a, b, "infer") -> Union(c, a.v, b.v)
      [] a.is = "infer" /\ b.is # "infer" -> Bind(c, a.v, b)
      [] a.is # "infer" /\ b.is = "infer" -> Bind(c, b.v, a)
      [] Both(a, b, "lit") /\ a # b -> Diag(c, "WidthMismatch")
      [] OTHER -> Oblige(c, ConstEq(a, b))
UnifyWidth(c, x, y) == UnifyWidths(c, Resolve(c.table, x), Resolve(c.table, y))

BindDomain(c, v, d) ==
    Bind(IF d = Const /\ c.table[v].sort = "clock" THEN Diag(c, "RequiresClock") ELSE c, v, d)
UnifyDomains(c, a, b) ==
    CASE a = b -> c
      [] Both(a, b, "infer") -> Union(c, a.v, b.v)
      [] a.is = "infer" /\ b.is # "infer" -> BindDomain(c, a.v, b)
      [] a.is # "infer" /\ b.is = "infer" -> BindDomain(c, b.v, a)
      [] Unspecified \in {a, b} /\ a # b -> c
      [] OTHER -> Diag(c, "DomainMismatch")
UnifyDomain(c, x, y) == UnifyDomains(c, Resolve(c.table, x), Resolve(c.table, y))

UnifyKind(c, j, k) ==
    IF "width" \in DOMAIN j /\ "width" \in DOMAIN k /\ j.name = k.name
    THEN UnifyWidth(c, j.width, k.width)
    ELSE IF j = k THEN c ELSE Diag(c, "TypeMismatch")

RECURSIVE Unify(_, _, _)

\* The first terms of two lists, by the sort of the parameter.
UnifyFirst(c, sorts, a, b) ==
    CASE sorts[1] = "type" -> Unify(c, a[1], b[1])
      [] sorts[1] = "const" -> UnifyWidth(c, a[1], b[1])
      [] OTHER -> UnifyDomain(c, a[1], b[1])

Sorted(sorts, terms) == [is |-> "sorted", sorts |-> sorts, of |-> terms]
Types(terms) == Sorted([i \in DOMAIN terms |-> "type"], terms)

\* The arguments of one def; those of two do not compare.
UnifyArgs(c, a, b) ==
    IF a.def = b.def THEN Unify(c, Sorted(Sorts(a), a.args), Sorted(Sorts(a), b.args)) ELSE Diag(c, "TypeMismatch")

UnifyResolved(c, a, b) ==
    CASE a = b -> c
      [] Both(a, b, "infer") /\ a # b -> Union(c, a.v, b.v)
      [] a.is = "infer" /\ b.is # "infer" -> Bind(c, a.v, b)
      [] a.is # "infer" /\ b.is = "infer" -> Bind(c, b.v, a)
      [] a # b /\ ErrorTy \in {a, b} /\ "infer" \notin {a.is, b.is} -> c
      [] Both(a, b, "value") -> UnifyDomain(UnifyKind(c, a.kind, b.kind), a.dom, b.dom)
      [] Both(a, b, "record") -> UnifyDomain(UnifyArgs(c, a, b), a.dom, b.dom)
      [] Both(a, b, "vec") -> Unify(UnifyWidth(c, a.len, b.len), a.elem, b.elem)
      [] Both(a, b, "tuple") ->
            IF Len(a.elems) # Len(b.elems) THEN Diag(c, "TupleArityMismatch")
            ELSE Unify(c, Types(a.elems), Types(b.elems))
      [] Both(a, b, "sorted") /\ a # b ->
            Unify(UnifyFirst(c, a.sorts, a.of, b.of),
                  Sorted(Tail(a.sorts), Tail(a.of)), Sorted(Tail(a.sorts), Tail(b.of)))
      [] OTHER -> Diag(c, "TypeMismatch")
Unify(c, x, y) == UnifyResolved(c, Resolve(c.table, x), Resolve(c.table, y))

\* Variant: the edge of the lattice taken from both ends.
SubsumeDomainEither(c, a, b) ==
    IF Const \in {Resolve(c.table, a), Resolve(c.table, b)} THEN c ELSE UnifyDomain(c, a, b)

\* @const fits any expected domain; anything else must unify.
SubsumeDomain(c, a, b) ==
    IF Resolve(c.table, a) = Const THEN c ELSE UnifyDomain(c, a, b)

\* Join t into the target of a branch or a return (merge_branch).
MergeResolved(c, r, b) ==
    CASE r.is = "infer" /\ b.is = "value" ->
            LET d == Fresh(c, "domain")
            IN  SubsumeDomain(Bind(d, r.v, Value(b.kind, Newest(d))), b.dom, Newest(d))
      [] Both(r, b, "value") -> SubsumeDomain(UnifyKind(c, b.kind, r.kind), b.dom, r.dom)
      [] OTHER -> Unify(c, r, b)
Merge(c, target, t) == MergeResolved(c, Resolve(c.table, target), Resolve(c.table, t))

\* a is usable where b is expected.
RECURSIVE Subsume(_, _, _)
SubsumeResolved(c, a, b) ==
    CASE a = b -> c
      [] a # b /\ Both(a, b, "tuple") /\ Len(a.elems) = Len(b.elems) -> Subsume(c, Listed(a.elems), Listed(b.elems))
      [] a # b /\ Both(a, b, "list") ->
            Subsume(Subsume(c, a.of[1], b.of[1]), Listed(Tail(a.of)), Listed(Tail(b.of)))
      [] a # b /\ Both(a, b, "vec") -> Subsume(UnifyWidth(c, a.len, b.len), a.elem, b.elem)
      [] a # b /\ Both(a, b, "value") ->
            SubsumeDomain(UnifyKind(c, a.kind, b.kind), a.dom, b.dom)
      [] a # b /\ Both(a, b, "record") -> SubsumeDomain(UnifyArgs(c, a, b), a.dom, b.dom)
      [] a.is = "value" /\ b.is = "infer" -> Merge(c, b, a)
      [] OTHER -> Unify(c, a, b)
Subsume(c, x, y) == SubsumeResolved(c, Resolve(c.table, x), Resolve(c.table, y))

-----------------------------------------------------------------------------
(* What reads or rebuilds a term through the table.                        *)

\* An elided domain is one to infer. Those inside the arguments of a record
\* are so at a call only (inside): the declared type of a local keeps them.
RECURSIVE Freshen(_, _, _)
Freshen(c, t, inside) ==
    LET Of(u) == Freshen(c, u, inside)
        d == Fresh(c, "domain")
        Remade(u, r) == [cx |-> r.cx, ty |-> u]
    IN  CASE t = Unspecified -> [cx |-> d, ty |-> Newest(d)]
          [] t.is = "list" ->
                IF t.of = <<>> THEN [cx |-> c, ty |-> <<>>]
                ELSE LET first == Of(t.of[1])
                         rest == Freshen(first.cx, Listed(Tail(t.of)), inside)
                     IN  Remade(<<first.ty>> \o rest.ty, rest)
          [] t.is = "value" \/ (t.is = "record" /\ ~inside) ->
                LET r == Of(t.dom) IN Remade([t EXCEPT !.dom = r.ty], r)
          [] t.is = "record" /\ inside ->
                LET r == Of(Listed(Append(t.args, t.dom)))
                IN  Remade(RecordTy(t.def, Front(r.ty), Last(r.ty)), r)
          [] t.is = "vec" -> LET r == Of(t.elem) IN Remade(Vec(t.len, r.ty), r)
          [] t.is = "tuple" -> LET r == Of(Listed(t.elems)) IN Remade(Tuple(r.ty), r)
          [] OTHER -> [cx |-> c, ty |-> t]

FreshenDomains(c, t) == Freshen(c, t, FALSE)

\* t with its parameters replaced. What replaces a type parameter brings its
\* own domain: the one annotated on the parameter is dropped.
RECURSIVE InstantiateConst(_, _)
InstantiateConst(x, s) ==
    CASE x.is = "param" -> s[x.i]
      [] x.is = "op" -> Op(x.op, InstantiateConst(x.a, s), InstantiateConst(x.b, s))
      [] OTHER -> x

\* The elided domains of t itself become e.
RECURSIVE InstantiateOn(_, _, _)
InstantiateOn(t, s, e) ==
    LET Dom(d) == CASE d.is = "param" -> s[d.i]
                    [] d = Unspecified -> e
                    [] OTHER -> d
        Arg(sort, x) ==
            CASE sort = "type" -> InstantiateOn(x, s, e)
              [] sort = "const" -> InstantiateConst(x, s)
              [] OTHER -> Dom(x)
    IN  CASE t.is = "value" /\ t.kind.name = "param" -> s[t.kind.i]
          [] HasWidth(t) -> Value(Wide(t.kind.name, InstantiateConst(t.kind.width, s)), Dom(t.dom))
          [] t.is = "value" /\ ~HasWidth(t) /\ t.kind.name # "param" -> Value(t.kind, Dom(t.dom))
          [] t.is = "vec" -> Vec(InstantiateConst(t.len, s), InstantiateOn(t.elem, s, e))
          [] t.is = "tuple" -> Tuple([i \in DOMAIN t.elems |-> InstantiateOn(t.elems[i], s, e)])
          [] t.is = "record" ->
                RecordTy(t.def, [i \in DOMAIN t.args |-> Arg(Sorts(t)[i], t.args[i])], Dom(t.dom))
          [] OTHER -> t
Instantiate(t, s) == InstantiateOn(t, s, Unspecified)

\* Every elided domain is d, also inside the arguments.
RECURSIVE Stamp(_, _)
Stamp(t, d) ==
    LET Dom(e) == IF e = Unspecified THEN d ELSE e
        Arg(sort, x) ==
            CASE sort = "type" -> Stamp(x, d)
              [] sort = "const" -> x
              [] OTHER -> Dom(x)
    IN  CASE t.is = "value" -> Value(t.kind, Dom(t.dom))
          [] t.is = "vec" -> Vec(t.len, Stamp(t.elem, d))
          [] t.is = "tuple" -> Tuple([i \in DOMAIN t.elems |-> Stamp(t.elems[i], d)])
          [] t.is = "record" ->
                RecordTy(t.def, [i \in DOMAIN t.args |-> Arg(Sorts(t)[i], t.args[i])], Dom(t.dom))
          [] OTHER -> t

\* substitute: an elided domain of the callee is a fresh one at each call.
Substitute(c, t, s) ==
    LET r == Freshen(c, t, TRUE) IN [cx |-> r.cx, ty |-> Instantiate(r.ty, s)]

\* substitute_stamped, of the type t of a field in a record of type r.
SubstituteStamped(t, r) ==
    LET Arg(sort, x) == IF sort = "type" THEN Stamp(x, r.dom) ELSE x
    IN  InstantiateOn(t, [i \in DOMAIN r.args |-> Arg(Sorts(r)[i], r.args[i])], r.dom)

\* A variable for each generic.
FreshSubst(c, generics) ==
    LET New(i) == [sort |-> generics[i], to |-> 0, term |-> Unbound]
    IN  [cx |-> [c EXCEPT !.table = @ \o [i \in DOMAIN generics |-> New(i)]],
         tys |-> [i \in DOMAIN generics |-> Infer(Len(c.table) + i)]]

\* DeepResolver: chase every variable, default what is still unbound.
RECURSIVE DeepConst(_, _)
DeepConst(tb, x) ==
    LET r == Resolve(tb, x)
    IN  CASE r.is = "infer" -> Deferred
          [] r.is = "op" -> Op(r.op, DeepConst(tb, r.a), DeepConst(tb, r.b))
          [] OTHER -> r
DeepDomain(tb, x) == LET r == Resolve(tb, x) IN IF r.is = "infer" THEN Const ELSE r
DeepKind(tb, k) ==
    IF "width" \in DOMAIN k THEN Wide(k.name, DeepConst(tb, k.width)) ELSE k

RECURSIVE Deep(_, _)
DeepTerm(tb, sort, x) ==
    CASE sort = "type" -> Deep(tb, x)
      [] sort = "const" -> DeepConst(tb, x)
      [] OTHER -> DeepDomain(tb, x)

Deep(tb, t) ==
    LET r == Resolve(tb, t)
    IN  CASE r.is = "infer" -> ErrorTy
          [] r.is = "value" -> Value(DeepKind(tb, r.kind), DeepDomain(tb, r.dom))
          [] r.is = "vec" -> Vec(DeepConst(tb, r.len), Deep(tb, r.elem))
          [] r.is = "tuple" -> Tuple([i \in DOMAIN r.elems |-> Deep(tb, r.elems[i])])
          [] r.is = "record" ->
                RecordTy(r.def, [i \in DOMAIN r.args |-> DeepTerm(tb, Sorts(r)[i], r.args[i])],
                         DeepDomain(tb, r.dom))
          [] OTHER -> r

\* There is no occurs check: a type may come to contain itself.
RECURSIVE Cyclic(_, _, _)
Cyclic(tb, t, above) ==
    LET path == above \union (IF t.is = "infer" THEN {Find(tb, t.v)} ELSE {})
    IN  \/ t.is = "infer" /\ Find(tb, t.v) \in above
        \/ \E u \in Inner(Resolve(tb, t)) : Cyclic(tb, u, path)

\* type_has_infer looks at the term as it is written: a variable inside it
\* counts whether or not it is bound.
RECURSIVE TypeHasInfer(_)
TypeHasInfer(t) ==
    \/ t.is = "infer"
    \/ \E x \in Consts(t) : \E l \in Leaves(x) : l.is = "infer"
    \/ \E u \in Inner(t) : TypeHasInfer(u)

IsLiteral(c, t) ==
    LET r == Resolve(c.table, t)
    IN  r.is = "infer" /\ \E i \in DOMAIN c.lits : Resolve(c.table, Infer(c.lits[i])) = r

\* domain_of is that of a value or a record; with_domain reaches inside vectors
\* and tuples.
RECURSIVE WithDomain(_, _, _)
WithDomain(c, t, d) ==
    LET r == Resolve(c.table, t)
    IN  CASE HasDomain(r) -> [r EXCEPT !.dom = d]
          [] r.is = "vec" -> Vec(r.len, WithDomain(c, r.elem, d))
          [] r.is = "tuple" -> Tuple([i \in DOMAIN r.elems |-> WithDomain(c, r.elems[i], d)])
          [] OTHER -> r

\* The domain of a value or a record goes to the clock d; those inside a vector
\* or a tuple are not looked at.
ClockIn(c, t, d) ==
    LET r == Resolve(c.table, t)
    IN  IF HasDomain(r) THEN SubsumeDomain(c, r.dom, d) ELSE c

-----------------------------------------------------------------------------
(* What a const is worth, and what a type matches.                         *)

NoValue == [is |-> "none"]

\* const_arg_of: an expression as a const (a slice endpoint, a definition).
RECURSIVE ConstArg(_)
OpOf(op, a, b) == IF NoValue \in {a, b} THEN NoValue ELSE Op(op, a, b)
ConstArg(e) ==
    CASE e.e \in {"num", "typed"} -> Lit(e.n)
      [] e.e = "constparam" -> Param(e.i)
      [] e.e = "local" -> [is |-> "local", l |-> e.l]
      [] e.e = "method" /\ e.name \in {"add", "sub"} /\ Len(e.args) = 1 ->
            IF e.args[1].out THEN NoValue ELSE OpOf(e.name, ConstArg(e.of), ConstArg(e.args[1].of))
      [] OTHER -> NoValue

\* What drives a local: its let, or the first equation for the whole of it.
Drives(st, l) == (st.s = "let" /\ st.l = l) \/ (st.s = "eq" /\ st.lhs.e = "local" /\ st.lhs.l = l)
\* A const evaluates to a literal, is symbolic (a parameter, an inference
\* variable whether or not it is bound, or an expression that is not followed
\* here), or has no value: a local nothing drives, or driven by itself.
Symbolic == [is |-> "symbolic"]

Followed(x) == IF x = NoValue THEN Symbolic ELSE x
TermOf(l) ==
    LET driving == {i \in DOMAIN fn.body.stmts : Drives(fn.body.stmts[i], l)}
        st == fn.body.stmts[CHOOSE i \in driving : \A j \in driving : i <= j]
    IN  CASE driving # {} -> Followed(ConstArg(IF st.s = "let" THEN st.e ELSE st.rhs))
          [] driving = {} /\ fn.locals[l].param -> Symbolic
          [] OTHER -> NoValue

Combined(op, a, b) ==
    CASE a.is # "lit" -> a
      [] a.is = "lit" /\ b.is # "lit" -> b
      [] OTHER -> Lit(IF op = "add" THEN a.n + b.n ELSE a.n - b.n)

RECURSIVE Evaluate(_, _)
Evaluate(x, above) ==
    CASE x.is \in {"lit", "none"} -> x
      [] x.is = "local" ->
            IF x.l \in above THEN NoValue ELSE Evaluate(TermOf(x.l), above \union {x.l})
      [] x.is = "op" -> Combined(x.op, Evaluate(x.a, above), Evaluate(x.b, above))
      [] OTHER -> Symbolic

\* try_eval and eval_const
Worth(v) == IF v.is = "lit" THEN v ELSE NoValue
EvalConst(x) == Worth(Evaluate(x, {}))

\* The locals a type's widths and lengths name.
RECURSIVE WidthLocals(_)
WidthLocals(t) ==
    LET names == UNION {Leaves(x) : x \in Consts(t)}
    IN  {x.l : x \in {y \in names : y.is = "local"}} \union UNION {WidthLocals(u) : u \in Inner(t)}

\* match_header: what the parameters of the header stand for in the goal.
NoMatch == <<0, ErrorTy>>

RECURSIVE Slots(_, _)
Slots(g, h) ==
    LET Width(x, y) == IF y.is = "param" THEN {<<y.i, x>>} ELSE IF x = y THEN {} ELSE {NoMatch}
        Arg(sort, x, y) ==
            CASE sort = "type" -> Slots(x, y)
              [] sort = "const" -> Width(x, y)
              [] OTHER -> {}
    IN  CASE h.is = "value" /\ h.kind.name = "param" -> {<<h.kind.i, g>>}
          [] HasWidth(g) /\ HasWidth(h) /\ g.kind.name = h.kind.name -> Width(g.kind.width, h.kind.width)
          [] Both(g, h, "value") /\ ~HasWidth(h) /\ h.kind.name # "param" /\ g.kind = h.kind -> {}
          [] Both(g, h, "vec") -> Width(g.len, h.len) \union Slots(g.elem, h.elem)
          [] Both(g, h, "tuple") /\ Len(g.elems) = Len(h.elems) ->
                UNION {Slots(g.elems[i], h.elems[i]) : i \in DOMAIN g.elems}
          [] Both(g, h, "record") /\ g.def = h.def ->
                UNION {Arg(Sorts(g)[i], g.args[i], h.args[i]) : i \in DOMAIN g.args}
          [] OTHER -> {NoMatch}

Matches(g, h) ==
    LET s == Slots(g, h)
    IN  NoMatch \notin s /\ \A p, q \in s : p[1] = q[1] => p[2] = q[2]

Binding(g, h) ==
    LET s == Slots(g, h)
    IN  [i \in {p[1] : p \in s} |-> (CHOOSE p \in s : p[1] = i)[2]]

-----------------------------------------------------------------------------
(* The walk. Each operator returns the context and the type; `at` is the   *)
(* path of the expression, that of its i-th part is at \o <<i>>, and `goal` *)
(* is what its type is related to as soon as it is inferred.               *)

Free == [rel |-> "free", ty |-> ErrorTy]
Joins(t) == [rel |-> "joins", ty |-> t]     \* it is merged into t
Into(t) == [rel |-> "flows", ty |-> t, out |-> FALSE]    \* it goes where a t is expected
OutOf(t) == [rel |-> "flows", ty |-> t, out |-> TRUE]    \* a t goes where it is expected
\* It goes into, or comes out of, a parameter under a substitution.
Passes(t, s, out) == [rel |-> "passes", ty |-> t, subst |-> s, out |-> out]

Relate(c, t, goal) ==
    LET p == IF goal.rel = "passes" THEN Substitute(c, goal.ty, goal.subst) ELSE [cx |-> c, ty |-> goal.ty]
        Flows(from, to) == Subsume(p.cx, from, to)
    IN  CASE goal.rel = "free" -> c
          [] goal.rel = "joins" -> Merge(c, goal.ty, t)
          [] OTHER -> IF goal.out THEN Flows(p.ty, t) ELSE Flows(t, p.ty)

NoTy == [is |-> "none"]

Sub(at, i) == Append(at, i)

\* An expression, a statement, a block, a call of a def, or parts: the type of
\* parts is those of each, a statement and a block have none.
RECURSIVE Walk(_, _, _, _)

\* Parts in turn, each at a place of its own.
Part(of, at, goal) == [of |-> of, at |-> at, goal |-> goal]
Each(exprs, at, goal) == [i \in DOMAIN exprs |-> Part(exprs[i], Sub(at, i), goal)]
Args(args, at) == [i \in DOMAIN args |-> Part(args[i].of, Sub(at, i), Free)]

WalkEach(c, parts) == Walk(c, [parts |-> parts], <<>>, Free)

InferNumber(c, n) ==
    LET d == Fresh(c, "type")
    IN  [cx |-> Oblige([d EXCEPT !.lits = Append(@, Len(d.table))], LiteralFits(Newest(d), n)),
         ty |-> Newest(d)]

\* uint(6)::4, @const unless it says otherwise
InferTyped(c, t, n) ==
    LET u == IF t.dom = Unspecified THEN Value(t.kind, Const) ELSE t
    IN  [cx |-> Oblige(c, LiteralFits(u, n)), ty |-> u]

InferTuple(c, elems, at) ==
    LET r == WalkEach(c, Each(elems, at, Free)) IN [cx |-> r.cx, ty |-> Tuple(r.ty)]

InferVec(c, elems, at) ==
    LET d == Fresh(c, "type")
    IN  [cx |-> WalkEach(d, Each(elems, at, Into(Newest(d)))).cx, ty |-> Vec(Lit(Len(elems)), Newest(d))]

\* p.i of a tuple, p.name of a record (i is then 0): an element has its own
\* domain, a field that names none has the record's. A variable nothing has
\* bound yet has no fields, and no diagnostic.
FieldsNamed(def, name) == SelectSeq(Records[def].fields, LAMBDA f : f.name = name)

FieldOf(c, t, e) ==
    LET named == FieldsNamed(t.def, e.name)
        Yields(ty) == [cx |-> c, ty |-> ty]
        Fails(kind) == [cx |-> Diag(c, kind), ty |-> ErrorTy]
    IN  CASE t.is = "tuple" /\ e.i \in DOMAIN t.elems -> Yields(t.elems[e.i])
          [] t.is = "tuple" /\ e.i \notin DOMAIN t.elems ->
                Fails(IF e.i = 0 THEN "UnknownField" ELSE "TupleIndexOutOfBounds")
          [] t.is = "record" /\ named # <<>> -> Yields(SubstituteStamped(named[1].ty, t))
          [] t.is = "record" /\ named = <<>> -> Fails("UnknownField")
          [] t.is \in {"error", "infer"} -> Yields(ErrorTy)
          [] OTHER -> Fails("FieldOnNonAggregate")

InferField(c, e, at) ==
    LET r == Walk(c, e.of, Sub(at, 1), Free)
    IN  FieldOf(r.cx, Resolve(r.cx.table, r.ty), e)

CheckIndexType(c, t) ==
    LET it == Resolve(c.table, t)
    IN  IF it.is = "error" \/ (it.is = "value" /\ it.kind.name \in {"uint", "integer"}) THEN c
        ELSE Diag(c, "BadIndexType")

\* check_index_bounds: an index written as a number, against a length
\* that is known.
CheckBounds(c, index, len) ==
    LET i == IF index.e = "num" THEN Lit(index.n) ELSE NoValue
        n == EvalConst(Resolve(c.table, len))
    IN  IF NoValue \notin {i, n} /\ i.n \notin 0 .. n.n - 1 THEN Diag(c, "IndexOutOfBounds") ELSE c

ElementOf(c, base, index) ==
    LET bt == Resolve(c.table, base)
    IN  CASE bt.is = "vec" -> [cx |-> CheckBounds(c, index, bt.len), ty |-> bt.elem]
          [] bt.is = "value" /\ bt.kind.name = "bits" ->
                [cx |-> CheckBounds(c, index, bt.kind.width), ty |-> Value(Kind("bool"), bt.dom)]
          [] bt.is = "error" -> [cx |-> c, ty |-> ErrorTy]
          [] OTHER -> [cx |-> Diag(c, "NotIndexable"), ty |-> ErrorTy]

\* A literal nothing has decided, at a place for integers, is one.
AsInteger(c, t) == IF IsLiteral(c, t) THEN Unify(c, t, Integer) ELSE c

\* A literal index is an integer.
InferIndex(c, base, index, at) ==
    LET b == Walk(c, base, Sub(at, 1), Free)
        i == Walk(b.cx, index, Sub(at, 2), Free)
    IN  ElementOf(CheckIndexType(AsInteger(i.cx, i.ty), i.ty), b.ty, index)

\* A call. Its arguments are records of a direction and an expression; the
\* value parameters are positional, named, or `self`. Only `range` is a def that
\* is not a signature's.
Positional(sig, method) == SelectSeq(sig.params, LAMBDA p : ~p.named /\ ~(method /\ p.self))
Receivers(sig) == SelectSeq(sig.params, LAMBDA p : p.self)
NamedParam(sig, name) == SelectSeq(sig.params, LAMBDA p : p.named /\ p.name = name)
Required(params) == Len(SelectSeq(params, LAMBDA p : ~p.default))
Nth(params, i) == IF i \in DOMAIN params THEN <<params[i]>> ELSE <<>>

\* A value goes into its parameter; with `=>` the parameter goes into it. An
\* argument without a parameter binds nothing.
Connect(a, at, to, s) ==
    Part(a.of, at, IF to = <<>> THEN Free ELSE Passes(to[1].ty, s, a.out))

RECURSIVE Require(_, _, _)
Require(c, preds, s) ==
    LET r == Substitute(c, preds[1].of, s)
    IN  IF preds = <<>> THEN c
        ELSE Require(Oblige(r.cx, TraitBound(preds[1].trait, r.ty, 0)), Tail(preds), s)

\* Predicates of the callee become obligations; the receiver goes into `self`.
CallWith(c, sig, s, recv, e, at) ==
    LET called == [c EXCEPT !.substs = (at :> [sorts |-> sig.generics, args |-> s]) @@ @]
        positional == Positional(sig, recv # <<>>)
        n == Len(e.args)
        Receive(b, r) ==
            IF Receivers(sig) = <<>> THEN b ELSE Relate(b, r, Passes(Receivers(sig)[1].ty, s, FALSE))
        Counted(b) ==
            IF n \in Required(positional) .. Len(positional) THEN b ELSE Diag(b, "PositionalArity")
        args == [i \in DOMAIN e.args |-> Connect(e.args[i], Sub(at, i), Nth(positional, i), s)]
        named == [j \in DOMAIN e.named |->
                    Connect(e.named[j], Sub(at, n + j), NamedParam(sig, e.named[j].name), s)]
        required == Require(called, sig.preds, s)
        entered == Counted(IF recv = <<>> THEN required ELSE Receive(required, recv[1]))
    IN  Substitute(WalkEach(entered, args \o named).cx, sig.ret, s)

CallDef(c, def, recv, e, at) == Walk(c, [callee |-> def, recv |-> recv, call |-> e], at, Free)

InferCallee(c, node, at) ==
    LET s == FreshSubst(c, Sigs[node.callee].generics)
    IN  CallWith(s.cx, Sigs[node.callee], s.tys, node.recv, node.call, at)

RangeLen(args) ==
    IF args # <<>> /\ args[1].of.e \in {"num", "local", "constparam"} THEN ConstArg(args[1].of)
    ELSE Deferred

InferCall(c, e, at) ==
    LET walked == WalkEach(c, Args(e.args \o e.named, at)).cx
    IN  CASE e.def = "none" -> [cx |-> walked, ty |-> ErrorTy]
          [] e.def = "range" -> [cx |-> walked, ty |-> Vec(RangeLen(e.args), Integer)]
          [] OTHER -> CallDef([c EXCEPT !.calls = (at :> e) @@ @], e.def, <<>>, e, at)

\* The methods a type has under a name, inherent ones first; of two impls that
\* offer it the ones whose header the type matches; those of its bounds, if it
\* is a parameter.
SelectByHeader(t, offers) ==
    IF Cardinality(offers) < 2 THEN offers ELSE {i \in offers : Matches(t, i.header)}

Candidates(t, name) ==
    LET o == OwnerOf(t)
        offers == {i \in Impls : OwnerOf(i.header) = o /\ name \in DOMAIN i.methods}
        bounds == {p \in fn.preds : <<p.trait, name>> \in DOMAIN TraitMethods}
    IN  CASE o # NoOwner /\ <<o, name>> \in DOMAIN Inherent ->
                {[def |-> Inherent[<<o, name>>], header |-> <<>>]}
          [] o # NoOwner /\ <<o, name>> \notin DOMAIN Inherent ->
                {[def |-> i.methods[name], header |-> <<i.header>>] : i \in SelectByHeader(t, offers)}
          [] t.is = "value" /\ t.kind.name = "param" ->
                {[def |-> TraitMethods[<<p.trait, name>>], header |-> <<Value(ParamKind(1), Unspecified)>>] :
                    p \in {b \in bounds : b.i = t.kind.i}}
          [] OTHER -> {}

\* A resolved method is noted for lowering; what resolves to none is built in.
CallMethod(c, def, recv, e, at) ==
    CallDef([c EXCEPT !.methods = (at :> def) @@ @], def, <<recv>>, e, at)

\* uint(8)::unpack(b): the header of the impl is what ties its generics to the
\* type, for there may be no receiver.
PinImplSelf(r, t, header, at) ==
    LET Pin(c, h) == LET p == Substitute(c, h, r.cx.substs[at].args) IN Unify(p.cx, t, p.ty)
    IN  [cx |-> IF header = <<>> THEN r.cx ELSE Pin(r.cx, header[1]), ty |-> r.ty]

InferTypePath(c, e, at) ==
    LET found == Candidates(e.of, e.name)
        m == CHOOSE x \in found : TRUE
        Fails(kind) == [cx |-> Diag(c, kind), ty |-> ErrorTy]
    IN  CASE Cardinality(found) = 1 ->
                PinImplSelf(CallMethod(c, m.def, e.of, e, at), e.of, m.header, at)
          [] Cardinality(found) > 1 -> Fails("AmbiguousMethod")
          [] OTHER -> Fails("UnresolvedMethod")

\* v[lo..hi] with either end elided, or v[lo..+width]: how far up it reaches,
\* from where, and how wide it is. Other shapes are no slices.
NoSlice == [is |-> "noslice"]
SliceOf(n, e) ==
    LET End(x, elided) == IF x = <<>> THEN elided ELSE ConstArg(x[1])
        low == End(e.lo, Lit(0))
        high == End(e.hi, n)
        w == End(e.width, NoValue)
        Measures(x) == x # NoValue /\ (x.is = "lit" => x.n >= 0)
        Reach(h, l, d) == [is |-> "slice", high |-> h, low |-> l, width |-> d]
    IN  CASE e.width # <<>> /\ (e.lo = <<>> \/ ~Measures(w)) -> NoSlice
          [] e.width # <<>> /\ e.lo # <<>> /\ Measures(w) ->
                Reach(IF low = NoValue THEN NoValue ELSE Op("add", low, w), Lit(0), w)
          [] e.width = <<>> /\ (e.lo \o e.hi = <<>> \/ NoValue \in {low, high}) -> NoSlice
          [] OTHER -> Reach(high, low, IF Both(high, low, "lit") THEN Lit(high.n - low.n)
                                       ELSE Op("sub", high, low))

\* Past the end or below 0, by what the ends evaluate to; an end that has no
\* value yet is left to each instance. A runtime offset is not checked.
Outside(s, n) ==
    \/ s.high # NoValue /\ NoValue \notin {EvalConst(s.high), EvalConst(n)} /\ EvalConst(s.high).n > EvalConst(n).n
    \/ EvalConst(s.low) # NoValue /\ EvalConst(s.low).n < 0
LeaveOpen(c, s, n) ==
    IF s.high # NoValue /\ NoValue \in {EvalConst(s.high), EvalConst(n)}
    THEN [c EXCEPT !.slices = @ \union {[high |-> s.high, len |-> n]}] ELSE c

SlicedTy(t, w) == IF t.is = "vec" THEN Vec(w, t.elem) ELSE Value(Wide("bits", w), t.dom)

\* The slice becomes a call of this method, if there is one.
SliceMethod(c, t, e, at) ==
    LET found == Candidates(t, IF e.width = <<>> THEN "slice" ELSE "slice_from")
    IN  IF Cardinality(found) = 1
        THEN [c EXCEPT !.methods = (at :> (CHOOSE m \in found : TRUE).def) @@ @] ELSE c

Sliceable(t) == t.is = "vec" \/ (t.is = "value" /\ t.kind.name = "bits")

InferSlice(c, e, at) ==
    LET b == Walk(c, e.of, Sub(at, 0), Free)
        bt == Resolve(b.cx.table, b.ty)
        ends == e.lo \o e.hi \o e.width
        walked == WalkEach(b.cx, Each(ends, at, Free)).cx
        n == IF bt.is = "vec" THEN bt.len ELSE bt.kind.width
        s == IF Sliceable(bt) THEN SliceOf(n, e) ELSE NoSlice
        ty == SlicedTy(bt, s.width)
        left == LeaveOpen(walked, s, n)
        backwards == s.width.is = "lit" /\ s.width.n < 0
        runtime == \E l \in WidthLocals(ty) : EvalConst([is |-> "local", l |-> l]) = NoValue
        Fails(d, kind) == [cx |-> Diag(d, kind), ty |-> ErrorTy]
    IN  CASE s = NoSlice -> Fails(walked, "SliceNotImplemented")
          [] s # NoSlice /\ Outside(s, n) -> Fails(left, "SliceOutOfBounds")
          [] s # NoSlice /\ ~Outside(s, n) /\ (backwards \/ runtime) -> Fails(left, "SliceNotImplemented")
          [] OTHER -> [cx |-> SliceMethod(left, bt, e, at), ty |-> ty]

\* Point{x = a, y = b}: fresh generics and a fresh domain for the fields that
\* name none. `=>` binds a field that flows back into the constructor's scope.
InferRecord(c, e, at) ==
    LET rec == Records[e.ctor]
        s == FreshSubst(c, rec.generics)
        d == Fresh(s.cx, "domain")
        ty == RecordTy(e.ctor, s.tys, Newest(d))
        Decl(i) == FieldsNamed(e.ctor, e.fields[i].name)
        known == {i \in DOMAIN e.fields : Decl(i) # <<>>}
        Again(i) == \E j \in 1 .. i - 1 : e.fields[j].name = e.fields[i].name
        Goal(i) ==
            IF i \notin known THEN Free
            ELSE LET t == SubstituteStamped(Decl(i)[1].ty, ty)
                 IN  IF e.fields[i].out THEN OutOf(t) ELSE Into(t)
        missing == {f \in ToSet(rec.fields) : \A i \in DOMAIN e.fields : e.fields[i].name # f.name}
        crossed == {i \in known : e.fields[i].out # (Decl(i)[1].dir = "in")}
        checked == Reported(Reported(Reported(Reported(d, "DuplicateField", {i \in DOMAIN e.fields : Again(i)}),
                                              "UnknownField", DOMAIN e.fields \ known),
                                     "RecordConnector", crossed),
                            "MissingField", missing)
        fields == [i \in DOMAIN e.fields |-> Part(e.fields[i].of, Sub(at, i), Goal(i))]
    IN  IF e.ctor = "none" THEN [cx |-> WalkEach(c, Args(e.fields, at)).cx, ty |-> ErrorTy]
        ELSE [cx |-> WalkEach(checked, fields).cx, ty |-> ty]

\* x.reg(rstn, init): one clock for the data and its reset.
Register(c, x, known, clock, at) ==
    [cx |-> [c EXCEPT !.regs = (at :> [clock |-> clock, known |-> known]) @@ @],
     ty |-> WithDomain(c, x, clock)]

RegOn(c, x, args, clock, at) ==
    LET on == ClockIn(c, x, clock)
        Started(b) == Subsume(b, args[2], WithDomain(b, x, Const))
    IN  Register(IF Len(args) # 2 THEN Diag(on, "RegForm")
                 ELSE Started(Subsume(on, args[1], Value(Kind("reset"), clock))),
                 x, Resolve(c.table, x).is = "value", clock, at)

\* v.replace(i, x): v but for one element. The index is not asked its type.
Replace(c, v, e, at) ==
    LET i == Walk(c, e.args[1].of, Sub(at, 1), Free)
    IN  [cx |-> IF Len(e.args) # 2 THEN Diag(c, "PositionalArity")
                ELSE Walk(AsInteger(i.cx, i.ty), e.args[2].of, Sub(at, 2), Into(v.elem)).cx,
         ty |-> v]

Enumerate(c, v, e) ==
    [cx |-> IF e.args = <<>> THEN c ELSE Diag(c, "PositionalArity"),
     ty |-> Vec(v.len, Tuple(<<Integer, v.elem>>))]

Builtin(c, recv, e, at) ==
    LET v == Resolve(c.table, recv)
        args == WalkEach(c, Args(e.args, at))
        d == Fresh(args.cx, "clock")
    IN  CASE v.is = "vec" /\ e.name = "replace" -> Replace(c, v, e, at)
          [] v.is = "vec" /\ e.name = "enumerate" -> Enumerate(c, v, e)
          [] e.name = "posedge" -> [cx |-> args.cx, ty |-> Event]
          [] e.name = "reg" -> RegOn(d, recv, args.ty, Newest(d), at)
          [] OTHER -> [cx |-> Diag(args.cx, "UnresolvedMethod"), ty |-> ErrorTy]

\* A literal receiver has the type of the first argument, if that is a number's,
\* and is an integer otherwise. The argument is inferred again by the call.
LiteralReceiver(r, e, at) ==
    LET a == Walk(r.cx, e.args[1].of, Sub(at, 1), Free)
        first == Resolve(a.cx.table, a.ty)
        numeric == HasWidth(first) \/ (first.is = "value" /\ first.kind = Kind("integer"))
    IN  CASE ~IsLiteral(r.cx, r.ty) -> r.cx
          [] IsLiteral(r.cx, r.ty) /\ e.args = <<>> -> Unify(r.cx, r.ty, Integer)
          [] OTHER -> Unify(a.cx, r.ty, IF numeric THEN first ELSE Integer)

InferMethod(c, e, at) ==
    LET r == Walk(c, e.of, Sub(at, 0), Free)
        d == LiteralReceiver(r, e, at)
        found == Candidates(Resolve(d.table, r.ty), e.name)
    IN  CASE Cardinality(found) = 1 -> CallMethod(d, (CHOOSE m \in found : TRUE).def, r.ty, e, at)
          [] Cardinality(found) > 1 -> [cx |-> Diag(d, "AmbiguousMethod"), ty |-> ErrorTy]
          [] OTHER -> Builtin(d, r.ty, e, at)

InferBlock(c, b, at, goal) ==
    WalkEach(c, Each(b.stmts, at, Free) \o [i \in DOMAIN b.tail |-> Part(b.tail[i], Sub(at, 0), goal)]).cx

\* { .. } as a value.
InferBlockValue(c, b, at) ==
    LET d == Fresh(c, "type")
    IN  [cx |-> Walk(d, b, Sub(at, 1), Joins(Newest(d))).cx, ty |-> Newest(d)]

\* The condition is inferred, and nothing is asked of it; that of a const if
\* is looked at again in Finish. The tails of the branches are joined.
InferIf(c, e, at) ==
    LET cond == Walk(c, e.cond, Sub(at, 1), Free)
        noted == IF e.const THEN [cond.cx EXCEPT !.ifs = @ \union {Sub(at, 1)}] ELSE cond.cx
        d == Fresh(noted, "type")
        then == Walk(d, e.then, Sub(at, 2), Joins(Newest(d)))
    IN  [cx |-> Walk(then.cx, e.else, Sub(at, 3), Joins(Newest(d))).cx, ty |-> Newest(d)]

\* event_clock: the generic behind the clock of clk.posedge().
EventClock(event) ==
    IF event.e = "method" /\ event.name = "posedge" /\ event.of.e = "local"
    THEN IF event.of.l \in DOMAIN fn.clocks THEN <<Param(fn.clocks[event.of.l])>> ELSE <<>>
    ELSE <<>>

\* when clk.posedge() [init] { .. }: the value lives on the clock. The type
\* asked of `init` is that of an unbound variable, so its domain is not.
InferWhen(c, e, at) ==
    LET d == Fresh(Walk(c, e.event, Sub(at, 3), Free).cx, "type")
        result == Newest(d)
        started == WalkEach(d, Each(e.init, at, Into(WithDomain(d, result, Const)))).cx
        body == Walk(started, e.body, Sub(at, 2), Joins(result)).cx
        On1(b, clock) ==
            Register(ClockIn(b, result, clock), result, Resolve(b.table, result).is = "value", clock, at)
        clocks == EventClock(e.event)
    IN  IF clocks = <<>> THEN [cx |-> body, ty |-> result] ELSE On1(body, clocks[1])

InferKind(c, e, at) ==
    CASE e.e = "num" -> InferNumber(c, e.n)
      [] e.e = "typed" -> InferTyped(c, e.ty, e.n)
      [] e.e = "bool" -> [cx |-> c, ty |-> Value(Kind("bool"), Const)]
      [] e.e = "constparam" -> [cx |-> c, ty |-> Integer]
      [] e.e = "local" -> [cx |-> c, ty |-> c.locals[e.l]]
      [] e.e = "tuple" -> InferTuple(c, e.elems, at)
      [] e.e = "vec" -> InferVec(c, e.elems, at)
      [] e.e = "repeat" -> LET r == Walk(c, e.of, Sub(at, 0), Free) IN [cx |-> r.cx, ty |-> Vec(e.len, r.ty)]
      [] e.e = "slice" -> InferSlice(c, e, at)
      [] e.e = "index" -> InferIndex(c, e.of, e.by, at)
      [] e.e = "call" -> InferCall(c, e, at)
      [] e.e = "field" -> InferField(c, e, at)
      [] e.e = "method" -> InferMethod(c, e, at)
      [] e.e = "path" -> InferTypePath(c, e, at)
      [] e.e = "record" -> InferRecord(c, e, at)
      [] e.e = "if" -> InferIf(c, e, at)
      [] e.e = "when" -> InferWhen(c, e, at)
      [] e.e = "block" -> InferBlockValue(c, e.body, at)

\* infer_expr records the type of every expression.
InferExpr(c, e, at) ==
    LET Record(r) == [cx |-> [r.cx EXCEPT !.exprs = (at :> r.ty) @@ @], ty |-> r.ty]
    IN  Record(InferKind(c, e, at))

\* The drive of a whole result joins like a return; another is a coercion.
InferEquation(c, lhs, rhs, at) ==
    LET l == Walk(c, lhs, Sub(at, 1), Free)
        wholeResult == lhs.e = "local" /\ fn.locals[lhs.l].result
    IN  Walk(l.cx, rhs, Sub(at, 2), IF wholeResult THEN Joins(l.ty) ELSE Into(l.ty)).cx

\* The element of a vector or a bit of bits. The compile-time values of any
\* vector but range's own are looked at again in Finish (fors).
ElementTy(t) ==
    CASE t.is = "vec" -> t.elem
      [] t.is = "value" /\ t.kind.name = "bits" -> Value(Kind("bool"), t.dom)
      [] OTHER -> ErrorTy

IterateOver(c, iter, st) ==
    LET t == Resolve(c.table, iter)
        asked == IF t = ErrorTy \/ Sliceable(t) THEN c ELSE Diag(c, "NotIterable")
        noted == IF st.iter.e = "call" /\ st.iter.def = "range" THEN asked
                 ELSE [asked EXCEPT !.fors = @ \union {st.elem}]
        bound == Unify(noted, ElementTy(t), c.locals[st.elem])
    IN  FoldLeft(LAMBDA d, i : [d EXCEPT !.locals[i] = Integer], bound, st.index)

InferFor(c, st, at) ==
    LET it == Walk(c, st.iter, Sub(at, 1), Free)
    IN  Walk(IterateOver(it.cx, it.ty, st), st.body, Sub(at, 2), Free).cx

InferStmt(c, st, at) ==
    CASE st.s = "let" -> Walk(c, st.e, Sub(at, 1), Into(c.locals[st.l])).cx
      [] st.s = "expr" -> Walk(c, st.e, Sub(at, 1), Free).cx
      [] st.s = "eq" -> InferEquation(c, st.lhs, st.rhs, at)
      [] st.s = "for" -> InferFor(c, st, at)
      [] st.s = "when" ->
            Walk(Walk(Walk(c, st.event, Sub(at, 3), Free).cx, st.init, Sub(at, 1), Free).cx,
                 st.body, Sub(at, 2), Free).cx

Walk(c, node, at, goal) ==
    LET Goes(r) == [cx |-> Relate(r.cx, r.ty, goal), ty |-> r.ty]
        first == LET p == node.parts[1] IN Walk(c, p.of, p.at, p.goal)
        rest == WalkEach(first.cx, Tail(node.parts))
    IN  CASE "parts" \in DOMAIN node ->
                IF node.parts = <<>> THEN [cx |-> c, ty |-> <<>>]
                ELSE [cx |-> rest.cx, ty |-> <<first.ty>> \o rest.ty]
          [] "callee" \in DOMAIN node -> InferCallee(c, node, at)
          [] "e" \in DOMAIN node /\ "s" \notin DOMAIN node -> Goes(InferExpr(c, node, at))
          [] "s" \in DOMAIN node -> [cx |-> InferStmt(c, node, at), ty |-> NoTy]
          [] "stmts" \in DOMAIN node -> [cx |-> InferBlock(c, node, at, goal), ty |-> NoTy]

-----------------------------------------------------------------------------
(* Obligations. Each operator returns the context and whether the          *)
(* obligation was decided; one that was not goes back to the queue.        *)

Decided(c) == [cx |-> c, done |-> TRUE]
Undecided(c, o) == [cx |-> Oblige(c, o), done |-> FALSE]

\* A width names the local: an integer, known when elaborating.
DischargeConstDomain(c, o) ==
    LET lt == c.locals[o.l]
        d == IF IsLiteral(c, lt) THEN Unify(c, lt, Integer) ELSE c
        r == Resolve(d.table, lt)
        dom == IF HasDomain(r) THEN Resolve(d.table, r.dom) ELSE Const
        hardware == HasWidth(r) \/ (r.is = "value" /\ r.kind.name \in {"bool", "reset", "event"})
    IN  CASE hardware -> Decided(Diag(d, "WidthNotInteger"))
          [] ~hardware /\ dom.is = "param" -> Decided(Diag(d, "ClockedWidth"))
          [] OTHER -> Decided(d)

DischargeEq(c, o) ==
    LET a == Resolve(c.table, o.a)
        b == Resolve(c.table, o.b)
        known == NoValue \notin {EvalConst(a), EvalConst(b)}
    IN  CASE a = b \/ (known /\ EvalConst(a) = EvalConst(b)) -> Decided(c)
          [] known /\ EvalConst(a) # EvalConst(b) -> Decided(Diag(c, "WidthMismatch"))
          [] OTHER -> Undecided(c, ConstEq(a, b))

\* Two's complement for sint.
InRange(kind, n, v) ==
    IF kind.name = "sint" THEN n >= 1 /\ v \in -(2 ^ (n - 1)) .. 2 ^ (n - 1) - 1
    ELSE n >= 0 /\ v \in 0 .. 2 ^ n - 1

DischargeFits(c, o) ==
    LET t == Resolve(c.table, o.ty)
        w == IF HasWidth(t) THEN EvalConst(Resolve(c.table, t.kind.width)) ELSE NoValue
    IN  CASE t.is = "error" \/ (t.is = "value" /\ t.kind = Kind("integer")) -> Decided(c)
          [] t.is = "infer" \/ (HasWidth(t) /\ w = NoValue) -> Undecided(c, LiteralFits(t, o.v))
          [] w # NoValue ->
                Decided(IF InRange(t.kind, w.n, o.v) THEN c ELSE Diag(c, "LiteralDoesNotFit"))
          [] OTHER -> Decided(Diag(c, "LiteralBadType"))

\* Variant: a nested bound is as deep as the one it comes from.
SolveTraitFlat(c, o, t) ==
    LET fits == {i \in Impls : i.trait = o.trait /\ Matches(t, i.header)}
        Nested(b, p) ==
            LET i == CHOOSE j \in fits : TRUE
            IN  Oblige(b, TraitBound(p.trait, Instantiate(p.of, Binding(t, i.header)), o.depth))
    IN  CASE o.depth > MaxDepth -> Diag(c, "BoundOverflow")
          [] o.depth <= MaxDepth /\ t.is = "error" -> c
          [] o.depth <= MaxDepth /\ t.is = "value" /\ t.kind.name = "param" ->
                IF [trait |-> o.trait, i |-> t.kind.i] \in fn.preds THEN c
                ELSE Diag(c, "UnsatisfiedBound")
          [] o.depth <= MaxDepth /\ OwnerOf(t) # NoOwner /\ Cardinality(fits) = 1 ->
                FoldLeft(Nested, c, (CHOOSE i \in fits : TRUE).preds)
          [] o.depth <= MaxDepth /\ OwnerOf(t) # NoOwner /\ Cardinality(fits) > 1 -> Diag(c, "AmbiguousImpls")
          [] OTHER -> Diag(c, "UnsatisfiedBound")

\* solve_trait always decides: an impl's own bounds are obligations one deeper.
SolveTrait(c, o, t) ==
    LET fits == {i \in Impls : i.trait = o.trait /\ Matches(t, i.header)}
        Nested(b, p) ==
            LET i == CHOOSE j \in fits : TRUE
            IN  Oblige(b, TraitBound(p.trait, Instantiate(p.of, Binding(t, i.header)), o.depth + 1))
    IN  CASE o.depth > MaxDepth -> Diag(c, "BoundOverflow")
          [] o.depth <= MaxDepth /\ t.is = "error" -> c
          [] o.depth <= MaxDepth /\ t.is = "value" /\ t.kind.name = "param" ->
                IF [trait |-> o.trait, i |-> t.kind.i] \in fn.preds THEN c
                ELSE Diag(c, "UnsatisfiedBound")
          [] o.depth <= MaxDepth /\ OwnerOf(t) # NoOwner /\ Cardinality(fits) = 1 ->
                FoldLeft(Nested, c, (CHOOSE i \in fits : TRUE).preds)
          [] o.depth <= MaxDepth /\ OwnerOf(t) # NoOwner /\ Cardinality(fits) > 1 -> Diag(c, "AmbiguousImpls")
          [] OTHER -> Diag(c, "UnsatisfiedBound")

DischargeTrait(c, o) ==
    LET t == Resolve(c.table, o.of)
    IN  IF TypeHasInfer(t) THEN Undecided(c, TraitBound(o.trait, t, o.depth))
        ELSE Decided(SolveTrait(c, o, t))

Discharge(c, o) ==
    CASE o.o = "const" -> DischargeConstDomain(c, o)
      [] o.o = "eq" -> DischargeEq(c, o)
      [] o.o = "fits" -> DischargeFits(c, o)
      [] o.o = "trait" -> DischargeTrait(c, o)

\* Literals nothing has decided are integers.
FallbackLiterals(c) ==
    FoldLeft(LAMBDA d, v : IF Resolve(d.table, Infer(v)).is = "infer" THEN Unify(d, Infer(v), Integer) ELSE d,
             c, c.lits)

-----------------------------------------------------------------------------
(* The inference of a body.                                                *)

\* Parameters get their type, any other local a variable, unified with its
\* declared type if it has one.
SeedLocal(c, l) ==
    LET declared == l.ty
        d == Fresh(c, "type")
        widths == FoldLeft(LAMBDA b, w : Oblige(b, ConstDomain(w)), d, SetToSeq(WidthLocals(declared)))
        domains == FreshenDomains(IF l.param THEN c ELSE widths, declared)
        Known(b, t) == [b EXCEPT !.locals = Append(@, t)]
    IN  CASE l.param -> Known(domains.cx, domains.ty)
          [] ~l.param /\ declared = NoTy -> Known(d, Newest(d))
          [] ~l.param /\ declared # NoTy -> Known(Unify(domains.cx, Newest(d), domains.ty), Newest(d))

EmptyCtx ==
    [table |-> <<>>, lits |-> <<>>, locals |-> <<>>, obls |-> <<>>, diags |-> {}, ifs |-> {},
     fors |-> {}, exprs |-> <<>>, substs |-> <<>>, regs |-> <<>>, calls |-> <<>>, methods |-> <<>>,
     eqs |-> {}, fits |-> {}, slices |-> {}]

NoInference == [locals |-> <<>>, exprs |-> <<>>, substs |-> <<>>, methods |-> <<>>, clocks |-> <<>>]

Init ==
    /\ fn \in Fns
    /\ phase = "walk"
    /\ next = 1
    /\ cx = FoldLeft(SeedLocal, EmptyCtx, fn.locals)
    /\ pending = <<>>
    /\ progress = FALSE
    /\ final = NoInference

InferNext ==
    /\ phase = "walk"
    /\ next <= Len(fn.body.stmts)
    /\ cx' = Walk(cx, fn.body.stmts[next], <<next>>, Free).cx
    /\ next' = next + 1
    /\ UNCHANGED <<fn, phase, pending, progress, final>>

\* A pass takes the whole queue, and what is queued meanwhile is for the next.
StartPass ==
    /\ pending' = cx.obls
    /\ progress' = FALSE

EndWalk ==
    /\ phase = "walk"
    /\ next > Len(fn.body.stmts)
    /\ phase' = "discharge"
    /\ cx' = [cx EXCEPT !.obls = <<>>]
    /\ StartPass
    /\ UNCHANGED <<fn, next, final>>

DischargeOne ==
    /\ phase = "discharge"
    /\ pending # <<>>
    /\ LET r == Discharge(cx, Head(pending))
       IN  /\ cx' = r.cx
           /\ progress' = (progress \/ r.done)
    /\ pending' = Tail(pending)
    /\ UNCHANGED <<fn, phase, next, final>>

NextPass ==
    /\ phase = "discharge"
    /\ pending = <<>>
    /\ progress
    /\ cx' = [cx EXCEPT !.obls = <<>>]
    /\ StartPass
    /\ UNCHANGED <<fn, phase, next, final>>

\* The stall: literals fall back, and there is one more pass.
Fallback ==
    /\ phase = "discharge"
    /\ pending = <<>>
    /\ ~progress
    /\ FallbackLiterals(cx) # cx
    /\ cx' = [FallbackLiterals(cx) EXCEPT !.obls = <<>>]
    /\ pending' = FallbackLiterals(cx).obls
    /\ progress' = FALSE
    /\ UNCHANGED <<fn, phase, next, final>>

\* Variant: a bound nothing decided is dropped.
ResidualSilent(c, o) ==
    CASE o.o = "eq" -> [c EXCEPT !.eqs = @ \union {{o.a, o.b}}]
      [] o.o = "fits" /\ o.ty.is = "value" /\ Resolve(c.table, o.ty.kind.width).is # "infer" ->
            [c EXCEPT !.fits = @ \union {[v |-> o.v, width |-> Resolve(c.table, o.ty.kind.width)]}]
      [] OTHER -> c

\* What no pass decides: equalities and fits are left to each instance, a
\* bound is an error.
Residual(c, o) ==
    CASE o.o = "eq" -> [c EXCEPT !.eqs = @ \union {{o.a, o.b}}]
      [] o.o = "fits" /\ o.ty.is = "value" /\ Resolve(c.table, o.ty.kind.width).is # "infer" ->
            [c EXCEPT !.fits = @ \union {[v |-> o.v, width |-> Resolve(c.table, o.ty.kind.width)]}]
      [] o.o = "trait" -> DiagOf(c, "CannotInferBound", Deep(c.table, o.of))
      [] OTHER -> c

\* The condition of a const if is not on a clock.
CheckConstIf(c, path) ==
    LET t == Deep(c.table, c.exprs[path])
    IN  IF t.is = "value" /\ t.dom.is = "param" THEN Diag(c, "ConstIfRuntimeCond") ELSE c

CheckFor(c, l) ==
    LET t == Deep(c.table, c.locals[l])
    IN  IF t.is = "value" /\ t.kind = Kind("integer") THEN Diag(c, "ForConstVec") ELSE c

\* The widths in a type. One that inference leaves open, that has no value or
\* that is below 0 is an error.
RECURSIVE Widths(_)
Widths(t) ==
    (IF HasWidth(t) THEN {t.kind.width} ELSE {}) \union UNION {Widths(u) : u \in Inner(t)}

CheckWidths(c) ==
    LET widths == UNION {Widths(Deep(c.table, c.locals[l])) : l \in DOMAIN c.locals}
        deferred == {w \in widths : Deferred \in Leaves(w)}
        negative == {w \in widths \ deferred : EvalConst(w) # NoValue /\ EvalConst(w).n < 0}
        empty == {w \in widths \ deferred : Evaluate(w, {}) = NoValue}
    IN  Reported(Reported(Reported(c, "DeferredWidth", deferred), "NegativeWidth", negative),
                 "UnevaluableWidth", empty)

Stalled ==
    /\ phase = "discharge"
    /\ pending = <<>>
    /\ ~progress
    /\ FallbackLiterals(cx) = cx

Finite(c) == \A l \in DOMAIN c.locals : ~Cyclic(c.table, c.locals[l], {})

Finish ==
    /\ Stalled
    /\ Finite(cx)
    /\ LET left == FoldLeft(Residual, cx, cx.obls)
           checked == FoldLeft(CheckConstIf, FoldLeft(CheckFor, CheckWidths(left), SetToSeq(left.fors)),
                               SetToSeq(left.ifs))
           tb == left.table
           Term(c, i) == DeepTerm(tb, c.sorts[i], c.args[i])
       IN  /\ cx' = [checked EXCEPT !.obls = <<>>]
           /\ final' = [locals |-> [l \in DOMAIN left.locals |-> Deep(tb, left.locals[l])],
                        exprs |-> [p \in DOMAIN left.exprs |-> Deep(tb, left.exprs[p])],
                        substs |-> [p \in DOMAIN left.substs |->
                                      LET c == left.substs[p] IN [i \in DOMAIN c.args |-> Term(c, i)]],
                        methods |-> left.methods,
                        clocks |-> [p \in DOMAIN left.regs |-> DeepDomain(tb, left.regs[p].clock)]]
    /\ phase' = "done"
    /\ UNCHANGED <<fn, next, pending, progress>>

\* Resolving a type that contains itself does not return: the stack overflows.
Overflow ==
    /\ Stalled
    /\ ~Finite(cx)
    /\ phase' = "overflow"
    /\ UNCHANGED <<fn, next, cx, pending, progress, final>>

Next == InferNext \/ EndWalk \/ DischargeOne \/ NextPass \/ Fallback \/ Finish \/ Overflow

\* WF_vars(Next) with its ENABLED written out (TLC would infer the statement
\* again to decide it): until the end some action has a step to take.
Ended == phase \in {"done", "overflow"}
Fairness == []<>Ended \/ []<><<Next>>_vars

Spec == Init /\ [][Next]_vars /\ Fairness

-----------------------------------------------------------------------------
(* Properties.                                                             *)

Clean == phase = "done" /\ cx.diags = {}

\* `directions`, a check of its own over the calls of the body: = goes to an
\* undirected or `in` parameter and => to an out one. Calls of methods and
\* type paths are not looked at.
CheckDir(a, p) ==
    CASE a.out /\ ~p.out -> {"OutToNonOut"}
      [] ~a.out /\ p.out -> {"ValueToOut"}
      [] OTHER -> {}

CallDirections(e) ==
    LET sig == Sigs[e.def]
        positional == Positional(sig, TRUE)
        Bound(i) == IF i \in DOMAIN positional THEN CheckDir(e.args[i], positional[i]) ELSE {}
        ByName(n) ==
            LET to == NamedParam(sig, n.name)
            IN  CASE to # <<>> -> CheckDir(n, to[1])
                  [] to = <<>> /\ n.name \notin sig.names -> {"UnknownNamedArg"}
                  [] OTHER -> {}
    IN  UNION ({Bound(i) : i \in DOMAIN e.args} \union {ByName(e.named[j]) : j \in DOMAIN e.named})

Directions(c) == UNION {CallDirections(c.calls[at]) : at \in DOMAIN c.calls}

\* The declarative rules: a fits b if it is b, up to @const in place of any
\* domain; an elided domain is any; an error is not reported twice; widths may
\* be left to an instance.
SameWidth(x, y) ==
    x = y \/ {x, y} \in cx.eqs \/ LET worth == {EvalConst(z) : z \in {x, y}}
                                   IN  Cardinality(worth) = 1 /\ worth # {NoValue}
OnOf(d, e) == d \in {e, Const, Unspecified} \/ e = Unspecified

SameShape(a, b) ==
    CASE Both(a, b, "value") -> a.kind.name = b.kind.name /\ (HasWidth(a) \/ a.kind = b.kind)
      [] Both(a, b, "tuple") -> Len(a.elems) = Len(b.elems)
      [] Both(a, b, "record") -> a.def = b.def
      [] OTHER -> Both(a, b, "vec") \/ a = b

\* The parts of two types of one shape, each with its sort.
PartsOf(a, b) ==
    LET Stamped(i) == IF Sorts(a)[i] = "type"
                      THEN <<"type", Stamp(a.args[i], a.dom), Stamp(b.args[i], b.dom)>>
                      ELSE <<Sorts(a)[i], a.args[i], b.args[i]>>
    IN  CASE HasWidth(a) -> {<<"const", a.kind.width, b.kind.width>>}
          [] a.is = "vec" -> {<<"const", a.len, b.len>>, <<"type", a.elem, b.elem>>}
          [] a.is = "tuple" -> {<<"type", a.elems[i], b.elems[i]>> : i \in DOMAIN a.elems}
          [] a.is = "record" -> {Stamped(i) : i \in DOMAIN a.args}
          [] OTHER -> {}

RECURSIVE FitsIn(_, _)
FitsIn(a, b) ==
    LET FitsAs(sort, x, y) ==
            CASE sort = "type" -> FitsIn(x, y)
              [] sort = "const" -> SameWidth(x, y)
              [] OTHER -> OnOf(x, y) /\ OnOf(y, x)
    IN  \/ ErrorTy \in {a, b}
        \/ /\ SameShape(a, b)
           /\ HasDomain(a) => OnOf(a.dom, b.dom)
           /\ \A p \in PartsOf(a, b) : FitsAs(p[1], p[2], p[3])
Same(a, b) == FitsIn(a, b) /\ FitsIn(b, a)

NumberFits(n, t) ==
    \/ t.is = "error"
    \/ t.is = "value" /\ t.kind.name = "integer"
    \/ HasWidth(t) /\ t.kind.width = Deferred
    \/ /\ HasWidth(t)
       /\ \/ [v |-> n, width |-> t.kind.width] \in cx.fits
          \/ EvalConst(t.kind.width) # NoValue /\ InRange(t.kind, EvalConst(t.kind.width).n, n)

\* A bound holds by a written bound or by the only impl that matches.
RECURSIVE Holds(_, _)
Holds(tr, t) ==
    CASE t.is = "error" -> TRUE
      [] t.is = "value" /\ t.kind.name = "param" -> [trait |-> tr, i |-> t.kind.i] \in fn.preds
      [] OTHER ->
            LET fits == {i \in Impls : i.trait = tr /\ Matches(t, i.header)}
            IN  /\ Cardinality(fits) = 1
                /\ \A i \in fits : \A k \in DOMAIN i.preds :
                      Holds(i.preds[k].trait, Instantiate(i.preds[k].of, Binding(t, i.header)))

TypeAt(at) == final.exprs[at]
On(t, d) == WithDomain(cx, t, d)

\* An expression, a statement or a block is well typed, and its value fits goal.
RECURSIVE Typed(_, _, _)
AnyTy == ErrorTy
TypedAll(args, at) == \A i \in DOMAIN args : Typed(args[i].of, Sub(at, i), AnyTy)

\* A call of def: every argument and the receiver fit their parameters under
\* one substitution, the result is the return type, and the bounds hold.
CallTyped(def, recv, e, at) == Typed([callee |-> def, recv |-> recv, call |-> e], at, AnyTy)
TypedCall(def, recv, e, at) ==
    LET sig == Sigs[def]
        s == final.substs[at]
        positional == Positional(sig, recv # <<>>)
        P(p) == Instantiate(p.ty, s)
        Fits(a, t, p) == IF a.out THEN FitsIn(P(p), t) ELSE FitsIn(t, P(p))
        n == Len(e.args)
    IN  /\ Same(TypeAt(at), Instantiate(sig.ret, s))
        /\ TypedAll(e.args \o e.named, at)
        /\ \A i \in DOMAIN e.args : Fits(e.args[i], TypeAt(Sub(at, i)), positional[i])
        /\ \A i \in n + 1 .. Len(positional) : positional[i].default
        /\ \A j \in DOMAIN e.named : \A p \in ToSet(NamedParam(sig, e.named[j].name)) :
              Fits(e.named[j], TypeAt(Sub(at, n + j)), p)
        /\ \A i \in DOMAIN recv : \A p \in ToSet(Receivers(sig)) : FitsIn(recv[i], P(p))
        /\ \A k \in DOMAIN sig.preds : Holds(sig.preds[k].trait, Instantiate(sig.preds[k].of, s))

\* The method called is the one the type of the receiver has by that name, and
\* for a type path the header of its impl is that type.
TypedMethod(recv, e, at) ==
    LET found == Candidates(recv, e.name)
    IN  /\ {m.def : m \in found} = {final.methods[at]}
        /\ CallTyped(final.methods[at], <<recv>>, e, at)
        /\ e.e = "path" => \A m \in found : \A i \in DOMAIN m.header :
                              Same(recv, Instantiate(m.header[i], final.substs[at]))

\* The register rule, for data whose type is known where it is registered: the
\* code looks no further (infer.rs:2886).
TypedReg(e, at) ==
    LET d == final.clocks[at]
        data == TypeAt(Sub(at, 0))
    IN  /\ FitsIn(TypeAt(Sub(at, 1)), Value(Kind("reset"), d))
        /\ cx.regs[at].known =>
              /\ TypeAt(at) = On(data, d)
              /\ FitsIn(data, TypeAt(at))
              /\ FitsIn(TypeAt(Sub(at, 2)), On(data, Const))

TypedBuiltin(e, at) ==
    LET t == TypeAt(at)
        recv == TypeAt(Sub(at, 0))
    IN  /\ TypedAll(e.args, at)
        /\ CASE e.name = "reg" -> TypedReg(e, at)
             [] e.name = "replace" -> Same(t, recv) /\ FitsIn(TypeAt(Sub(at, 2)), t.elem)
             [] e.name = "enumerate" -> Same(t, Vec(recv.len, Tuple(<<Integer, recv.elem>>)))
             [] OTHER -> t = Event

\* In bounds, or with a bound left to each instance.
TypedSlice(e, at) ==
    LET base == TypeAt(Sub(at, 0))
        n == IF base.is = "vec" THEN base.len ELSE base.kind.width
        s == SliceOf(n, e)
        ends == e.lo \o e.hi \o e.width
    IN  /\ Typed(e.of, Sub(at, 0), AnyTy) /\ \A i \in DOMAIN ends : Typed(ends[i], Sub(at, i), AnyTy)
        /\ s # NoSlice /\ ~Outside(s, n)
        /\ s.high \notin {n, NoValue} /\ NoValue \in {EvalConst(s.high), EvalConst(n)}
             => [high |-> s.high, len |-> n] \in cx.slices
        /\ Same(TypeAt(at), SlicedTy(base, s.width))

TypedRecord(e, at) ==
    LET t == TypeAt(at)
        rec == Records[e.ctor]
        Fits(f, p) ==
            LET decl == FieldsNamed(e.ctor, f.name)[1]
                dt == SubstituteStamped(decl.ty, t)
            IN  /\ f.out = (decl.dir = "in")
                /\ IF f.out THEN FitsIn(dt, TypeAt(p)) ELSE FitsIn(TypeAt(p), dt)
    IN  /\ Len(e.fields) = Len(rec.fields)
        /\ {e.fields[i].name : i \in DOMAIN e.fields} = {f.name : f \in ToSet(rec.fields)}
        /\ TypedAll(e.fields, at)
        /\ \A i \in DOMAIN e.fields : Fits(e.fields[i], Sub(at, i))

TypedField(e, at) ==
    LET of == TypeAt(Sub(at, 1))
        part == IF of.is = "tuple" THEN of.elems[e.i] ELSE SubstituteStamped(FieldsNamed(of.def, e.name)[1].ty, of)
    IN  Typed(e.of, Sub(at, 1), AnyTy) /\ (TypeAt(at) # ErrorTy => Same(TypeAt(at), part))

TypedExpr(e, at) ==
    LET t == TypeAt(at)
        Sub1(i) == TypeAt(Sub(at, i))
    IN  CASE e.e \in {"num", "typed"} -> NumberFits(e.n, t)
          [] e.e = "local" -> t = final.locals[e.l]
          [] e.e \in {"bool", "constparam"} -> t.is = "value" /\ t.dom = Const
          [] e.e = "tuple" ->
                /\ \A i \in DOMAIN e.elems : Typed(e.elems[i], Sub(at, i), AnyTy)
                /\ t = Tuple([i \in DOMAIN e.elems |-> Sub1(i)])
          [] e.e = "vec" -> \A i \in DOMAIN e.elems : Typed(e.elems[i], Sub(at, i), t.elem)
          [] e.e = "repeat" -> Typed(e.of, Sub(at, 0), AnyTy) /\ t = Vec(e.len, Sub1(0))
          [] e.e = "slice" -> TypedSlice(e, at)
          [] e.e = "index" ->
                /\ Typed(e.of, Sub(at, 1), AnyTy) /\ Typed(e.by, Sub(at, 2), AnyTy)
                /\ t # ErrorTy => t = ElementTy(Sub1(1))
          [] e.e = "call" ->
                CASE e.def = "none" -> t = ErrorTy
                  [] e.def = "range" -> TypedAll(e.args, at) /\ t = Vec(RangeLen(e.args), Integer)
                  [] OTHER -> CallTyped(e.def, <<>>, e, at)
          [] e.e = "field" -> TypedField(e, at)
          [] e.e = "method" ->
                /\ Typed(e.of, Sub(at, 0), AnyTy)
                /\ IF at \in DOMAIN final.methods THEN TypedMethod(Sub1(0), e, at) ELSE TypedBuiltin(e, at)
          [] e.e = "path" -> TypedMethod(e.of, e, at)
          [] e.e = "record" -> IF e.ctor = "none" THEN t = ErrorTy ELSE TypedRecord(e, at)
          [] e.e = "if" ->
                Typed(e.cond, Sub(at, 1), AnyTy) /\ Typed(e.then, Sub(at, 2), t) /\ Typed(e.else, Sub(at, 3), t)
          [] e.e = "when" ->
                /\ Typed(e.body, Sub(at, 2), t)
                /\ \A d \in ToSet(EventClock(e.event)) : cx.regs[at].known => t = On(t, d)
          [] e.e = "block" -> Typed(e.body, Sub(at, 1), t)

TypedStmt(st, at) ==
    CASE st.s = "let" -> Typed(st.e, Sub(at, 1), final.locals[st.l])
      [] st.s = "expr" -> Typed(st.e, Sub(at, 1), AnyTy)
      [] st.s = "eq" -> Typed(st.lhs, Sub(at, 1), AnyTy) /\ Typed(st.rhs, Sub(at, 2), TypeAt(Sub(at, 1)))
      [] st.s = "for" ->
            /\ Typed(st.iter, Sub(at, 1), AnyTy) /\ Same(ElementTy(TypeAt(Sub(at, 1))), final.locals[st.elem])
            /\ Typed(st.body, Sub(at, 2), AnyTy)
      [] st.s = "when" -> Typed(st.init, Sub(at, 1), AnyTy) /\ Typed(st.body, Sub(at, 2), AnyTy)

Typed(node, at, goal) ==
    CASE "e" \in DOMAIN node /\ "s" \notin DOMAIN node -> TypedExpr(node, at) /\ FitsIn(TypeAt(at), goal)
      [] "s" \in DOMAIN node -> TypedStmt(node, at)
      [] "callee" \in DOMAIN node -> TypedCall(node.callee, node.recv, node.call, at)
      [] "stmts" \in DOMAIN node ->
            /\ \A i \in DOMAIN node.stmts : Typed(node.stmts[i], Sub(at, i), AnyTy)
            /\ \A i \in DOMAIN node.tail : Typed(node.tail[i], Sub(at, 0), goal)

\* A body without a diagnostic is well typed under the types inference
\* reports: each value fits where it goes, on one clock, at one width (or a
\* width left to the instance), every literal fits its type, every call is of
\* the one method or def its receiver has and has its bounds, every record is
\* complete and every slice in bounds (or left to the instance).
AcceptedBodiesFit == Clean /\ Directions(cx) = {} => Typed(fn.body, <<>>, AnyTy)

\* A variable that must be a clock is @const only with a diagnostic, whatever
\* it was merged with before; one nothing binds is defaulted, and not checked.
ConstIsNoClock ==
    (\E v \in DOMAIN cx.table : cx.table[v].sort = "clock" /\ Resolve(cx.table, Infer(v)) = Const)
        => \E d \in cx.diags : d.kind = "RequiresClock"

\* Nothing that was queued is lost: when the pass is over, what is not decided
\* is a residual of the body or a diagnostic.
UndecidedIsKept ==
    [][phase' = "done" =>
        \A i \in DOMAIN cx.obls :
            LET o == cx.obls[i]
            IN  \/ o.o = "eq" /\ {o.a, o.b} \in cx'.eqs
                \/ o.o = "trait" /\ \E d \in cx'.diags : d.kind = "CannotInferBound"
                \/ /\ o.o = "fits" /\ Deep(cx.table, o.ty).is = "value"
                   /\ \/ Deep(cx.table, o.ty).kind.width = Deferred
                      \/ \E f \in cx'.fits : f.v = o.v]_vars

\* Inference ends, in an answer or in the overflow of a type that contains
\* itself.
Terminates == <>Ended
=============================================================================
