------------------------------- MODULE Scopes -------------------------------
(***************************************************************************)
(* Lowering of a function body (hir/body.rs): the ribs of names, the       *)
(* locals, what every name of the body refers to, and the statements each  *)
(* block is lowered to.                                                    *)
(*                                                                         *)
(* A node of the syntax tree is [op, n, kids, pat]: its kids in the order  *)
(* they are lowered in, a pattern or a list of names in `pat`. Whatever    *)
(* only evaluates its kids (operators, calls, indexing, fields, literals,  *)
(* records but for their constructor) is an "op". A node is known by its   *)
(* path from the body, as the code knows an expression by its ExprId. The  *)
(* names of a var are the elements of its `pat`.                           *)
(* Left out: spans, the values of literals, the content of types but for   *)
(* the names in their widths.                                              *)
(***************************************************************************)
EXTENDS Integers, FiniteSets, SequencesExt

CONSTANTS
    Fns,        \* functions: params, generics, results, those of them that are
                \* ports, and a body or splices
    Items,      \* names resolve_in_scope finds in the function's module
    Types,      \* those of them that are a struct or a port
    Ports,      \* constructors of a port
    Paths       \* bases b for which resolve_path finds `b::item`

VARIABLES
    fn,         \* the function
    phase,      \* "body", "verilog" or "done"
    next,       \* the child of the top block, or the splice, to lower next
    cx          \* the BodyLowerer: locals, scopes, blocks, diagnostics...

vars == <<fn, phase, next, cx>>

-----------------------------------------------------------------------------
(* The syntax tree.                                                        *)

PName(n) == [p |-> "name", n |-> n, elems |-> <<>>]
PTuple(elems) == [p |-> "tuple", n |-> "", elems |-> elems]
PStruct(ctor, elems) == [p |-> "struct", n |-> ctor, elems |-> elems]
PNone == PName("")

Leaf(op, n) == [op |-> op, n |-> n, kids |-> <<>>, pat |-> PNone]
Node(op, kids) == [op |-> op, n |-> "", kids |-> kids, pat |-> PNone]

None == Leaf("none", "")         \* an absent type, value or init

RECURSIVE PatternNames(_)
PatternNames(p) ==
    IF p.p = "name" THEN {p.n} ELSE UNION {PatternNames(p.elems[i]) : i \in DOMAIN p.elems}

Sub(at, i) == Append(at, i)

-----------------------------------------------------------------------------
(* Locals and ribs.                                                        *)

NoLocal == 0

AllocUnnamed(c, kind, site) ==
    [c EXCEPT !.locals = Append(@, [kind |-> kind, site |-> site, ty |-> <<>>, mutable |-> FALSE])]

Newest(c) == Len(c.locals)

Define(c, n) ==
    [c EXCEPT !.scopes = Append(Front(@), (n :> Newest(c)) @@ Last(@))]

AllocLocal(c, n, kind, site) == Define(AllocUnnamed(c, kind, site), n)

LookupLocal(c, n) ==
    LET Innermost(ribs) == IF ribs = {} THEN NoLocal ELSE c.scopes[Max(ribs)][n]
    IN  Innermost({i \in DOMAIN c.scopes : n \in DOMAIN c.scopes[i]})

Diag(c, at, kind) == [c EXCEPT !.diags = @ \union {[at |-> at, kind |-> kind]}]

Mean(c, at, what) == [c EXCEPT !.meaning = (at :> what) @@ @]

Local(l) == [is |-> "local", l |-> l]
Other(what) == [is |-> what, l |-> NoLocal]      \* "generic", "item", "bool"...
Missing == Other("missing")
Aggregate == Other("aggregate")                 \* a port, which is not one net

Names(kind) == {g.n : g \in {fn.generics[i] : i \in {j \in DOMAIN fn.generics : fn.generics[j].kind = kind}}}

\* The sole result place, driven by `return` and by the tail of the body.
WholeResult == IF Len(fn.results) = 1 THEN Len(fn.params) + Cardinality(Names("domain")) + 1 ELSE NoLocal

-----------------------------------------------------------------------------
(* What a name refers to.                                                  *)

\* A value: a local, then a const generic, then an item.
LowerPath(c, n) ==
    LET Of(l) ==
            CASE n \in {"true", "false"} /\ l = NoLocal -> Other("bool")
              [] l # NoLocal -> Local(l)
              [] n \notin {"true", "false"} /\ l = NoLocal ->
                    IF n \in Names("const") THEN Other("generic")
                    ELSE IF n \in Items THEN Other("item") ELSE Missing
    IN  Of(LookupLocal(c, n))

\* An argument written `name` alone: a local, then an item.
LowerNameValue(c, n) ==
    LET Of(l) == IF l # NoLocal THEN Local(l) ELSE IF n \in Items THEN Other("item") ELSE Missing
    IN  Of(LookupLocal(c, n))

\* A length, or a width in a type: a const generic, then a local.
LowerLenConst(c, n) ==
    LET Of(l) == IF l # NoLocal THEN Local(l) ELSE Other("deferred")
    IN  IF n \in Names("const") THEN Other("generic") ELSE Of(LookupLocal(c, n))

\* base::item
LowerProjection(n) ==
    IF n \in Names("bounded") THEN Other("assoc")
    ELSE IF n \in Paths THEN Other("item") ELSE Missing

\* base::method(..): a type's method if the base is a type.
NameAsType(n) == n \in Names("type") \union Names("bounded") \union {"bool"} \union Types

\* A `${..}` splice.
ResolveSplice(c, n) ==
    LET Of(l) == IF l = NoLocal THEN IF n \in Names("const") THEN Other("generic") ELSE Missing
                 ELSE IF n \in fn.ports THEN Aggregate ELSE Local(l)
    IN  CASE n \in {"return", "result"} -> Other("result")
          [] n \in Names("domain") \ {"return", "result"} -> Other("domain")
          [] OTHER -> Of(LookupLocal(c, n))

\* `return` as a place.
ResultPlace(c) ==
    LET Of(l) == IF l = NoLocal THEN Missing ELSE Local(l) IN Of(LookupLocal(c, "return"))

\* The constructor of a record.
Constructor(n) == IF n \in Items THEN Other("item") ELSE Missing

LeafOps == {"name", "return", "short", "length", "width", "path", "onType", "record", "splice"}

Resolve(c, node) ==
    CASE node.op = "name" -> LowerPath(c, node.n)
      [] node.op = "return" -> ResultPlace(c)
      [] node.op = "short" -> LowerNameValue(c, node.n)
      [] node.op \in {"length", "width"} -> LowerLenConst(c, node.n)
      [] node.op = "path" -> LowerProjection(node.n)
      [] node.op = "onType" -> IF NameAsType(node.n) THEN Other("type") ELSE LowerProjection(node.n)
      [] node.op = "record" -> Constructor(node.n)
      [] node.op = "splice" -> ResolveSplice(c, node.n)

Refer(c, node, at) ==
    LET Noted(m) ==
            Mean(CASE m = Missing -> Diag(c, at, "Unresolved")
                   [] m = Aggregate -> Diag(c, at, "AggregateSplice")
                   [] OTHER -> c, at, m)
    IN  Noted(Resolve(c, node))

\* The target of `=>`: a local, or a var that begins to exist here.
LowerPlace(c, n, at) ==
    LET Fresh(d) == Mean(d, at, Local(Newest(d)))
        Of(l) == IF l # NoLocal THEN Mean(c, at, Local(l))
                 ELSE Fresh(AllocLocal(c, n, "var", at))
    IN  Of(LookupLocal(c, n))

-----------------------------------------------------------------------------
(* The statements of a block.                                              *)

Let(l, of, at) == [s |-> "let", l |-> l, of |-> of, at |-> at]       \* of: projected from
Eq(l, lhs, rhs) == [s |-> "eq", l |-> l, of |-> lhs, at |-> rhs]     \* l = 0: a written lhs
Ret(at) == [s |-> "return", l |-> NoLocal, of |-> <<>>, at |-> at]
Run(at) == [s |-> "expr", l |-> NoLocal, of |-> <<>>, at |-> at]
Declare(l) == [s |-> "var", l |-> l, of |-> <<>>, at |-> <<>>]
WhenStmt(at) == [s |-> "when", l |-> NoLocal, of |-> <<>>, at |-> at]
ForStmt(index, elem, at) == [s |-> "for", l |-> elem, of |-> <<index>>, at |-> at]

Emit(c, block, st) == [c EXCEPT !.blocks[block].stmts = Append(@, st)]

\* An existing local is destructured in place; another value, or one with a
\* declared type, is bound to a synthetic local first. No name finds it: its
\* own is reserved by the shape `__pat<n>`.
RECURSIVE BindPattern(_, _, _, _, _)

Destructure(c, pat, at, receiver, block) ==
    LET Checked ==
            IF pat.p = "struct" /\ pat.n \in Ports THEN Diag(c, at, "PortPattern") ELSE c
        Elem(d, i) ==
            BindPattern(d, pat.elems[i], Sub(at, i), [of |-> <<receiver, i>>, at |-> <<>>, l |-> NoLocal, ty |-> <<>>], block)
    IN  FoldLeftDomain(Elem, Checked, pat.elems)

BindTo(c, value, block) ==
    Emit([c EXCEPT !.locals[Newest(c)].ty = value.ty], block, Let(Newest(c), value.of, value.at))

\* value: where it comes from, the local it is (0 if none), its declared type
BindPattern(c, pat, at, value, block) ==
    LET Synth(d) == Destructure(BindTo(d, value, block), pat, at, Newest(d), block)
    IN  CASE pat.p = "name" -> BindTo(AllocLocal(c, pat.n, "let", at), value, block)
          [] pat.p # "name" /\ value.l # NoLocal /\ value.ty = <<>> ->
                Destructure(c, pat, at, value.l, block)
          [] pat.p # "name" /\ ~(value.l # NoLocal /\ value.ty = <<>>) ->
                Synth(AllocUnnamed(c, "let", at))


-----------------------------------------------------------------------------
(* The walk. Whatever a node is, its kids are lowered in order; a block has *)
(* statements, and its value if `n` is "tail" as its last kid.              *)

RECURSIVE Walk(_, _, _)
RECURSIVE LowerChild(_, _, _, _)

\* Step by step over kids. (The one-element set makes TLC compute what the
\* kids before come to first, and not in the midst of the next.)
InOrder(Step(_, _), c, kids) ==
    LET Then(d, i) == CHOOSE r \in {Step(e, i) : e \in {d}} : TRUE
    IN  FoldLeftDomain(Then, c, kids)

WalkKids(c, node, at) ==
    InOrder(LAMBDA d, i : Walk(d, node.kids[i], Sub(at, i)), c, node.kids)

\* What the lets before the i-th statement of a block have bound.
LetNames(b, i) ==
    UNION {PatternNames(b.kids[j].pat) : j \in {k \in 1 .. i - 1 : b.kids[k].op = "let"}}

\* The vars of a block exist from its start, without their types.
VarSites(b, at) ==
    LET Of(i) == [k \in DOMAIN b.kids[i].pat.elems |->
                      [n |-> b.kids[i].pat.elems[k].n, at |-> at \o <<i, 3, k>>, st |-> Sub(at, i)]]
    IN  FoldLeftDomain(LAMBDA acc, i : IF b.kids[i].op = "var" THEN acc \o Of(i) ELSE acc, <<>>, b.kids)

PrescanVars(c, sites) ==
    LET One(d, k) ==
            LET v == sites[k]
                again == \E j \in 1 .. k - 1 : sites[j].n = v.n
            IN  AllocLocal(IF again THEN Diag(d, v.st, "DuplicateVar") ELSE d, v.n, "var", v.at)
    IN  FoldLeftDomain(One, c, sites)

OpenRib(c) == [c EXCEPT !.scopes = Append(@, <<>>)]
CloseRib(c) == [c EXCEPT !.scopes = Front(@)]

NoStmts == [stmts |-> <<>>, tail |-> <<>>]
OpenBlock(c, at) == [c EXCEPT !.blocks = @ @@ (at :> NoStmts)]

\* The local a value is, if it is nothing else.
ValueLocal(c, node, at) ==
    IF node.op \in {"name", "return"} /\ c.meaning[at].is = "local" THEN c.meaning[at].l ELSE NoLocal

TypeOf(node, at) == IF node.op = "none" THEN <<>> ELSE at

\* Variant: the name is bound before its value is lowered.
LowerLetEarly(c, block, st, at) ==
    LET d == BindPattern(c, st.pat, Sub(at, 3),
                 [of |-> <<>>, at |-> Sub(at, 2), l |-> NoLocal, ty |-> TypeOf(st.kids[1], Sub(at, 1))], block)
    IN  Walk(Walk(d, st.kids[1], Sub(at, 1)), st.kids[2], Sub(at, 2))

\* let p: T = e;  let p: T;
LowerLet(c, block, st, at) ==
    LET typed == Walk(c, st.kids[1], Sub(at, 1))
        ty == TypeOf(st.kids[1], Sub(at, 1))
        Bare(d) == Emit([AllocLocal(d, st.pat.n, "var", Sub(at, 3))
                           EXCEPT !.locals[Newest(d) + 1].ty = ty], block, Declare(Newest(d) + 1))
        Bound(d) == BindPattern(d, st.pat, Sub(at, 3),
                        [of |-> <<>>, at |-> Sub(at, 2), l |-> ValueLocal(d, st.kids[2], Sub(at, 2)), ty |-> ty],
                        block)
        Marked(d) == IF st.n = "mut" /\ st.pat.p = "name" THEN [d EXCEPT !.locals[Newest(d)].mutable = TRUE]
                     ELSE d
    IN  CASE st.kids[2].op # "none" -> Marked(Bound(Walk(typed, st.kids[2], Sub(at, 2))))
          [] st.kids[2].op = "none" /\ st.pat.p = "name" -> Bare(typed)
          [] st.kids[2].op = "none" /\ st.pat.p # "name" -> Diag(typed, at, "NoInitialiser")

\* var x, y: T = e;  each name is looked up again, and e drives the first.
LowerVar(c, block, st, at) ==
    LET Patch(d, name) ==
            LET Of(l) == Emit([d EXCEPT !.locals[l].ty = TypeOf(st.kids[1], Sub(at, 1))], block, Declare(l))
            IN  Of(LookupLocal(d, name.n))
        Driven(d) == IF st.kids[2].op = "none" THEN d
                     ELSE Emit(d, block, Eq(LookupLocal(d, st.pat.elems[1].n), <<>>, Sub(at, 2)))
        declared == FoldLeft(Patch, Walk(c, st.kids[1], Sub(at, 1)), st.pat.elems)
    IN  Driven(Walk(declared, st.kids[2], Sub(at, 2)))

\* With one result place, `return e` drives it.
LowerReturn(c, block, st, at) ==
    Emit(Walk(c, st.kids[1], Sub(at, 1)), block,
         IF WholeResult # NoLocal THEN Eq(WholeResult, <<>>, Sub(at, 1)) ELSE Ret(Sub(at, 1)))

\* Variant: the value of the body is left where it is.
LowerWhenTail(c, block, st, at) ==
    LET before == Walk(Walk(c, st.kids[1], Sub(at, 1)), st.kids[2], Sub(at, 2))
        Inside(d) == [Walk([d EXCEPT !.inWhen = TRUE], st.kids[3], Sub(at, 3)) EXCEPT !.inWhen = d.inWhen]
    IN  Emit(Inside(before), block, WhenStmt(at))

\* when event init { .. } { .. }: a tail is one more statement, and an `if`
\* without an `else` is allowed.
LowerWhen(c, block, st, at) ==
    LET before == Walk(Walk(c, st.kids[1], Sub(at, 1)), st.kids[2], Sub(at, 2))
        body == Sub(at, 3)
        Folded(d) ==
            IF d.blocks[body].tail = <<>> THEN d
            ELSE [d EXCEPT !.blocks[body] =
                     [stmts |-> Append(@.stmts, Run(@.tail)), tail |-> <<>>]]
        Inside(d) == [Folded(Walk([d EXCEPT !.inWhen = TRUE], st.kids[3], body))
                        EXCEPT !.inWhen = d.inWhen]
    IN  Emit(Inside(before), block, WhenStmt(at))

LowerIf(c, block, st, at) ==
    IF ~c.inWhen THEN Diag(c, at, "IfOutsideWhen")
    ELSE Emit(WalkKids(c, st, at), block, Run(at))

\* The binder of a for, in a rib around the body's; what a pattern projects
\* comes first in the body. A struct pattern is taken for a name, its text.
TextOf(pat) == pat.n \o "{..}"

BindFor(c, st, at, enumerated, range, body) ==
    LET Elem(d, pat, site) ==
            IF pat.p = "name" THEN AllocLocal(d, pat.n, "let", site) ELSE AllocUnnamed(d, "let", site)
        \* the element, and what a pattern for it projects
        WithElem(d, index, pat, site) ==
            LET Projected(f) == IF pat.p = "name" THEN f ELSE Destructure(f, pat, site, Newest(f), body)
                Known(f) == [cx |-> Projected(f), index |-> index, elem |-> Newest(f)]
            IN  Known(Elem(d, pat, site))
        proper == Len(st.pat.elems) = 2 /\ st.pat.elems[1].p = "name"
        Indexed(d) == IF proper THEN AllocLocal(d, st.pat.elems[1].n, "for", Sub(at, 1))
                      ELSE Diag(d, Front(at), "ForEnumerateForm")
        OfPair(d) == WithElem(d, IF proper THEN Newest(d) ELSE NoLocal,
                              IF Len(st.pat.elems) > 1 THEN st.pat.elems[2] ELSE PTuple(<<>>), Sub(at, 2))
        Named(d, n) == [cx |-> AllocLocal(d, n, IF range THEN "for" ELSE "let", at),
                        index |-> NoLocal, elem |-> Newest(d) + 1]
    IN  CASE st.pat.p = "tuple" /\ enumerated -> OfPair(Indexed(c))
          [] st.pat.p = "tuple" /\ ~enumerated -> WithElem(c, NoLocal, st.pat, at)
          [] st.pat.p # "tuple" ->
                Named(IF enumerated THEN Diag(c, Front(at), "ForEnumerateForm") ELSE c,
                      IF st.pat.p = "name" THEN st.pat.n ELSE TextOf(st.pat))

\* for p in e { .. }: `.enumerate()` and `range(..)` are recognised by shape.
LowerFor(c, block, st, at) ==
    LET iter == st.kids[1]
        enumerated == iter.op = "enumerate"
        of == IF enumerated THEN iter.kids[1] ELSE iter
        ofAt == IF enumerated THEN at \o <<1, 1>> ELSE Sub(at, 1)
        Ranges(d) == /\ of.op = "call" /\ of.kids[1].op = "name" /\ of.kids[1].n = "range"
                     /\ d.meaning[Sub(ofAt, 1)].is = "item"
        body == at \o <<2, 2>>
        Done(b) == Emit(CloseRib(Walk(b.cx, st.kids[2], body)), block, ForStmt(b.index, b.elem, at))
        Bind(d) == Done(BindFor(OpenBlock(OpenRib(d), body), st, at \o <<2, 1>>, enumerated, Ranges(d), body))
    IN  Bind(Walk(c, iter, Sub(at, 1)))

LowerStmt(c, block, st, at) ==
    CASE st.op = "let" -> LowerLet(c, block, st, at)
      [] st.op = "var" -> LowerVar(c, block, st, at)
      [] st.op = "assign" -> Emit(WalkKids(c, st, at), block, Eq(NoLocal, Sub(at, 1), Sub(at, 2)))
      [] st.op = "returns" -> LowerReturn(c, block, st, at)
      [] st.op = "run" -> Emit(WalkKids(c, st, at), block, Run(Sub(at, 1)))
      [] st.op = "whenDo" -> LowerWhen(c, block, st, at)
      [] st.op = "ifDo" -> LowerIf(c, block, st, at)
      [] st.op = "for" -> LowerFor(c, block, st, at)

StmtOps == {"let", "var", "assign", "returns", "run", "whenDo", "ifDo", "for"}

\* Variant: a var may be declared after a let of its name.
LowerChildUnchecked(c, b, at, i) ==
    IF b.kids[i].op \in StmtOps THEN LowerStmt(c, at, b.kids[i], Sub(at, i))
    ELSE [Walk(c, b.kids[i], Sub(at, i)) EXCEPT !.blocks[at].tail = Sub(at, i)]

\* The i-th child of a block: a statement, or the value of the block.
LowerChild(c, b, at, i) ==
    LET k == b.kids[i]
        hides == k.op = "var" /\ PatternNames(k.pat) \cap LetNames(b, i) # {}
        Checked == IF hides THEN Diag(c, Sub(at, i), "VarAfterLet") ELSE c
    IN  IF k.op \in StmtOps THEN LowerStmt(Checked, at, k, Sub(at, i))
        ELSE [Walk(c, k, Sub(at, i)) EXCEPT !.blocks[at].tail = Sub(at, i)]

Open(c, b, at) == PrescanVars(OpenBlock(OpenRib(c), at), VarSites(b, at))

LowerBlock(c, b, at) ==
    CloseRib(InOrder(LAMBDA d, i : LowerChild(d, b, at, i), Open(c, b, at), b.kids))

Walk(c, node, at) ==
    CASE node.op = "none" -> c
      [] node.op = "block" -> LowerBlock(c, node, at)
      [] node.op = "target" -> LowerPlace(c, node.n, at)
      [] node.op \in LeafOps -> WalkKids(Refer(c, node, at), node, at)
      [] OTHER -> WalkKids(c, node, at)

-----------------------------------------------------------------------------
(* The lowering of a function.                                             *)

\* The site of what a signature declares; paths of the body start above 0.
Site(section, i) == <<0, section, i>>
Params == 1  Domains == 2  Results == 3

AllocAll(c, names, kind, section) ==
    FoldLeftDomain(LAMBDA d, i : AllocLocal(d, names[i], kind, Site(section, i)), c, names)

Empty == [locals |-> <<>>, scopes |-> <<<<>>>>, inWhen |-> FALSE,
          meaning |-> <<>>, blocks |-> <<>>, diags |-> {}]

DomainNames == FoldLeft(LAMBDA acc, g : IF g.kind = "domain" THEN Append(acc, g.n) ELSE acc, <<>>, fn.generics)

\* BodyLowerer::new: one rib, where a later name wins.
New == AllocAll(AllocAll(AllocAll(Empty, fn.params, "param", Params),
                         DomainNames, "param", Domains), fn.results, "result", Results)

Top == <<>>

Init ==
    /\ fn \in Fns
    /\ phase = IF fn.splices = <<>> THEN "body" ELSE "verilog"
    /\ next = 1
    /\ cx = IF fn.splices = <<>> THEN Open(New, fn.body, Top) ELSE New

LowerNext ==
    /\ phase = "body"
    /\ next <= Len(fn.body.kids)
    /\ cx' = LowerChild(cx, fn.body, Top, next)
    /\ next' = next + 1
    /\ UNCHANGED <<fn, phase>>

\* The tail of the body is the result, if there is one place for it.
FinishBody ==
    /\ phase = "body"
    /\ next > Len(fn.body.kids)
    /\ cx' = LET closed == CloseRib(cx)
                 tail == cx.blocks[Top].tail
             IN  IF WholeResult = NoLocal \/ tail = <<>> THEN closed
                 ELSE [Emit(closed, Top, Eq(WholeResult, <<>>, tail)) EXCEPT !.blocks[Top].tail = <<>>]
    /\ phase' = "done"
    /\ UNCHANGED <<fn, next>>

LowerSplice ==
    /\ phase = "verilog"
    /\ cx' = Refer(cx, Leaf("splice", fn.splices[next]), <<next>>)
    /\ next' = next + 1
    /\ phase' = IF next = Len(fn.splices) THEN "done" ELSE phase
    /\ UNCHANGED fn

Next == LowerNext \/ FinishBody \/ LowerSplice

Spec == Init /\ [][Next]_vars

-----------------------------------------------------------------------------
(* The rule of scope, from positions alone. A path that comes first in the *)
(* order of paths is lowered first.                                        *)

Comes(p, q) ==
    \/ IsStrictPrefix(p, q)
    \/ \E i \in DOMAIN p \cap DOMAIN q : p[i] < q[i] /\ \A j \in 1 .. i - 1 : p[j] = q[j]

\* The nodes that count, each with the scope it is in: a block, or the binder
\* and body of a for. What is in an `if` that is rejected does not count.
RECURSIVE Live(_, _, _, _, _)
Live(node, at, scope, inWhen, whenBody) ==
    LET body(i) == node.op = "for" /\ i = 2
        Kid(i) == Live(node.kids[i],
                       IF body(i) THEN at \o <<2, 2>> ELSE Sub(at, i),
                       IF node.op = "block" THEN at ELSE IF body(i) THEN Sub(at, 2) ELSE scope,
                       inWhen \/ (node.op = "whenDo" /\ i = 3),
                       node.op = "whenDo" /\ i = 3)
    IN  {[at |-> at, scope |-> scope, node |-> node, inWhen |-> inWhen, whenBody |-> whenBody]}
            \union (IF node.op = "ifDo" /\ ~inWhen THEN {} ELSE UNION {Kid(i) : i \in DOMAIN node.kids})

All == Live(fn.body, Top, Top, FALSE, FALSE)

RECURSIVE PatternSites(_, _)
PatternSites(p, at) ==
    IF p.p = "name" THEN {[n |-> p.n, at |-> at]}
    ELSE UNION {PatternSites(p.elems[i], Sub(at, i)) : i \in DOMAIN p.elems}

\* A let binds from its pattern on, a var from the start of its block.
Binds(x) ==
    CASE x.node.op = "let" ->
            {[n |-> s.n, site |-> s.at, scope |-> x.scope, from |-> s.at] : s \in PatternSites(x.node.pat, Sub(x.at, 3))}
      [] x.node.op = "for" ->
            {[n |-> s.n, site |-> s.at, scope |-> Sub(x.at, 2), from |-> s.at] :
                s \in PatternSites(x.node.pat, x.at \o <<2, 1>>)}
      [] x.node.op = "var" ->
            {[n |-> x.node.pat.elems[k].n, site |-> x.at \o <<3, k>>, scope |-> x.scope,
              from |-> x.scope \o <<0>> \o x.at \o <<3, k>>] : k \in DOMAIN x.node.pat.elems}
      [] OTHER -> {}

Unbound == <<>>

\* Where the signature declares n; of two, the later.
Declared(n) ==
    LET In(names, section) == {Site(section, i) : i \in {j \in DOMAIN names : names[j] = n}}
        sites == In(fn.params, Params) \union In(DomainNames, Domains) \union In(fn.results, Results)
    IN  IF sites = {} THEN Unbound ELSE CHOOSE s \in sites : \A t \in sites : t = s \/ Comes(t, s)

\* The site n has at q: of the binders before q in a scope around q the last.
\* A target that finds nothing binds its name.
RECURSIVE Visible(_, _, _, _)
Visible(live, binders, q, n) ==
    LET named == {b \in binders : b.n = n /\ IsPrefix(b.scope, q) /\ Comes(b.from, q)}
        targets == {x \in live : x.node.op = "target" /\ x.node.n = n /\ IsPrefix(x.scope, q)
                                    /\ Comes(x.at, q) /\ Visible(live, binders, x.at, n) = Unbound}
        all == {[from |-> b.from, site |-> b.site] : b \in named}
                  \union {[from |-> x.at, site |-> x.at] : x \in targets}
    IN  IF all = {} THEN Declared(n)
        ELSE (CHOOSE b \in all : \A d \in all : d = b \/ Comes(d.from, b.from)).site

\* What a node that names something refers to, if `site` is what it sees.
Refers(node, site) ==
    LET n == node.n
        local == site # Unbound
        item == IF n \in Items THEN "item" ELSE "missing"
        generic == IF n \in Names("const") THEN "generic" ELSE item
    IN  CASE node.op = "name" -> IF local THEN "local" ELSE IF n \in {"true", "false"} THEN "bool" ELSE generic
          [] node.op = "return" -> IF local THEN "local" ELSE "missing"
          [] node.op = "short" -> IF local THEN "local" ELSE item
          [] node.op \in {"length", "width"} ->
                IF n \in Names("const") THEN "generic" ELSE IF local THEN "local" ELSE "deferred"
          [] node.op = "target" -> "local"
          [] OTHER -> Resolve(cx, node).is

WellFormed == \A d \in cx.diags : d.kind \notin {"ForEnumerateForm", "NoInitialiser"}

BodyDone == phase = "done" /\ fn.splices = <<>>

\* Every name of a body refers to what its position in the text says: the
\* last let, target or for binder before it, or var, of the innermost scope
\* around it that has one, then the signature; else a generic or an item. The
\* ribs of the lowerer come to the same, whatever is nested, shadowed, bound
\* by a pattern or introduced by the target of an output.
NamesResolveLexically ==
    BodyDone /\ WellFormed =>
        LET live == All
            binders == UNION {Binds(x) : x \in live}
            Seen(x) == Visible(live, binders, x.at, IF x.node.op = "return" THEN "return" ELSE x.node.n)
            Agrees(x, site, m) ==
                /\ m.is = Refers(x.node, site)
                /\ m.is = "local" => cx.locals[m.l].site = (IF site = Unbound THEN x.at ELSE site)
        IN  \A x \in {y \in live : y.node.op \in LeafOps \union {"target"}} :
                Agrees(x, Seen(x), cx.meaning[x.at])

Redeclared == \E d \in cx.diags : d.kind \in {"DuplicateVar", "VarAfterLet"}

StmtsOf(b, ss) == {st \in ToSet(cx.blocks[b].stmts) : st.s \in ss}

\* The declaration of a var reaches the signal its name is from the start of
\* the block, and its type with it, unless the block is refused: a let before
\* it in the block would have taken the declaration for itself. A let has its
\* type too, even if its names are bound one by one.
DeclarationsLand ==
    BodyDone /\ WellFormed /\ ~Redeclared =>
        \A x \in All :
            LET ty == TypeOf(x.node.kids[1], Sub(x.at, 1))
                Carried(l, site) == cx.locals[l].ty = ty /\ cx.locals[l].site = site
            IN  /\ x.node.op = "var" =>
                     \A k \in DOMAIN x.node.pat.elems :
                        \E st \in StmtsOf(x.scope, {"var"}) : Carried(st.l, x.at \o <<3, k>>)
                /\ x.node.op = "let" /\ ty # <<>> =>
                     \E st \in StmtsOf(x.scope, {"var", "let"}) : Carried(st.l, Sub(x.at, 3))

\* What the i-th child of the block x comes to.
Meant(x, i) ==
    LET k == x.node.kids[i]
        at == Sub(x.at, i)
        result == IF WholeResult = NoLocal THEN "return" ELSE "eq"
        tail == CASE x.at = Top /\ WholeResult # NoLocal -> "eq"
                  [] ~(x.at = Top /\ WholeResult # NoLocal) /\ x.whenBody -> "expr"
                  [] OTHER -> "tail"
    IN  CASE k.op = "var" /\ k.kids[2].op # "none" -> <<<<"eq", Sub(at, 2)>>>>
          [] k.op = "assign" -> <<<<"eq", Sub(at, 2)>>>>
          [] k.op = "returns" -> <<<<result, Sub(at, 1)>>>>
          [] k.op = "run" -> <<<<"expr", Sub(at, 1)>>>>
          [] k.op = "ifDo" /\ x.inWhen -> <<<<"expr", at>>>>
          [] k.op = "whenDo" -> <<<<"when", at>>>>
          [] k.op = "for" -> <<<<"for", at>>>>
          [] k.op \notin StmtOps -> <<<<tail, at>>>>
          [] OTHER -> <<>>

\* What the block at b was lowered to, but for its declarations.
Lowered(b) ==
    LET Said(st) == IF st.s \in {"let", "var"} THEN <<>> ELSE <<<<st.s, st.at>>>>
    IN  FlattenSeq([i \in DOMAIN b.stmts |-> Said(b.stmts[i])])
            \o (IF b.tail = <<>> THEN <<>> ELSE <<<<"tail", b.tail>>>>)

\* Every equation, statement and value of a block that is not refused is kept,
\* once and in its place: the value of a when becomes its last statement, that
\* of the body drives its one result, and an output that is bound by `return`
\* drives it too.
DrivesKept ==
    BodyDone =>
        \A x \in {y \in All : y.node.op = "block"} :
            Lowered(cx.blocks[x.at]) = FlattenSeq([i \in DOMAIN x.node.kids |-> Meant(x, i)])

\* A body keeps what its blocks say: the declarations with what they declare,
\* and the equations, statements and values in their places.
BlocksKept == DeclarationsLand /\ DrivesKept
=============================================================================
