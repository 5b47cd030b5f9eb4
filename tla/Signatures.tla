----------------------------- MODULE Signatures -----------------------------
(***************************************************************************)
(* Lowering of declarations to signatures (hir/sig.rs): the generics of a  *)
(* declaration and those it takes from its impl or trait, the bounds on    *)
(* them, the types of its parameters and results, and the clock domain of  *)
(* every leaf of those types - written, filled from around it, or lifted.  *)
(*                                                                         *)
(* A written type is [w, n, dom, named, pos]: its sort, name, `@domain` (""*)
(* if none) and arguments. A lowered one is [t, k, i, dom, parts]: its     *)
(* sort, kind, index if it is the i-th generic, domain, and what it is     *)
(* made of. Left out: spans, defaults, and what a number is.               *)
(***************************************************************************)
EXTENDS Integers, FiniteSets, SequencesExt

CONSTANTS
    Decls,      \* the declarations
    Nominal,    \* structs and ports in scope, with the number of their positional generics
    Traits      \* traits in scope, with the names of their constants

VARIABLES
    decl,       \* the declaration
    phase,      \* "classify", "bounds", "types", "domains", "places" or "done"
    sig,        \* what is known of its signature
    diags       \* its diagnostics

vars == <<decl, phase, sig, diags>>

-----------------------------------------------------------------------------
(* What is written.                                                        *)

Written(w, n, dom, named, pos) == [w |-> w, n |-> n, dom |-> dom, named |-> named, pos |-> pos]

NoType == Written("none", "", "", <<>>, <<>>)

IsTuple(w) == w.w = "tuple"
IsVec(w) == w.w = "type" /\ w.n = "Vec"
IsPlain(w) == w.w = "type" /\ w.dom = "" /\ w.named = <<>> /\ w.pos = <<>>

\* The elements of an aggregate.
Elements(w) == IF IsTuple(w) THEN w.pos ELSE IF IsVec(w) THEN Tail(w.pos) ELSE <<>>

InTrait == decl.trait # ""
InImpl == decl.impl # <<>>
TheImpl == decl.impl[1]

-----------------------------------------------------------------------------
(* Lowered types, constants and domains.                                   *)

Dom(d, i) == [d |-> d, i |-> i]
Unspecified == Dom("unspecified", 0)
Const == Dom("const", 0)

Ty(t, k, i, dom, parts) == [t |-> t, k |-> k, i |-> i, dom |-> dom, parts |-> parts]

Value(k, parts, dom) == Ty("value", k, 0, dom, parts)
Param(i, dom) == Ty("value", "param", i, dom, <<>>)
Vec(len, elem) == Ty("vec", "", 0, Unspecified, <<len, elem>>)
Tuple(elems) == Ty("tuple", "", 0, Unspecified, elems)
Port(n, args, dom) == Ty("port", n, 0, dom, args)
Clock == Ty("clock", "", 0, Unspecified, <<>>)
Unresolved == Ty("error", "unresolved", 0, Unspecified, <<>>)
Missing == Ty("error", "missing", 0, Unspecified, <<>>)     \* and not reported
DomainArg(i) == Ty("domain", "", 0, Dom("param", i), <<>>)

Lit == Ty("const", "lit", 0, Unspecified, <<>>)
ConstParam(i) == Ty("const", "param", i, Unspecified, <<>>)
Deferred == Ty("const", "deferred", 0, Unspecified, <<>>)
Op(a, b) == Ty("const", "op", 0, Unspecified, <<a, b>>)
Assoc(trait, self) == Ty("const", trait, 0, Unspecified, <<self>>)

HasSlot(ty) == ty.t \in {"value", "port", "domain"}

\* Unspecified domains become d (StampDom, LiftDomains).
RECURSIVE Fill(_, _)
Fill(ty, d) ==
    [ty EXCEPT !.dom = IF HasSlot(ty) /\ @ = Unspecified THEN d ELSE @,
               !.parts = [i \in DOMAIN @ |-> Fill(@[i], d)]]

\* Variant: only the outermost slot is filled.
StampOuter(ty, d) == IF HasSlot(ty) /\ ty.dom = Unspecified THEN [ty EXCEPT !.dom = d] ELSE ty

Stamp(ty, d) == IF d = Unspecified THEN ty ELSE Fill(ty, d)

RECURSIVE HasUnresolved(_)
HasUnresolved(ty) == ty = Unresolved \/ \E i \in DOMAIN ty.parts : HasUnresolved(ty.parts[i])

-----------------------------------------------------------------------------
(* Generics.                                                               *)

Generic(n, kind) == [n |-> n, kind |-> kind]
Lifted == "__Dom"

\* A parameter is a generic by its keyword.
IsGeneric(p) == p.n # "self" /\ p.kind # ""
KindOf(p) == IF p.kind = "dom" THEN "clock" ELSE p.kind

GenericsOf(params) ==
    LET written == SelectSeq(params, IsGeneric)
    IN  [i \in DOMAIN written |-> Generic(written[i].n, KindOf(written[i]))]

ValuesOf(params) == SelectSeq(params, LAMBDA p : ~IsGeneric(p))

\* The first generic of a name and kind.
IndexOf(gs, n, kinds) ==
    LET found == {i \in DOMAIN gs : gs[i].n = n /\ gs[i].kind \in kinds}
    IN  IF found = {} THEN 0 ELSE Min(found)

-----------------------------------------------------------------------------
(* The lowering of a type. env: generics; what Self is (none: <<>>); the   *)
(* trait whose constants have bare names, with its self (none: <<>>); the  *)
(* bounds, as <<index, trait>>.                                            *)

Env(gs, self, assoc, bounds) == [gs |-> gs, self |-> self, assoc |-> assoc, bounds |-> bounds]

LowerDomain(env, n) ==
    LET Of(i) == IF i = 0 THEN Unspecified ELSE Dom("param", i)
    IN  CASE n = "" -> Unspecified
          [] n = "const" -> Const
          [] n \notin {"", "const"} -> Of(IndexOf(env.gs, n, {"clock"}))

HasConst(trait, n) == trait \in DOMAIN Traits /\ n \in Traits[trait]

LowerConstName(env, n) ==
    LET Of(i) == IF i # 0 THEN ConstParam(i)
                 ELSE IF env.assoc # <<>> /\ HasConst(env.assoc[1], n) THEN Assoc(env.assoc[1], env.assoc[2])
                 ELSE Deferred
    IN  Of(IndexOf(env.gs, n, {"const"}))

\* T::item, by the first bound of T that has it.
LowerConstPath(env, base, item) ==
    LET Of(i) ==
            LET able == SelectSeq(env.bounds, LAMBDA b : b[1] = i /\ HasConst(b[2], item))
            IN  IF i = 0 \/ able = <<>> THEN Deferred ELSE Assoc(Head(able)[2], Param(i, Unspecified))
    IN  Of(IndexOf(env.gs, base, {"type"}))

RECURSIVE LowerConst(_, _)
LowerConst(env, w) ==
    CASE w.w = "num" -> Lit
      [] w.w = "op" -> Op(LowerConst(env, w.pos[1]), LowerConst(env, w.pos[2]))
      [] w.w = "path" -> LowerConstPath(env, w.pos[1].n, w.pos[2].n)
      [] w.w = "type" -> LowerConstName(env, w.n)
      [] w.w \in {"tuple", "none"} -> Deferred

\* `Self @d`: the impl's self type on another domain.
Restamp(ty, d) == IF d = Unspecified \/ ty.t \notin {"value", "port"} THEN ty ELSE [ty EXCEPT !.dom = d]

Sized == {"uint", "sint", "bits"}
Unsized == {"bool", "Reset", "Event", "integer"}

RECURSIVE LowerType(_, _)

\* A generic argument, by what its name means here.
LowerArg(env, w) ==
    LET Named(d, c) == IF d # 0 THEN DomainArg(d) ELSE IF c # 0 THEN ConstParam(c) ELSE LowerType(env, w)
    IN  CASE w.w = "num" -> Lit
          [] IsPlain(w) -> Named(IndexOf(env.gs, w.n, {"clock", "domain"}), IndexOf(env.gs, w.n, {"const"}))
          [] w.w # "num" /\ ~IsPlain(w) -> LowerType(env, w)

LowerArgs(env, ws) == [i \in DOMAIN ws |-> LowerArg(env, ws[i])]

LowerWidth(env, w) == IF w.pos = <<>> THEN Deferred ELSE LowerConst(env, w.pos[1])

LowerVec(env, w, dom) ==
    Vec(LowerWidth(env, w), IF Len(w.pos) < 2 THEN Missing ELSE Stamp(LowerType(env, w.pos[2]), dom))

LowerNamed(env, w, dom) ==
    LET Of(i) == IF i # 0 THEN Param(i, dom)
                 ELSE IF w.n \in DOMAIN Nominal THEN Port(w.n, LowerArgs(env, w.named \o w.pos), dom)
                 ELSE Unresolved
    IN  IF w.n = "Self" /\ env.self # <<>> THEN Restamp(env.self[1], dom)
        ELSE Of(IndexOf(env.gs, w.n, {"type"}))

LowerType(env, w) ==
    CASE IsTuple(w) -> Tuple([i \in DOMAIN w.pos |-> Stamp(LowerType(env, w.pos[i]), LowerDomain(env, w.dom))])
      [] IsVec(w) -> LowerVec(env, w, LowerDomain(env, w.dom))
      [] w.w = "type" /\ w.n \in Sized -> Value(w.n, <<LowerWidth(env, w)>>, LowerDomain(env, w.dom))
      [] w.w = "type" /\ w.n \in Unsized -> Value(w.n, <<>>, LowerDomain(env, w.dom))
      [] w.w = "type" /\ w.n = "Clock" -> Clock
      [] OTHER -> LowerNamed(env, w, LowerDomain(env, w.dom))

-----------------------------------------------------------------------------
(* Bounds.                                                                 *)

\* Variant: the generics before them are forgotten.
BoundedFromFirst(params, from) ==
    LET written == SelectSeq(params, IsGeneric)
        Of(i) == [j \in DOMAIN written[i].bounds |-> <<i, written[i].bounds[j]>>]
    IN  FlattenSeq([i \in DOMAIN written |-> Of(i)])

\* The bounds written on generic parameters, which are gs from `from` on.
Bounded(params, from) ==
    LET written == SelectSeq(params, IsGeneric)
        Of(i) == IF written[i].kind = "type"
                 THEN [j \in DOMAIN written[i].bounds |-> <<from + i, written[i].bounds[j]>>] ELSE <<>>
    IN  FlattenSeq([i \in DOMAIN written |-> Of(i)])

Wheres(gs, where) ==
    LET Of(i) == [j \in DOMAIN where[i].bounds |-> <<IndexOf(gs, where[i].n, {"type"}), where[i].bounds[j]>>]
    IN  FlattenSeq([i \in DOMAIN where |-> Of(i)])

Predicates(bounds) == SelectSeq(bounds, LAMBDA b : b[1] # 0 /\ b[2] \in DOMAIN Traits)

BoundDiags(bounds) ==
    {IF b[1] = 0 THEN "UnknownWhereParam" ELSE "NotATrait" :
        b \in {c \in ToSet(bounds) : c[1] = 0 \/ c[2] \notin DOMAIN Traits}}

-----------------------------------------------------------------------------
(* Impl headers: what the solver matches a self type against.              *)

NotApplied(w) == w.w = "type" /\ w.n \in DOMAIN Nominal /\ Nominal[w.n] > 0 /\ w.pos = <<>>

Header(impl) ==
    LET gs == GenericsOf(impl.binder)
        self == LowerType(Env(gs, <<>>, <<>>, <<>>), impl.self)
        bounds == Bounded(impl.binder, 0)
    IN  [generics |-> gs, self |-> self, preds |-> Predicates(bounds),
         diags |-> (IF HasUnresolved(self) THEN {"UnresolvedType"} ELSE {})
                      \union BoundDiags(bounds)
                      \union (IF NotApplied(impl.self) THEN {"GenericOwnerNotApplied"} ELSE {})]

-----------------------------------------------------------------------------
(* The lowering of a declaration.                                          *)

Empty == [generics |-> <<>>, self |-> <<>>, params |-> <<>>, result |-> <<>>,
          places |-> <<>>, preds |-> <<>>, value |-> <<>>]

Init ==
    /\ decl \in Decls
    /\ phase = "classify"
    /\ sig = Empty
    /\ diags = {}

\* An impl.
LowerHeader ==
    /\ phase = "classify" /\ decl.kind = "impl"
    /\ LET h == Header(TheImpl)
       IN  /\ sig' = [Empty EXCEPT !.generics = h.generics, !.self = <<h.self>>, !.preds = h.preds]
           /\ diags' = h.diags
    /\ phase' = "done"
    /\ UNCHANGED decl

\* An associated constant of a trait or an impl.
LowerAssocConst ==
    /\ phase = "classify" /\ decl.kind = "const"
    /\ LET h == Header(TheImpl)
           Of(env) == [Empty EXCEPT !.generics = h.generics, !.value = <<LowerConst(env, decl.value)>>]
       IN  sig' = IF InImpl THEN Of(Env(h.generics, <<h.self>>, <<>>, h.preds))
                  ELSE [Empty EXCEPT !.generics = <<Generic("Self", "type")>>]
    /\ phase' = "done"
    /\ UNCHANGED <<decl, diags>>

\* A struct or a port; its fields have no domain to be checked.
LowerAdt ==
    /\ phase = "classify" /\ decl.kind = "adt"
    /\ LET gs == GenericsOf(decl.named \o decl.pos)
           fields == [i \in DOMAIN decl.fields |-> LowerType(Env(gs, <<>>, <<>>, <<>>), decl.fields[i])]
       IN  /\ sig' = [Empty EXCEPT !.generics = gs, !.params = fields]
           /\ diags' = IF \E i \in DOMAIN fields : HasUnresolved(fields[i]) THEN {"UnresolvedType"} ELSE {}
    /\ phase' = "done"
    /\ UNCHANGED decl

Leading == IF InTrait THEN <<Generic("Self", "type")>> ELSE IF InImpl THEN GenericsOf(TheImpl.binder) ELSE <<>>

\* Variant: the function's own generics come first.
ClassifiedOwnFirst == GenericsOf(decl.named \o decl.pos) \o Leading

\* Self of a trait, those of the impl, those in braces, those in parentheses.
Classified == Leading \o GenericsOf(decl.named \o decl.pos)

Classify ==
    /\ phase = "classify" /\ decl.kind = "fn"
    /\ sig' = [sig EXCEPT !.generics = Classified]
    /\ phase' = "bounds"
    /\ UNCHANGED <<decl, diags>>

CollectBounds ==
    /\ phase = "bounds"
    /\ LET assumed == IF InTrait THEN <<<<1, decl.trait>>>> ELSE <<>>
           impl == IF InImpl THEN Bounded(TheImpl.binder, 0) ELSE <<>>
           own == Bounded(decl.named \o decl.pos, Len(Leading))
           all == assumed \o impl \o own \o Wheres(sig.generics, decl.where)
       IN  /\ sig' = [sig EXCEPT !.preds = Predicates(all)]
           /\ diags' = BoundDiags(all)
    /\ phase' = "types"
    /\ UNCHANGED decl

\* The receiver is Self on the domain written after it.
Receiver(env, dom) ==
    CASE InTrait -> Param(1, LowerDomain(env, dom))
      [] InImpl -> LET self == env.self[1]
                   IN  IF self.t \in {"value", "port"} THEN [self EXCEPT !.dom = LowerDomain(env, dom)] ELSE self
      [] ~InTrait /\ ~InImpl -> Missing

LowerParam(env, p) == IF p.n = "self" THEN Receiver(env, p.ty.dom) ELSE LowerType(env, p.ty)

\* One result, or the parts of a tuple that have names of their own.
LowerResult(env) ==
    LET parts == [i \in DOMAIN decl.result |-> LowerType(env, decl.result[i].ty)]
    IN  CASE Len(parts) = 0 -> <<>>
          [] Len(parts) = 1 -> parts
          [] Len(parts) > 1 -> <<Tuple(parts)>>

LowerTypes ==
    /\ phase = "types"
    /\ LET self == IF InImpl THEN <<LowerType(Env(sig.generics, <<>>, <<>>, <<>>), TheImpl.self)>> ELSE <<>>
           assoc == CASE InTrait -> <<decl.trait, Param(1, Unspecified)>>
                      [] InImpl /\ TheImpl.trait # "" -> <<TheImpl.trait, self[1]>>
                      [] ~InTrait /\ ~(InImpl /\ TheImpl.trait # "") -> <<>>
           env == Env(sig.generics, self, assoc, sig.preds)
           values == ValuesOf(decl.named \o decl.pos)
           params == [i \in DOMAIN values |-> LowerParam(env, values[i])]
           result == LowerResult(env)
           all == ToSet(self) \union ToSet(params) \union ToSet(result)
       IN  /\ sig' = [sig EXCEPT !.self = self, !.params = params, !.result = result]
           /\ diags' = diags \union (IF \E ty \in all : HasUnresolved(ty) THEN {"UnresolvedType"} ELSE {})
    /\ phase' = "domains"
    /\ UNCHANGED decl

-----------------------------------------------------------------------------
(* Domain modes: a signature that names a domain names them all; any other *)
(* is lifted over one that is not written.                                 *)

RECURSIVE HasAnnotation(_)
HasAnnotation(w) ==
    w.dom # "" \/ \E i \in DOMAIN (w.named \o w.pos) : HasAnnotation((w.named \o w.pos)[i])

WrittenTypes == [i \in DOMAIN (decl.named \o decl.pos) |-> (decl.named \o decl.pos)[i].ty]
                    \o [i \in DOMAIN decl.result |-> decl.result[i].ty]

Explicit ==
    \/ \E i \in DOMAIN sig.generics : sig.generics[i].kind = "clock"
    \/ \E w \in ToSet(WrittenTypes) : HasAnnotation(w)

\* An aggregate is annotated when its elements are.
RECURSIVE TypeHasDomain(_)
TypeHasDomain(w) ==
    \/ w.dom # "" \/ w.named # <<>>
    \/ IsTuple(w) /\ w.pos # <<>> /\ \A i \in DOMAIN w.pos : TypeHasDomain(w.pos[i])
    \/ IsVec(w) /\ Len(w.pos) > 1 /\ TypeHasDomain(w.pos[2])

\* Some element is on another domain than the aggregate it is in.
RECURSIVE DomainConflict(_, _)
DomainConflict(w, inherited) ==
    \/ {inherited, w.dom} \cap {"", "const"} = {} /\ inherited # w.dom
    \/ \E i \in DOMAIN Elements(w) : DomainConflict(Elements(w)[i], IF w.dom # "" THEN w.dom ELSE inherited)

Checked ==
    LET values == ValuesOf(decl.named \o decl.pos)
    IN  {values[i].ty : i \in {j \in DOMAIN values : values[j].n # "self" /\ values[j].ty # NoType}}
            \union {decl.result[i].ty : i \in DOMAIN decl.result}

CheckDomains ==
    /\ phase = "domains" /\ Explicit
    /\ diags' = diags \union {"MissingDomainAnnotation" : w \in {v \in Checked : ~TypeHasDomain(v)}}
                      \union {"ConflictingDomain" : w \in {v \in Checked : DomainConflict(v, "")}}
    /\ phase' = "places"
    /\ UNCHANGED <<decl, sig>>

\* The index the lifted domain gets.
LiftedIndex == Len(sig.generics) + 1

LiftDomains ==
    /\ phase = "domains" /\ ~Explicit
    /\ LET lift == Dom("param", LiftedIndex)
       IN  sig' = [sig EXCEPT !.generics = Append(@, Generic(Lifted, "domain")),
                              !.params = [i \in DOMAIN @ |-> Fill(@[i], lift)],
                              !.result = [i \in DOMAIN @ |-> Fill(@[i], lift)]]
    /\ phase' = "places"
    /\ UNCHANGED <<decl, diags>>

\* What the body drives: `return`, the name of the result, or of its parts.
BuildResultPlaces ==
    /\ phase = "places"
    /\ LET names == [i \in DOMAIN decl.result |-> decl.result[i].n]
           Place(n, ty) == [n |-> n, ty |-> ty]
           places == CASE sig.result = <<>> -> <<>>
                       [] Len(names) = 1 -> <<Place(IF names[1] = "" THEN "return" ELSE names[1], sig.result[1])>>
                       [] Len(names) > 1 -> [i \in DOMAIN names |-> Place(names[i], sig.result[1].parts[i])]
       IN  sig' = [sig EXCEPT !.places = places]
    /\ phase' = "done"
    /\ UNCHANGED <<decl, diags>>

Next ==
    \/ LowerHeader \/ LowerAssocConst \/ LowerAdt
    \/ Classify \/ CollectBounds \/ LowerTypes \/ CheckDomains \/ LiftDomains \/ BuildResultPlaces

Spec == Init /\ [][Next]_vars

-----------------------------------------------------------------------------
(* What a signature promises.                                              *)

Done == phase = "done"

\* Every index in a type.
RECURSIVE Refs(_)
Refs(ty) ==
    (CASE ty.i # 0 -> {<<ty.i, IF ty.t = "const" THEN "const" ELSE "type">>} [] ty.i = 0 -> {})
        \union (IF ty.dom.d = "param" THEN {<<ty.dom.i, "domain">>} ELSE {})
        \union UNION {Refs(ty.parts[j]) : j \in DOMAIN ty.parts}

SortOf(kind) == IF kind = "clock" THEN "domain" ELSE kind

\* A signature is closed: what a type or a bound calls the i-th generic is one
\* of its generics, of that kind, however many come before it from a trait or
\* an impl, and whether or not a domain is lifted after them.
RefsInRange ==
    Done =>
        LET tys == ToSet(sig.params) \union ToSet(sig.result) \union ToSet(sig.self) \union ToSet(sig.value)
            refs == UNION {Refs(ty) : ty \in tys} \union {<<b[1], "type">> : b \in ToSet(sig.preds)}
        IN  \A r \in refs : r[1] \in DOMAIN sig.generics /\ SortOf(sig.generics[r[1]].kind) = r[2]

\* What matching an impl's header binds, by index, is what its methods and
\* constants mean by those indices: the header's generics lead theirs, with
\* the same self type and the same bounds.
HeaderIsPrefix ==
    Done /\ InImpl =>
        LET h == Header(TheImpl)
        IN  /\ IsPrefix(h.generics, sig.generics)
            /\ sig.self # <<>> => sig.self = <<h.self>>
            /\ decl.kind = "fn" => IsPrefix(h.preds, sig.preds) /\ h.diags \ {"GenericOwnerNotApplied"} \subseteq diags

\* Indices agree, inside a signature and with the header of its impl: the two
\* properties above together (fn_sig, impl_header).
IndicesAgree == RefsInRange /\ HeaderIsPrefix

\* Every bound that is written is a bound on the generic it is written for,
\* in the declaration or in the impl around it, and there are no others.
BoundsLand ==
    Done /\ decl.kind = "fn" /\ diags \cap {"NotATrait", "UnknownWhereParam"} = {} =>
        LET OnParams(params) ==
                UNION {{<<p.n, b>> : b \in ToSet(p.bounds)} : p \in {q \in ToSet(params) : q.kind = "type"}}
            written == OnParams(decl.named) \union OnParams(decl.pos)
                           \union (IF InImpl THEN OnParams(TheImpl.binder) ELSE {})
                           \union UNION {{<<c.n, b>> : b \in ToSet(c.bounds)} : c \in ToSet(decl.where)}
                           \union (IF InTrait THEN {<<"Self", decl.trait>>} ELSE {})
        IN  {<<sig.generics[b[1]].n, b[2]>> : b \in ToSet(sig.preds)} = written

\* The domains of a lowered type's leaves, by name.
DomainName(d) == CASE d.d = "unspecified" -> "" [] d.d = "const" -> "const" [] d.d = "param" -> sig.generics[d.i].n

RECURSIVE Slots(_)
Slots(ty) ==
    (IF HasSlot(ty) THEN <<DomainName(ty.dom)>> ELSE <<>>)
        \o (IF ty.t = "const" THEN <<>>
            ELSE FlattenSeq([i \in DOMAIN ty.parts |-> Slots(ty.parts[i])]))

\* And as they are written: a leaf's own, else that of the closest aggregate
\* around it. Of the domain of a port its arguments take nothing.
RECURSIVE Meant(_, _)
Meant(w, outer) ==
    LET own == IF w.dom # "" THEN w.dom ELSE outer
        Args(ws, d) == FlattenSeq([i \in DOMAIN ws |-> Meant(ws[i], d)])
        names == {sig.generics[i].n : i \in {j \in DOMAIN sig.generics : sig.generics[j].kind = "clock"}}
        consts == {sig.generics[i].n : i \in {j \in DOMAIN sig.generics : sig.generics[j].kind = "const"}}
    IN  CASE w.w \in {"num", "op", "path", "none"} -> <<>>
          [] IsTuple(w) \/ IsVec(w) -> Args(Elements(w), own)
          [] IsPlain(w) /\ w.n \in names -> <<w.n>>
          [] IsPlain(w) /\ w.n \in consts \ names -> <<>>
          [] w.w = "type" /\ w.n = "Clock" -> <<>>
          [] w.w = "type" /\ w.n = "Self" /\ InImpl ->
                Meant(IF w.dom = "" THEN TheImpl.self ELSE [TheImpl.self EXCEPT !.dom = w.dom], outer)
          [] OTHER -> <<own>> \o (IF w.n \in DOMAIN Nominal THEN Args(w.named \o w.pos, outer) ELSE <<>>)

\* Domains that exist.
RECURSIVE DomainsOf(_)
DomainsOf(w) == {w.dom} \union UNION {DomainsOf((w.named \o w.pos)[i]) : i \in DOMAIN (w.named \o w.pos)}
KnownDomains(w) == DomainsOf(w) \subseteq {"", "const"} \union
                       {sig.generics[i].n : i \in {j \in DOMAIN sig.generics : sig.generics[j].kind = "clock"}}

\* `@` on the Self of an impl for an aggregate is lost (see the README).
RECURSIVE MovesSelf(_)
MovesSelf(w) ==
    \/ w.w = "type" /\ w.n = "Self" /\ w.dom # ""
    \/ \E i \in DOMAIN (w.named \o w.pos) : MovesSelf((w.named \o w.pos)[i])
SelfIsAggregate == InImpl /\ (IsTuple(TheImpl.self) \/ IsVec(TheImpl.self))

\* The leaf of every parameter and result of a signature that is accepted is
\* on the domain its type says: its own, or that of the aggregate it is in, or
\* the lifted one. In a signature that names domains none is left open.
SlotsFilled ==
    Done /\ decl.kind = "fn" /\ diags = {} =>
        LET values == ValuesOf(decl.named \o decl.pos)
            lifted == \E i \in DOMAIN sig.generics : sig.generics[i].kind = "domain"
            Domain1(n) == IF n = "" /\ lifted THEN Lifted ELSE n
            Fits(w, ty) ==
                KnownDomains(w) /\ (MovesSelf(w) => ~SelfIsAggregate) =>
                    LET meant == Meant(w, "") IN Slots(ty) = [i \in DOMAIN meant |-> Domain1(meant[i])]
            Closed(w, ty) == \A i \in DOMAIN Slots(ty) : Slots(ty)[i] # ""
            Simple(w) == w.named = <<>> /\ w.n \notin DOMAIN Nominal /\ w.n # "Self" /\ ~IsTuple(w) /\ ~IsVec(w)
        IN  /\ \A i \in DOMAIN values : values[i].n # "self" =>
                    /\ Fits(values[i].ty, sig.params[i])
                    /\ KnownDomains(values[i].ty) /\ Simple(values[i].ty) => Closed(values[i].ty, sig.params[i])
            /\ \A i \in DOMAIN sig.places : Fits(decl.result[i].ty, sig.places[i].ty)
=============================================================================
