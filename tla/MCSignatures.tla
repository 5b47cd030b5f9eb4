---------------------------- MODULE MCSignatures ----------------------------
(***************************************************************************)
(* Declarations for Signatures: a struct S, a port DF{dom c}(type T), and  *)
(* traits Num (with a constant w) and Add.                                 *)
(***************************************************************************)
EXTENDS Signatures

NominalMC == [S |-> 0, DF |-> 1]
TraitsMC == [Num |-> {"w"}, Add |-> {}]

-----------------------------------------------------------------------------
(* Types.                                                                  *)

Name(n) == Written("type", n, "", <<>>, <<>>)
Num8 == Written("num", "", "", <<>>, <<>>)
NumOp(a, b) == Written("op", "", "", <<>>, <<a, b>>)
PathOf(a, b) == Written("path", "", "", <<>>, <<Name(a), Name(b)>>)
On(w, d) == [w EXCEPT !.dom = d]

Uint(w) == Written("type", "uint", "", <<>>, <<w>>)
VecOf(len, elem) == Written("type", "Vec", "", <<>>, <<len, elem>>)
PairOf(a, b) == Written("tuple", "", "", <<>>, <<a, b>>)
Flow(named, elem) == Written("type", "DF", "", named, <<elem>>)

Lengths == {Num8, Name("N"), Name("w"), PathOf("A", "w"), NumOp(Name("N"), PathOf("B", "w"))}

Scalars == {Uint(Num8), Name("bool"), Name("S"), Name("A"), Name("Self")}
Marks == {"", "clk", "d", "const"}
Leaves == {On(t, d) : t \in Scalars \ {Name("bool")}, d \in {"", "clk", "d"}}
            \union {On(Uint(Num8), "const"), On(Name("bool"), "typo"), Name("Clock")}

SmallLeaves == {On(Uint(Num8), d) : d \in Marks} \union {On(Name("A"), "clk"), On(Name("Self"), "clk"), Name("Self")}

Aggregates ==
    {On(VecOf(Num8, t), d) : t \in SmallLeaves, d \in Marks}
        \union {On(PairOf(t, u), d) : t \in SmallLeaves, u \in {Uint(Num8), On(Uint(Num8), "d")}, d \in Marks}
        \union {On(Flow(n, t), d) : n \in {<<>>, <<Name("clk")>>},
                                    t \in {Uint(Num8), On(Uint(Num8), "clk"), Name("A"), Name("Self")}, d \in {"", "clk"}}

Nested ==
    {On(VecOf(Num8, On(PairOf(t, Uint(Num8)), d)), e) : t \in {Uint(Num8), On(Uint(Num8), "d")}, d \in Marks, e \in Marks}
        \union {On(PairOf(On(VecOf(Num8, Uint(Num8)), d), On(Name("S"), "clk")), e) : d \in Marks, e \in Marks}
        \union {VecOf(Name("N"), Flow(<<Name("clk")>>, Uint(Num8))), Flow(<<Name("d")>>, VecOf(Num8, Uint(Num8))),
                Flow(<<Name("clk")>>, Name("N")), Written("type", "Vec", "", <<>>, <<Num8>>),
                Flow(<<Uint(Num8)>>, PairOf(Name("Clock"), Name("Typo")))}

WidthTypes == {Uint(l) : l \in Lengths} \union {VecOf(l, Uint(l)) : l \in Lengths}
                \union {Written("type", "uint", "", <<>>, <<>>)}

-----------------------------------------------------------------------------
(* Parameters and declarations.                                            *)

P(n, kind, ty, bounds) == [n |-> n, kind |-> kind, ty |-> ty, bounds |-> bounds]
V(n, ty) == P(n, "", ty, <<>>)
SelfOn(d) == P("self", "", On(NoType, d), <<>>)
DomP(n) == P(n, "dom", NoType, <<>>)
TypeP(n, bounds) == P(n, "type", NoType, bounds)
ConstP(n) == P(n, "const", Name("integer"), <<>>)

Decl(kind, trait, impl, named, pos, where, result) ==
    [kind |-> kind, trait |-> trait, impl |-> impl, named |-> named, pos |-> pos, where |-> where,
     result |-> result, fields |-> <<>>, value |-> Num8]

Impl(binder, trait, self) == <<[binder |-> binder, trait |-> trait, self |-> self]>>

Binder == <<DomP("clk"), TypeP("A", <<"Num">>)>>

ImplsMC ==
    {Impl(Binder, trait, self) :
        trait \in {"", "Num"},
        self \in {Name("S"), Name("A"), Uint(Num8), VecOf(Num8, Name("A")), PairOf(Name("A"), Uint(Num8)),
                  Flow(<<Name("clk")>>, Name("A")), Name("DF"), Name("Typo"), On(Name("S"), "clk")}}
        \union {Impl(<<>>, "", Name("S")), Impl(<<TypeP("A", <<"Nope">>), ConstP("N")>>, "", VecOf(Name("N"), Name("A")))}

Results ==
    {<<>>} \union {<<[n |-> n, ty |-> t]>> : n \in {"", "out"}, t \in {Uint(Num8), On(Uint(Num8), "clk")}}
        \union {<<[n |-> "sum", ty |-> On(Uint(Num8), "clk")], [n |-> "carry", ty |-> On(Name("bool"), d)]>> : d \in {"", "d"}}

Where(n, bounds) == [n |-> n, bounds |-> bounds]

Named == {<<>>, <<DomP("clk"), DomP("d")>>, <<DomP("clk"), ConstP("N"), TypeP("A", <<"Num", "Add">>)>>}

\* Every type, in a function of its own.
PlainFns ==
    {Decl("fn", "", <<>>, named, <<V("x", t)>>, <<>>, result) :
        named \in Named, t \in Leaves \union Aggregates \union Nested \union WidthTypes,
        result \in {<<>>, <<[n |-> "", ty |-> On(Uint(Num8), "clk")]>>}}
    \union {Decl("fn", "", <<>>, named, <<>>, <<>>, <<[n |-> "", ty |-> t]>>) : named \in Named, t \in Aggregates \union Nested}
    \union {Decl("fn", "", <<>>, named, <<V("x", Uint(Num8))>>, <<>>, r) : named \in Named, r \in Results}

\* Generics in both sections, with bounds and where clauses.
GenericFns ==
    {Decl("fn", trait, impl, named, <<TypeP("B", bounds), ConstP("N"), V("x", t)>>, where, <<>>) :
        trait \in {"", "Num"}, impl \in {<<>>},
        named \in {<<>>, <<TypeP("A", <<"Add">>), DomP("clk")>>},
        bounds \in {<<>>, <<"Num">>, <<"Add", "Num">>, <<"Nope">>},
        t \in WidthTypes \union {Name("B"), On(Name("B"), "clk")},
        where \in {<<>>, <<Where("B", <<"Num">>)>>, <<Where("A", <<"Num">>), Where("B", <<"Add">>)>>,
                   <<Where("Self", <<"Add">>)>>}}

\* A generic of a method with the name of one around it.
Shadowing ==
    {Decl("fn", trait, impl, <<>>, <<TypeP(n, <<"Num">>), V("x", Name("A"))>>, <<Where(n, <<"Add">>)>>, <<>>) :
        trait \in {""}, impl \in ImplsMC, n \in {"A", "B"}}
    \union {Decl("fn", "Num", <<>>, <<>>, <<TypeP("Self", <<"Add">>), V("x", Name("Self"))>>, <<>>, <<>>)}

Methods ==
    {Decl("fn", "Num", <<>>, named, <<SelfOn(d), V("x", t)>>, <<>>, <<[n |-> "", ty |-> On(Name("Self"), d)]>>) :
        named \in {<<>>, <<DomP("clk")>>}, d \in {"", "clk"}, t \in {On(Name("Self"), "clk"), Name("Self"), Uint(Name("w"))}}
    \union
    {Decl("fn", "", impl, named, <<SelfOn(d), V("x", t)>>, <<>>, <<[n |-> "", ty |-> r]>>) :
        impl \in ImplsMC, named \in {<<>>, <<DomP("e"), TypeP("B", <<"Add">>)>>}, d \in {"", "clk"},
        t \in {On(Name("Self"), "clk"), Name("Self"), Uint(Name("w")), Uint(PathOf("A", "w")),
               VecOf(Num8, On(Name("Self"), "clk"))},
        r \in {On(Name("Self"), "clk"), Uint(Num8)}}

Values == {Num8, Name("w"), PathOf("A", "w"), NumOp(Name("N"), Num8), Name("N"), PairOf(Num8, Num8)}

OtherDecls ==
    {Decl("impl", "", impl, <<>>, <<>>, <<>>, <<>>) : impl \in ImplsMC}
        \union {[Decl("const", "", impl, <<>>, <<>>, <<>>, <<>>) EXCEPT !.value = v] : impl \in ImplsMC, v \in Values}
        \union {Decl("const", "Num", <<>>, <<>>, <<>>, <<>>, <<>>)}
        \union {[Decl("adt", "", <<>>, <<DomP("clk")>>, <<TypeP("A", <<>>), ConstP("N")>>, <<>>, <<>>) EXCEPT !.fields = <<t, u>>] :
                    t \in Leaves \union WidthTypes, u \in {Uint(Num8), Flow(<<Name("clk")>>, Name("A"))}}

DeclsMC == PlainFns \union GenericFns \union Shadowing \union Methods \union OtherDecls
=============================================================================
