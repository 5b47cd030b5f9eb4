----------------------------- MODULE MCEmission -----------------------------
(* Crates of nine defs for Emission: every choice of bodies from a menu.   *)
EXTENDS Emission, TLC

MCScalarHeads == {"uint8", "bool", "Bus"}

Plain(d, arg) == [callee |-> d, plain |-> TRUE, args |-> <<arg>>,
                  recorded |-> <<arg.type>>, value |-> FALSE]
AtArg(d, arg, t) == [Plain(d, arg) EXCEPT !.recorded = <<t>>]
Method(d, arg) == [Plain(d, arg) EXCEPT !.plain = FALSE]
InValue(c) == [c EXCEPT !.value = TRUE]
Local(t) == [local |-> TRUE, type |-> t]
Field(t) == [local |-> FALSE, type |-> t]

A == <<"A">>  U8 == <<"uint8">>  BusU8 == <<"Bus", "uint8">>  BusBool == <<"Bus", "bool">>
BusA == <<"Bus", "A">>

Base == [name |-> "", owner |-> <<>>, generics |-> 0, params |-> <<U8>>, result |-> Unbound,
         inline |-> FALSE, form |-> "mirin", constOnly |-> FALSE, prelude |-> FALSE,
         decl |-> FALSE, calls |-> <<>>]

\* 1 top, 2 id, 3 via, 4 mix, 5 inl, 6 add, 7 pack, 8 and 9 its impls.
Crate(top, id, via, mix, inl, pack) ==
    [defs |-> <<
        [Base EXCEPT !.name = "top", !.calls = top],
        [Base EXCEPT !.name = "id", !.generics = 1, !.params = <<A>>, !.result = A, !.calls = id],
        [Base EXCEPT !.name = "via", !.generics = 1, !.params = <<BusA>>, !.calls = via],
        [Base EXCEPT !.name = "mix", !.generics = 1, !.params = <<A>>, !.inline = TRUE, !.calls = mix],
        [Base EXCEPT !.name = "inl", !.inline = TRUE, !.calls = inl],
        [Base EXCEPT !.name = "add", !.owner = <<"uint", "Add">>, !.prelude = TRUE, !.form = "expr"],
        [Base EXCEPT !.name = "pack", !.owner = <<"Pack">>, !.generics = 1, !.params = <<A>>, !.decl = TRUE],
        [Base EXCEPT !.name = "pack", !.owner = <<"uint", "Pack">>],
        [Base EXCEPT !.name = "pack", !.owner = <<"Bus", "Pack">>, !.generics = 1, !.params = <<BusA>>,
                     !.calls = pack]>>,
     impls |-> <<[decl |-> 7, header |-> U8, binders |-> 0, method |-> 8],
                 [decl |-> 7, header |-> BusA, binders |-> 1, method |-> 9]>>,
     bad |-> {}, reserved |-> {}]

TopMenu == {<<Plain(2, Local(U8)), Plain(3, Local(BusU8))>>,
            <<Plain(4, Local(BusU8)), Method(7, Local(BusU8))>>,
            <<AtArg(3, Local(BusU8), U8), Plain(5, Local(U8)), Plain(4, Local(U8))>>}
IdMenu == {<<>>, <<Plain(2, Local(A))>>, <<Method(7, Local(A))>>}
ViaMenu == {<<>>, <<Plain(2, Local(A))>>, <<Plain(4, Local(A)), Method(7, Local(BusA))>>}
MixMenu == {<<>>, <<Plain(2, Local(A)), Plain(5, Local(U8))>>, <<Plain(4, Local(A))>>}
InlMenu == {<<>>, <<Plain(6, Local(U8))>>, <<Plain(4, Local(U8))>>, <<Plain(8, Local(U8)), Plain(5, Local(U8))>>}
PackMenu == {<<>>, <<Method(7, Local(A))>>}

Graphs == {Crate(t, i, v, m, l, p) : t \in TopMenu, i \in IdMenu, v \in ViaMenu,
                                     m \in MixMenu, l \in InlMenu, p \in PackMenu}

One == Crate(<<Plain(2, Local(U8))>>, <<>>, <<>>, <<>>, <<>>, <<>>)

\* A generic call whose result is used in place, inside of a generic def.
InPlace == Crate(<<Plain(2, Local(U8))>>, <<InValue(Plain(2, Local(A)))>>, <<>>, <<>>, <<>>, <<>>)

\* An inline method that dispatches to itself, which inline_check does not follow.
Dispatching ==
    [One EXCEPT !.defs[1].calls = <<Method(7, Local(U8))>>,
                !.defs[8].inline = TRUE, !.defs[8].calls = <<Method(7, Local(U8))>>]

\* Two ports of one kind, and a field of a generic def's parameter.
TwoBusses == {Crate(<<Plain(2, Local(BusU8)), Plain(2, Local(BusBool))>>, <<>>, v, <<>>, <<>>, <<>>) : v \in ViaMenu}
FieldPassed == {Crate(<<AtArg(3, Local(BusU8), U8)>>, i, <<Plain(2, Field(A))>>, <<>>, <<>>, <<>>) : i \in IdMenu}

\* A generic in nothing but the result: bound by its caller's types, or left open.
OfResult == {[Crate(t, <<>>, <<AtArg(2, Local(U8), A)>>, <<>>, <<>>, <<>>) EXCEPT !.defs[2].params = <<U8>>] :
                t \in {<<AtArg(2, Local(U8), U8)>>, <<Plain(3, Local(BusU8))>>}}

MCCrates ==
    Graphs \union TwoBusses \union FieldPassed \union OfResult \union {InPlace, Dispatching}
        \union {[One EXCEPT !.bad = {b}] : b \in Checks}
        \union {[One EXCEPT !.reserved = {"top"}]}

=============================================================================
