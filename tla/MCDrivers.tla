----------------------------- MODULE MCDrivers -----------------------------
(***************************************************************************)
(* Bodies with three drives of the local 1, which is of each of some       *)
(* types, in the nestings the walk tells apart.                            *)
(***************************************************************************)
EXTENDS Drivers

(* Local 2 is the variable of a `for`, local 3 is known at run time only.  *)
E(op, val, kids)       == [op |-> op, val |-> val, kids |-> kids, outs |-> {}, blocks |-> <<>>]
Out(op, kids, outs)    == [E(op, 0, kids) EXCEPT !.outs = outs]
In(op, kids, blocks)   == [E(op, 0, kids) EXCEPT !.blocks = blocks]
Num(n) == E("number", n, <<>>)
Loc(l) == E("local", l, <<>>)

(* A place: its steps, a field, an index or first end, a second end.       *)
P(steps, f, from, to) == [steps |-> steps, f |-> f, from |-> from, to |-> to]
Whole       == P("", 0, Num(0), 0)
Fld(f)      == P(".f", f, Num(0), 0)
Ind(k)      == P("[]", 0, Num(k), 0)
Loop        == P("[]", 0, Loc(2), 0)
Dyn         == P("[]", 0, Loc(3), 0)
Slice(a, b) == P("[..]", 0, Num(a), b)
Upto(b)     == P("[..b]", 0, Num(0), b)
Off(a, w)   == P("[..+]", 0, Num(a), w)
DynOff(w)   == P("[..+]", 0, Loc(3), w)
FldInd(f, k) == P(".f[]", f, Num(k), 0)
IndFld(k, f) == P("[].f", f, Num(k), 0)

(* Its five expressions, when the `o` before them are others'. *)
Exprs(p, o) ==
    <<Loc(1), p.from, Num(p.to),
      CASE p.steps \in {".f", ".f[]"} -> E("field", p.f, <<o + 1>>)
        [] p.steps \in {"[]", "[].f"} -> E("index", 0, <<o + 1, o + 2>>)
        [] p.steps = "[..]"  -> E("slice", 0, <<o + 1, o + 2, o + 3>>)
        [] p.steps = "[..b]" -> E("slice", 0, <<o + 1, 0, o + 3>>)
        [] p.steps = "[..+]" -> E("offset", 0, <<o + 1, o + 2, o + 3>>)
        [] OTHER -> Num(0),
      CASE p.steps = ".f[]" -> E("index", 0, <<o + 4, o + 2>>)
        [] p.steps = "[].f" -> E("field", p.f, <<o + 4>>)
        [] OTHER -> Num(0)>>
Id(p, o) == CASE p.steps = "" -> o + 1
              [] p.steps \in {".f[]", "[].f"} -> o + 5
              [] OTHER -> o + 4

St(op, lhs, rhs, block) == [op |-> op, lhs |-> lhs, rhs |-> rhs, block |-> block]
Bl(stmts)     == [stmts |-> stmts, tail |-> 0]
Ends(stmts, e) == [stmts |-> stmts, tail |-> e]

(* Expressions 16 to 21 are values; the nesting adds its own after them.   *)
Nesting(name, a, b, c) ==
    LET eq1 == St("equation", a, 16, 0)
        eq2 == St("equation", b, 17, 0)
        eq3 == St("equation", c, 18, 0) IN
    CASE name = "plain" ->
            [exprs |-> <<>>, stmts |-> <<eq1, eq2, eq3>>, blocks |-> <<Bl(<<1, 2, 3>>)>>]
      [] name = "if" ->
            [exprs |-> <<In("if", <<19>>, <<1, 2>>)>>,
             stmts |-> <<eq1, eq2, eq3, St("expr", 0, 22, 0)>>,
             blocks |-> <<Bl(<<2>>), Bl(<<3>>), Bl(<<1, 4>>)>>]
      [] name = "when" ->
            [exprs |-> <<In("if", <<19>>, <<1, 2>>)>>,
             stmts |-> <<eq1, eq2, eq3, St("expr", 0, 22, 0), St("when", 0, 20, 3)>>,
             blocks |-> <<Bl(<<3>>), Bl(<<>>), Bl(<<2, 4>>), Bl(<<5, 1>>)>>]
      [] name = "outs" ->
            [exprs |-> <<Out("call", <<a, b>>, {1, 2}), Out("record", <<c, 16>>, {1})>>,
             stmts |-> <<St("expr", 0, 22, 0), St("let", 0, 23, 0)>>,
             blocks |-> <<Bl(<<1, 2>>)>>]
      [] name = "hidden" ->
            [exprs |-> <<Out("method", <<16, a>>, {2}), E("other", 0, <<22, 19>>)>>,
             stmts |-> <<St("let", 0, 23, 0), eq2, St("var", 0, 0, 0), eq3>>,
             blocks |-> <<Bl(<<1, 2, 3, 4>>)>>]
      [] name = "for" ->
            [exprs |-> <<In("block", <<>>, <<2>>)>>,
             stmts |-> <<eq1, eq2, eq3, St("for", 0, 19, 1)>>,
             blocks |-> <<Bl(<<1, 2>>), Bl(<<4>>), Ends(<<3>>, 22)>>]
      [] name = "value" ->
            [exprs |-> <<Out("call", <<a>>, {1}), In("when", <<19>>, <<1>>)>>,
             stmts |-> <<eq2, eq3, St("return", 0, 23, 0)>>,
             blocks |-> <<Ends(<<1>>, 22), Bl(<<2, 3>>)>>]
      [] name = "loop in when" ->
            [exprs |-> <<>>,
             stmts |-> <<eq1, eq2, eq3, St("for", 0, 19, 1), St("when", 0, 20, 2)>>,
             blocks |-> <<Bl(<<1>>), Bl(<<4, 2>>), Bl(<<5, 3>>)>>]
      [] name = "when in when" ->
            [exprs |-> <<In("if", <<19>>, <<2, 3>>)>>,
             stmts |-> <<eq1, eq2, eq3, St("when", 0, 20, 1), St("let", 0, 22, 0),
                         St("when", 0, 21, 4)>>,
             blocks |-> <<Bl(<<2>>), Bl(<<4>>), Bl(<<>>), Bl(<<5, 1>>), Bl(<<6, 3>>)>>]
      [] name = "outs in when" ->
            [exprs |-> <<Out("call", <<a>>, {1}), Out("method", <<16, b>>, {2}), In("if", <<19>>, <<1, 2>>)>>,
             stmts |-> <<eq3, St("let", 0, 22, 0), St("expr", 0, 24, 0), St("when", 0, 20, 3)>>,
             blocks |-> <<Bl(<<1>>), Bl(<<>>), Bl(<<2, 3>>), Ends(<<4>>, 23)>>]

Nestings == {"if", "when", "outs", "hidden", "for", "value", "loop in when", "when in when",
             "outs in when"}

(* 1 and 2 are leaves, 3 a pair of them, 4 to 6 vectors of two, 7 a pair   *)
(* of a pair and a vector, 8 a vector of unknown length, 9 an integer.     *)
Ty(kind, of, len) == [kind |-> kind, of |-> of, len |-> len]
TheTypes ==
    <<Ty("bits", <<>>, 1), Ty("bits", <<>>, 4), Ty("struct", <<1, 1>>, 0),
      Ty("vec", <<1>>, 2), Ty("vec", <<3>>, 2), Ty("vec", <<4>>, 2),
      Ty("struct", <<3, 4>>, 0), Ty("part", <<1>>, 2), Ty("integer", <<>>, 0)>>

Local1(kind, mutable, ty) == [kind |-> kind, mutable |-> mutable, ty |-> ty]
MakeBody(nesting, p, q, r, local) ==
    LET n == Nesting(nesting, Id(p, 0), Id(q, 5), Id(r, 10))
    IN  [locals |-> <<local, Local1("for", FALSE, 9), Local1("param", FALSE, 2)>>,
         types |-> TheTypes,
         exprs |-> Exprs(p, 0) \o Exprs(q, 5) \o Exprs(r, 10) \o [i \in 1 .. 6 |-> Num(i)] \o n.exprs,
         stmts |-> n.stmts, blocks |-> n.blocks]

PlacesOf(ty) ==
    CASE ty = 2 -> {Whole, Ind(0), Ind(3), Slice(4, 2), Slice(2, 0), Slice(3, 1), Off(1, 2),
                    DynOff(2), Loop}
      [] ty = 3 -> {Whole, Fld(1), Fld(2)}
      [] ty = 4 -> {Whole, Ind(0), Ind(1), Slice(0, 2), Slice(1, 2), Upto(1), Loop, Dyn}
      [] ty = 5 -> {Ind(0), Ind(1), IndFld(0, 1), IndFld(1, 2)}
      [] ty = 7 -> {Fld(1), Fld(2), FldInd(2, 0), FldInd(2, 1)}
      [] ty = 8 -> {Ind(0), Ind(1), Slice(0, 2)}
      [] ty = 9 -> {Whole}

Vars(ty) == Local1("var", FALSE, ty)
PlainBodies ==
    UNION {{MakeBody("plain", p, q, r, Vars(ty)) : p, q, r \in PlacesOf(ty)} : ty \in {2, 3, 4, 5, 7, 8}}
NestedBodies ==
    UNION {{MakeBody(n, p, q, r, local) : n \in Nestings, p \in {Fld(1), Whole}, q, r \in PlacesOf(3),
            local \in {Vars(3), Local1("out", FALSE, 3)}},
           {MakeBody(n, p, q, Ind(1), Local1("let", TRUE, 4)) : n \in Nestings, p, q \in {Loop, Dyn, Ind(0)}},
           {MakeBody(n, p, q, Slice(0, 2), Vars(4)) : n \in Nestings, p, q \in {Loop, Dyn, Ind(0)}},
           {MakeBody("plain", Whole, Whole, Whole, Local1("out", FALSE, 9))}}
OneEach ==
    {[b EXCEPT !.stmts = <<St("var", 0, 0, 0)>>, !.blocks = <<Bl(<<1>>)>>] :
        b \in {MakeBody("plain", Whole, Whole, Whole, Local1(k, FALSE, ty)) :
                k \in {"var", "out", "let"}, ty \in {3, 9}}}

SomeBodies == PlainBodies \cup NestedBodies \cup OneEach

=============================================================================
