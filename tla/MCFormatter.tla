---------------------------- MODULE MCFormatter -----------------------------
(* Small files of every rule of the grammar that mirin-fmt lays out, with     *)
(* comments and blank lines where the formatter threads them through, at      *)
(* every width at which one of their lists, chains or arms breaks or fits.    *)
EXTENDS Formatter

N(k, f, kids) == [k |-> k, f |-> f, named |-> TRUE, t |-> "", kids |-> kids, gap |-> 1, rows |-> 0,
                  raw |-> <<>>, doc |-> Nil]
L(k, f, t) == [N(k, f, <<>>) EXCEPT !.t = t]
A(f, t) == [L(t, f, t) EXCEPT !.named = FALSE]        \* an anonymous token in a field
K(t) == A("", t)
Id(f, t) == L("identifier", f, t)
Num(f, t) == L("number", f, t)
C(t, gap) == [L("comment", "", t) EXCEPT !.gap = gap]
At(gap, rows, n) == [n EXCEPT !.gap = gap, !.rows = rows]
RawAs(lines, n) == [n EXCEPT !.raw = lines]
In(f, n) == [n EXCEPT !.f = f]
Commas(ns) == [i \in 1..(2 * Len(ns) - 1) |-> IF i % 2 = 1 THEN ns[(i + 1) \div 2] ELSE K(",")]
Listed(k, f, open, ns, close) == N(k, f, <<K(open)>> \o Commas(ns) \o <<K(close)>>)
(* The same with a comma after the last element. *)
WithComma(k, f, open, ns, close) == N(k, f, <<K(open)>> \o Commas(ns) \o <<K(","), K(close)>>)

(* Expressions, each in the `expression` node around it. *)
X(f, n) == N("expression", f, <<n>>)
Path(t) == N("path_expression", "", <<Id("segment", t)>>)
a == Path("a")
b == Path("bcde")
Paths == N("path_expression", "", <<Id("segment", "m"), K("::"), Id("segment", "f")>>)
Bin(l, op, r) == N("binary_expression", "", <<X("left", l), A("operator", op), X("right", r)>>)
Args(ns) == Listed("argument_list", "", "(", ns, ")")
Call(n, ns) == N("postfix_expression", "", <<n, Args(ns)>>)
Dot(t) == N("field_access", "", <<K("."), Id("field", t)>>)
Chain == N("postfix_expression", "", <<a, Args(<<>>),
           N("index_access", "", <<K("["), X("index", a), K("]")>>),
           Dot("reg"), Args(<<X("", b)>>), Dot("w"), Dot("q"),
           Listed("named_argument_list", "", "{",
                  <<N("named_or_shorthand_argument", "", <<Id("name", "n")>>),
                    N("named_or_shorthand_argument", "",
                      <<A("direction", "in"), Id("name", "m"), K("="), X("value", a)>>),
                    N("named_or_shorthand_argument", "",
                      <<A("direction", "out"), Id("name", "o"), K("=>"), Id("target", "p")>>)>>, "}"),
           Args(<<X("", a), N("out_argument", "", <<A("direction", "out"), K("=>"), Id("target", "x")>>)>>)>>)
Index(n) == N("postfix_expression", "", <<a, n>>)
Slices == {Index(N("slice_access", "", <<K("["), X("low", a), K(".."), X("high", b), K("]")>>)),
           Index(N("slice_access", "", <<K("["), K(".."), K("+"), X("width", b), K("]")>>))}
Block(f, kids) == N("block", f, <<K("{")>> \o kids \o <<K("}")>>)
TailOf(n) == X("tail", n)
If(keywords, k, t, e) ==
  N(k, "", keywords \o <<In("condition", b), t, K("else"), e>>)
When(init, body) ==
  N("when_expression", "", init \o <<K("when"), In("event", Call(a, <<>>)), body>>)
TName(f, k, t, more) == N(k, f, <<Id("name", t)>> \o more)
Ty(f, t) == TName(f, "type_expression", t, <<>>)
TArg(n) == N("type_argument", "", <<n>>)
Index1(ns) == Listed("type_index", "", "(", ns, ")")
Uint(f) == TName(f, "return_type_expression", "uint", <<Index1(<<TArg(Num("", "8"))>>)>>)
RecordOf(kids) == N("record_constructor_expression", "", <<Id("constructor", "pt"), kids>>)
FieldValue(t, n) == N("record_field_value", "", <<Id("name", t), K("="), X("value", n)>>)

Exprs ==
  {a, Paths, Num("", "12"), Bin(a, "+", Call(b, <<X("", a)>>)), Chain, Call(Paths, <<>>),
   N("unary_expression", "", <<A("operator", "-"), X("operand", b)>>),
   N("return_expression", "", <<K("return")>>),
   N("parenthesized_expression", "", <<K("("), X("", Call(a, <<X("", b), X("", b)>>)), K(")")>>),
   WithComma("tuple_expression", "", "(", <<X("", a), X("", b)>>, ")"),
   N("vec_literal", "", <<K("["), X("elem", a), K(";"), X("len", b), K("]")>>),
   Listed("vec_literal", "", "[", <<X("", Call(a, <<X("", b)>>)), X("", b)>>, "]"),
   N("typed_literal", "", <<Uint("type"), K("::"), Num("value", "4")>>),
   N("type_path_call", "", <<Uint("type"), K("::"), Id("method", "pk"), In("arguments", Args(<<X("", a)>>))>>),
   RecordOf(In("body", WithComma("record_literal", "", "{",
              <<FieldValue("x", a),
                N("record_field_value", "", <<Id("name", "y"), K("=>"), Id("target", "z")>>)>>, "}"))),
   RecordOf(RawAs(<<[ind |-> 0, ts |-> <<"{", "x", "=", "a", ",", "//c">>], [ind |-> 2, ts |-> <<"}">>]>>,
              N("record_literal", "body", <<K("{"), FieldValue("x", a), K(","), C("//c", 0), K("}")>>))),
   Call(a, <<X("", Call(b, <<X("", a)>>)), X("", Call(b, <<X("", a), X("", b)>>))>>),
   X("", RawAs(<<[ind |-> 0, ts |-> <<"{", "a">>], [ind |-> 3, ts |-> <<"}">>]>>,
               Block("", <<TailOf(a)>>))).kids[1]} \cup Slices

Conditionals ==
  {If(<<K("if")>>, "if_expression", Block("then_branch", <<TailOf(a)>>), Block("else_branch", <<TailOf(b)>>)),
   If(<<K("const"), K("if")>>, "const_if_expression", Block("then_branch", <<TailOf(Chain)>>),
      Block("else_branch", <<C("//c", 1), TailOf(b)>>)),
   If(<<K("if")>>, "if_expression",
      Block("then_branch", <<N("statement", "", <<N("assignment_statement", "",
               <<X("left", a), K("="), X("right", b), K(";")>>)>>), C("//d", 0), At(3, 0, TailOf(a))>>),
      Block("else_branch", <<TailOf(b)>>)),
   When(<<K("init"), In("init", b)>>, Block("body", <<TailOf(a)>>)),
   When(<<>>, Block("body", <<C("//c", 2), At(1, 1, TailOf(Bin(a, "+", Chain)))>>))}

(* Statements. *)
S(n) == N("statement", "", <<n>>)
Let(pattern, more) == S(N("let_statement", "", <<K("let"), In("pattern", pattern)>> \o more \o <<K(";")>>))
Value(n) == <<K("="), X("value", n)>>
TPattern == Listed("tuple_pattern", "", "(",
              <<Id("", "x"),
                N("struct_pattern", "", <<Id("constructor", "pt"), K("{"),
                  N("struct_pattern_field", "", <<Id("name", "p"), K("="), Id("binding", "q")>>), K(","),
                  N("struct_pattern_field", "", <<Id("name", "r"), K("="),
                    Listed("tuple_pattern", "binding", "(", <<Id("", "s"), Id("", "t")>>, ")")>>),
                  K(","), K("}")>>)>>, ")")
Types ==
  {Ty("type", "A"),
   TName("type", "type_expression", "Vec",
     <<Listed("type_named_args", "", "{", <<TArg(Ty("", "c"))>>, "}"),
       Index1(<<TArg(N("const_expression", "", <<N("const_binary", "",
                 <<N("const_paren", "left", <<K("("), N("const_field", "",
                      <<Id("base", "m"), K("."), Id("field", "w"), K("."), Id("field", "v")>>), K(")")>>),
                   A("operator", "*"),
                   N("const_path", "right", <<Id("base", "T"), K("::"), Id("item", "w")>>)>>)>>))>>),
       K("@"), Id("domain", "clk")>>),
   N("tuple_type", "type", Listed("", "", "(", <<Ty("", "A"), Ty("", "Bcd")>>, ")").kids
                           \o <<K("@"), Id("domain", "clk")>>)}
Statements ==
  {Let(Id("", "x"), <<>>), Let(TPattern, Value(Call(a, <<X("", b)>>))),
   S(N("let_statement", "", <<K("let"), A("modifier", "mut"), Id("pattern", "x"), K(":"), Uint("type"),
                              K("="), X("value", a), K(";")>>)),
   S(N("var_statement", "", <<K("var"), Id("name", "x"), K(","), Id("name", "y"), K(":"), Uint("type"), K(";")>>)),
   S(N("return_statement", "", <<K("return"), X("value", b), K(";")>>)),
   S(N("assignment_statement", "", <<X("left", a), K("="), X("right", Chain), K(";")>>)),
   S(N("expression_statement", "", <<X("", Call(a, <<X("", b), X("", a)>>)), K(";")>>)),
   S(N("for_statement", "", <<K("for"), In("pattern", TPattern), K("in"), In("iter", a),
        Block("body", <<At(1, 0, S(N("return_statement", "", <<K("return"), X("value", b), K(";")>>)))>>)>>)),
   S(RawAs(<<[ind |-> 0, ts |-> <<"if", "a", "{">>], [ind |-> 1, ts |-> <<"}">>]>>,
           N("if_statement", "", <<K("if"), In("condition", a), Block("then_branch", <<>>)>>))).kids[1]}
  \cup {Let(Id("", "x"), <<K(":"), t>> \o Value(a)) : t \in Types}
  \cup {Let(Id("", "xy"), Value(e)) : e \in Exprs \cup Conditionals}

(* Functions. *)
Param(t, more) == N("parameter", "", <<Id("name", t)>> \o more)
Params(ns) == Listed("parameter_section", "parameters", "(", ns, ")")
AB == Params(<<Param("a", <<K(":"), Ty("type", "A")>>),
               N("parameter", "", <<A("direction", "out"), Id("name", "b"), K(":"), Uint("type"),
                                    K("="), X("default", a)>>)>>)
FN(before, named, params, ret, body) ==
  N("function_definition", "", before \o <<K("fn"), Id("name", "f")>> \o named \o <<params>> \o ret \o <<body>>)
Body(kids) == Block("body", kids)
Plain(kids) == FN(<<>>, <<>>, Params(<<>>), <<>>, Body(kids))
Vis(kids) == N("visibility_modifier", "visibility", <<K("pub")>> \o kids)
UsePathOf(ids) == N("use_path", "", IF Len(ids) = 1 THEN <<Id("", ids[1])>>
                                    ELSE <<Id("", ids[1]), K("::"), Id("", ids[2])>>)
Visibilities == {Vis(<<>>), Vis(<<K("("), K("crate"), K(")")>>), Vis(<<K("("), K("super"), K(")")>>),
                 Vis(<<K("("), K("in"), UsePathOf(<<"m", "n">>), K(")")>>)}
Bound(t, more) == N("trait_bound", "bound", <<Id("name", t)>> \o more)
Where == N("where_clause", "where",
           <<K("where"), N("where_predicate", "", <<Id("name", "A"), K(":"), Bound("Add", <<>>), K("+"),
                           Bound("Bits", <<Index1(<<TArg(Num("", "8"))>>)>>)>>), K(","),
             N("where_predicate", "", <<Id("name", "B"), K(":"), Bound("Eq", <<>>)>>)>>)
NamedParams == Listed("named_parameter_section", "named_parameters", "{",
                 <<N("named_parameter", "", <<A("kind", "dom"), Id("name", "clk"), K(":"), Ty("type", "Clock")>>),
                   N("named_parameter", "", <<A("kind", "type"), Id("name", "A"), K(":"), Ty("type", "Type"), K("+"),
                                              Bound("Add", <<>>)>>)>>, "}")
Attrs == <<N("attribute", "attribute", <<K("#"), K("["), Id("name", "inline"), K("]")>>),
           N("attribute", "attribute", <<K("#"), K("["), Id("name", "derive"),
             Listed("attribute_arguments", "arguments", "(", <<Id("", "P"), Id("", "Q")>>, ")"), K("]")>>)>>
Returns == {<<K("->"), Uint("return_type")>>,
            <<K("->"), N("parenthesized_return_type", "return_type", <<K("("), Ty("type", "A"), K(")")>>)>>,
            <<K("->"), WithComma("named_return", "return_type", "(",
                <<N("named_result", "", <<Id("name", "s"), K(":"), Uint("type")>>),
                  N("named_result", "", <<Id("name", "c"), K(":"), Ty("type", "bool")>>)>>, ")"), Where>>}
SelfParam == N("parameter", "", <<A("name", "self"), K("@"), Id("domain", "clk")>>)
Functions ==
  {Plain(<<s>>) : s \in Statements} \cup {Plain(<<TailOf(e)>>) : e \in Exprs \cup Conditionals}
  \cup {FN(<<v>>, <<>>, AB, <<>>, Body(<<>>)) : v \in Visibilities}
  \cup {FN(Attrs, <<NamedParams>>, AB, r, Body(<<TailOf(a)>>)) : r \in Returns}
  \cup {FN(<<>>, <<>>, AB, r, Body(<<TailOf(a)>>)) : r \in Returns}
  \cup {RawAs(<<[ind |-> 0, ts |-> <<"fn", "f", "(", ")", "=", "verilog">>], [ind |-> 2, ts |-> <<"{", "y", "}">>]>>,
              N("function_definition", "", <<K("fn"), Id("name", "f"), Params(<<>>), K("="), K("verilog"),
                 N("verilog_block", "verilog_body", <<K("{"), L("verilog_content", "content", "y"), K("}")>>)>>)),
        FN(<<>>, <<>>, RawAs(<<[ind |-> 0, ts |-> <<"(", "a", ":", "A", ",", "//c">>], [ind |-> 5, ts |-> <<")">>]>>,
             N("parameter_section", "parameters", <<K("("), Param("a", <<K(":"), Ty("type", "A")>>), K(","),
               C("//c", 0), K(")")>>)), <<>>, Body(<<TailOf(a)>>)),
        Plain(<<C("//c", 1), At(1, 1, Let(Id("", "x"), Value(Call(a, <<X("", b)>>)))), C("//d", 0), C("//e", 1),
                At(4, 0, Let(Id("", "y"), Value(Chain))), At(1, 2, TailOf(b)), C("//f", 2)>>)}

(* Other items. *)
Def(k, keyword, named, body) ==
  N(k, "", <<K(keyword), Id("name", "S")>> \o named \o <<K("="), Id("constructor", "mk"), body>>)
FieldOf(t) == N("record_field_type", "", <<Id("name", t), K(":"), Uint("type")>>)
PortField(d, t) == N("port_field", "", <<A("direction", d), Id("name", t), K(":"), Uint("type")>>)
UseTree1(kids) == N("use_tree", "", kids)
Use(kids) == N("use_declaration", "", <<K("use"), In("tree", UseTree1(kids)), K(";")>>)
Items ==
  {Def("struct_definition", "struct", <<>>,
       N("record_type_body", "body", <<K("{"), C("//c", 1), FieldOf("p"), K(","), C("//d", 0), C("//e", 2),
                                       At(3, 0, FieldOf("q")), K("}")>>)),
   Def("struct_definition", "struct", <<NamedParams, Params(<<Param("N", <<>>)>>)>>,
       WithComma("record_type_body", "body", "{", <<FieldOf("p")>>, "}")),
   Def("struct_definition", "struct", <<Params(<<Param("N", <<>>)>>)>>,
       N("record_type_body", "body", <<K("{"), K("}")>>)),
   Def("port_definition", "port", <<NamedParams>>,
       WithComma("port_body", "body", "{", <<PortField("in", "p"), PortField("out", "q")>>, "}")),
   Def("port_definition", "port", <<>>,
       RawAs(<<[ind |-> 0, ts |-> <<"{", "//c">>], [ind |-> 2, ts |-> <<"}">>]>>,
             N("port_body", "body", <<K("{"), C("//c", 0), K("}")>>))),
   N("trait_definition", "", <<Vis(<<>>), K("trait"), Id("name", "Tr"),
     N("trait_body", "body", <<K("{"),
       N("trait_method", "", <<K("fn"), Id("name", "m"), Params(<<SelfParam>>), K("->"), Uint("return_type"), K(";")>>),
       At(2, 0, N("trait_method", "", <<K("fn"), Id("name", "n"), NamedParams, AB, K(";")>>)),
       N("trait_const", "", <<K("const"), Id("name", "w"), K(":"), Ty("type", "integer"), K(";")>>), K("}")>>)>>),
   N("impl_block", "", Attrs \o <<K("impl"), NamedParams, Uint("name"), K("for"), Uint("self_type"), Where,
     N("impl_body", "body", <<K("{"), Plain(<<TailOf(a)>>),
       N("impl_const", "", <<K("const"), Id("name", "w"), K(":"), Ty("type", "integer"), K("="), X("value", a),
                             K(";")>>), K("}")>>)>>),
   N("impl_block", "", <<K("impl"), Uint("name"), N("impl_body", "body", <<K("{"), K("}")>>)>>),
   N("module_definition", "", <<K("mod"), Id("name", "m"), K(";")>>),
   N("module_definition", "", <<Vis(<<>>), K("mod"), Id("name", "m"),
     N("module_body", "body", <<K("{"), C("//c", 1), Plain(<<TailOf(a)>>), At(2, 0, Plain(<<>>)), K("}")>>)>>),
   Use(<<UsePathOf(<<"m", "n">>), K("as"), Id("alias", "o")>>), Use(<<A("glob", "*")>>),
   Use(<<UsePathOf(<<"m">>), K("::"), A("glob", "*")>>), Use(<<UsePathOf(<<"m">>)>>),
   Use(<<UsePathOf(<<"m">>), K("::"),
         WithComma("use_group", "group", "{", <<UseTree1(<<UsePathOf(<<"p", "q">>)>>),
                 UseTree1(<<Listed("use_group", "group", "{", <<UseTree1(<<UsePathOf(<<"r">>)>>),
                                                               UseTree1(<<UsePathOf(<<"s">>)>>)>>, "}")>>)>>, "}")>>)}

File(ns) == N("source_file", "", ns)
ErrorFile == N("ERROR", "", <<K("fn")>>)
Alone == {<<File(<<n>>)>> : n \in Functions \cup Items}
Together == {<<File(<<Plain(<<TailOf(a)>>), C("//c", g), At(h, 2, Plain(<<TailOf(Chain)>>)), C("//d", 0)>>)>> :
               g \in 0..2, h \in {1, 3}}
Several == {<<ErrorFile, File(<<Use(<<A("glob", "*")>>)>>), File(<<>>)>>}
AllInputs == Alone \cup Together \cup Several

(* An element of a field: `a.w[a]`. *)
ElementOfField ==
  {<<File(<<Plain(<<TailOf(N("postfix_expression", "",
       <<a, Dot("w"), N("index_access", "", <<K("["), X("index", b), K("]")>>)>>))>>)>>)>>}
=============================================================================
