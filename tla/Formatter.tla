----------------------------- MODULE Formatter ------------------------------
(***************************************************************************)
(* mirin-fmt: format.rs turns a syntax tree into a document, one operator   *)
(* per grammar rule, and main.rs formats the files it is given, in place or *)
(* with --check.                                                           *)
(*                                                                         *)
(* A node: its kind `k`, the field `f` it fills in its parent, whether it   *)
(* is named, its text `t` (a leaf's), its children, anonymous tokens        *)
(* included; `gap`, the rows from the end of the named sibling before it to *)
(* its start, and `rows`, the rows it spans beyond its first; `raw`, its    *)
(* text line by line where a verbatim node is laid out on several; and      *)
(* `doc`, its document, filled in from the leaves up.                       *)
(***************************************************************************)
EXTENDS Layout

CONSTANTS Inputs,          \* the files of a run: sequences of syntax trees
          Widths,          \* the widths to format at (main.rs uses MAX_WIDTH)
          SingleLineIfMax  \* SINGLE_LINE_IF_MAX

Named(n) == SelectSeq(n.kids, LAMBDA c : c.named)
Fields(n, f) == SelectSeq(n.kids, LAMBDA c : c.f = f)
Has(n, f) == Fields(n, f) # <<>>
ChildrenOfKinds(n, ks) == SelectSeq(Named(n), LAMBDA c : c.k \in ks)
HasChildKind(n, k) == \E i \in DOMAIN n.kids : n.kids[i].k = k
Docs(ns) == [i \in DOMAIN ns |-> ns[i].doc]
(* The document of the child that fills field `f`, which is there. *)
Of(n, f) == Fields(n, f)[1].doc
(* `before`, then that child; nothing when the field is empty. *)
Opt(n, f, before) == IF Has(n, f) THEN Concat(before \o <<Of(n, f)>>) ELSE Nil

RECURSIVE Leaves(_)
Leaves(n) == IF n.kids = <<>> THEN (IF n.t = "" THEN <<>> ELSE <<n.t>>)
             ELSE FlattenSeq([i \in DOMAIN n.kids |-> Leaves(n.kids[i])])

Verbatim(n) == Raw(IF n.raw = <<>> THEN <<[ind |-> 0, ts |-> Leaves(n)]>> ELSE n.raw)

Joined(ds, sep) ==
  Concat([i \in 1..(2 * Len(ds) - 1) |-> IF i % 2 = 1 THEN ds[(i + 1) \div 2] ELSE sep])
Spaced(ds) == Joined(SelectSeq(ds, LAMBDA d : d.k # "nil"), Space)
CommaSpace == Concat(<<Text(","), Space>>)
Enclosed(open, ds, close) == Concat(<<Text(open)>> \o ds \o <<Text(close)>>)
(* `: T` and ` = v` and ` @clk`, where they are written. *)
Typed(n) == Opt(n, "type", <<Text(":"), Space>>)
Valued(n, f) == Opt(n, f, <<Space, Text("="), Space>>)
Domained(n) == Opt(n, "domain", <<Space, Text("@")>>)

----------------------------------------------------------------------------
(* Lists: on one line when it fits, else an element per line and a comma    *)
(* after the last.  A list with a comment in it is left as it stands.       *)
DelimitedItems(open, close, ds, pad) ==
  LET edge == IF pad THEN Line ELSE SoftLine
  IN IF ds = <<>> THEN Enclosed(open, <<>>, close)
     ELSE Group(Enclosed(open,
            <<Indent(Concat(<<edge, Joined(ds, Concat(<<Text(","), Line>>))>>)),
              IfBreak(Text(","), Nil), edge>>, close))

(* The grammar has no comma after the last type argument: a mark tells where *)
(* one was printed.                                                         *)
StrayComma == Mark(<<>>, TRUE)
Elements(n, kinds) ==
  LET ds == Docs(ChildrenOfKinds(n, kinds))
  IN IF n.k \in {"type_index", "type_named_args"} /\ ds # <<>>
     THEN [ds EXCEPT ![Len(ds)] = Concat(<<@, IfBreak(StrayComma, Nil)>>)] ELSE ds

(* A variant: a list is laid out anew whatever is in it. *)
DelimitedBare(n, open, close, kinds, pad) ==
  DelimitedItems(open, close, Elements(n, kinds), pad)

Delimited(n, open, close, kinds, pad) ==
  IF HasChildKind(n, "comment") THEN Verbatim(n)
  ELSE DelimitedItems(open, close, Elements(n, kinds), pad)

(* The lists of the grammar that are laid out wherever they stand. *)
List(n) ==
  CASE n.k = "named_parameter_section" -> Delimited(n, "{", "}", {"named_parameter"}, FALSE)
    [] n.k = "parameter_section" -> Delimited(n, "(", ")", {"parameter"}, FALSE)
    [] n.k = "use_group" -> Delimited(n, "{", "}", {"use_tree"}, FALSE)
    [] n.k = "named_argument_list" ->
         Delimited(n, "{", "}", {"named_or_shorthand_argument"}, TRUE)
    [] n.k = "record_literal" -> Delimited(n, "{", "}", {"record_field_value"}, TRUE)
    [] n.k = "type_named_args" -> Delimited(n, "{", "}", {"type_argument"}, FALSE)
    [] n.k = "type_index" -> Delimited(n, "(", ")", {"type_argument"}, FALSE)
    [] n.k = "argument_list" -> Delimited(n, "(", ")", {"expression", "out_argument"}, FALSE)
    [] n.k = "tuple_expression" -> Delimited(n, "(", ")", {"expression"}, FALSE)
    [] n.k = "tuple_pattern" ->
         Delimited(n, "(", ")", {"identifier", "tuple_pattern", "struct_pattern"}, FALSE)

(* A comment in a tuple type leaves it whole as it stands, domain included;  *)
(* named results are laid out whatever is among them.                       *)
TupleType(n) ==
  IF HasChildKind(n, "comment") THEN Verbatim(n)
  ELSE Concat(<<DelimitedItems("(", ")", Docs(ChildrenOfKinds(n, {"type_expression", "tuple_type"})),
                               FALSE),
                Domained(n)>>)
NamedReturn(n) == DelimitedItems("(", ")", Docs(ChildrenOfKinds(n, {"named_result"})), FALSE)
StructPattern(n) ==
  Spaced(<<Of(n, "constructor"), Delimited(n, "{", "}", {"struct_pattern_field"}, TRUE)>>)

----------------------------------------------------------------------------
(* Sequences of items, statements and fields: a comment that starts on the  *)
(* row where the node before it ends stays there, all others start a line,  *)
(* after one blank line when the source has any.                            *)

(* A variant: the rows are counted from where the node before it starts.    *)
RowsFromStart(prev, k) == k.gap + prev.rows

RowsBetween(prev, k) == k.gap

Placed(kids, i, item) ==
  LET k == kids[i]
      rows == RowsBetween(kids[i - 1], k)
      before == IF i = 1 THEN <<>>
                ELSE IF k.k = "comment" /\ rows = 0 THEN <<Space>>
                ELSE IF rows > 1 THEN <<HardLine, HardLine>> ELSE <<HardLine>>
  IN Concat(before \o <<Mark(Leaves(k), FALSE), item, Mark(Leaves(k), TRUE)>>)

Sequence(n) ==
  LET kids == Named(n) IN Concat([i \in DOMAIN kids |-> Placed(kids, i, kids[i].doc)])

BracedLines(d) == Enclosed("{", <<Indent(Concat(<<HardLine, d>>)), HardLine>>, "}")
(* The body of a function, impl, trait or module. *)
Braced(n) == IF Named(n) = <<>> THEN Enclosed("{", <<>>, "}") ELSE Group(BracedLines(n.doc))

(* The body of a struct or a port: a field per line, a comma after each. *)
DefBody(n, kind) ==
  LET kids == Named(n)
      FieldWithComma(k) == IF k.k = "comment" THEN k.doc ELSE Concat(<<k.doc, Text(",")>>)
  IN IF kids = <<>> THEN Enclosed("{", <<>>, "}")
     ELSE IF ChildrenOfKinds(n, {kind}) = <<>> THEN Verbatim(n)
     ELSE BracedLines(Concat([i \in DOMAIN kids |-> Placed(kids, i, FieldWithComma(kids[i]))]))

----------------------------------------------------------------------------
(* Items. *)
VisPrefix(n) == IF Has(n, "visibility") THEN Concat(<<Of(n, "visibility"), Space>>) ELSE Nil
Attr(n) == Concat(<<Text("#"), Text("["), Of(n, "name"), Opt(n, "arguments", <<>>), Text("]")>>)
AttrArguments(n) ==
  Enclosed("(", <<Joined(Docs(ChildrenOfKinds(n, {"identifier"})), CommaSpace)>>, ")")
AttrsPrefix(n) ==
  LET as == Fields(n, "attribute")
  IN Concat([i \in DOMAIN as |-> Concat(<<as[i].doc, HardLine>>)])

(* The head of a definition: two sections of parameters go to lines of their *)
(* own when they do not fit, one stays on the name.                         *)
Header(n, keyword, tail) ==
  LET start == <<VisPrefix(n), Text(keyword), Space, Of(n, "name")>>
      sections == SelectSeq(<<Opt(n, "named_parameters", <<>>), Opt(n, "parameters", <<>>), tail>>,
                            LAMBDA d : d.k # "nil")
  IN IF Has(n, "named_parameters")
     THEN Group(Concat(start \o
            <<Indent(Concat([i \in DOMAIN sections |-> Concat(<<Line, sections[i]>>)]))>>))
     ELSE Concat(start \o <<Opt(n, "parameters", <<>>), IF tail.k = "nil" THEN Nil
                                                       ELSE Concat(<<Space, tail>>)>>)
FnDef(n) ==
  Concat(<<AttrsPrefix(n),
           Spaced(<<Header(n, "fn", Opt(n, "return_type", <<Text("->"), Space>>)),
                    Opt(n, "where", <<>>), Braced(Fields(n, "body")[1])>>)>>)
StructDef(n) ==
  Spaced(<<Header(n, "struct", Nil), Text("="), Of(n, "constructor"),
           Of(n, "body")>>)
PortDef(n) ==
  Spaced(<<Header(n, "port", Nil), Text("="), Of(n, "constructor"),
           Of(n, "body")>>)
ImplBlock(n) ==                              \* the name is copied as text
  Concat(<<AttrsPrefix(n),
           Spaced(<<Text("impl"), Opt(n, "named_parameters", <<>>),
                    Tokens(Leaves(Fields(n, "name")[1])),
                    Opt(n, "self_type", <<Text("for"), Space>>), Opt(n, "where", <<>>),
                    Braced(Fields(n, "body")[1])>>)>>)
TraitDef(n) ==
  Concat(<<VisPrefix(n),
           Spaced(<<Text("trait"), Of(n, "name"), Braced(Fields(n, "body")[1])>>)>>)
TraitMethod(n) ==
  Concat(<<Text("fn"), Space, Of(n, "name"), Opt(n, "named_parameters", <<>>),
           Of(n, "parameters"), Opt(n, "return_type", <<Space, Text("->"), Space>>), Text(";")>>)
AssocConst(n) ==
  Concat(<<Text("const"), Space, Of(n, "name"), Typed(n), Valued(n, "value"), Text(";")>>)
ModuleDef(n) ==
  Concat(<<VisPrefix(n), Text("mod"), Space, Of(n, "name"),
           IF Has(n, "body") THEN Concat(<<Space, Braced(Fields(n, "body")[1])>>) ELSE Text(";")>>)

Bounds(n) == Joined(Docs(Fields(n, "bound")), Concat(<<Space, Text("+"), Space>>))
WherePredicate(n) == Concat(<<Of(n, "name"), Text(":"), Space, Bounds(n)>>)
WhereClause(n) ==
  Concat(<<Text("where"), Space, Joined(Docs(ChildrenOfKinds(n, {"where_predicate"})), CommaSpace)>>)
TraitBound(n) ==                             \* its arguments are left as they stand
  LET ix == ChildrenOfKinds(n, {"type_index"})
  IN Concat(<<Of(n, "name"), IF ix = <<>> THEN Nil ELSE Verbatim(ix[1])>>)

UseTree(n) ==
  LET paths == ChildrenOfKinds(n, {"use_path"})
      path == IF paths = <<>> THEN Nil ELSE paths[1].doc
      under(d) == IF paths = <<>> THEN d ELSE Concat(<<path, Text("::"), d>>)
  IN CASE Has(n, "alias") -> Spaced(<<path, Text("as"), Of(n, "alias")>>)
       [] ~Has(n, "alias") /\ Has(n, "group") -> under(Of(n, "group"))
       [] ~Has(n, "alias") /\ Has(n, "glob") -> under(Text("*"))
       [] OTHER -> path
UseDecl(n) == Concat(<<VisPrefix(n), Text("use"), Space, Of(n, "tree"), Text(";")>>)
UsePath(n) == Joined(Docs(ChildrenOfKinds(n, {"identifier"})), Text("::"))
Visibility(n) ==
  LET paths == ChildrenOfKinds(n, {"use_path"})
      only(ds) == Concat(<<Text("pub"), Enclosed("(", ds, ")")>>)
  IN CASE ~HasChildKind(n, "(") -> Text("pub")
       [] HasChildKind(n, "crate") -> only(<<Text("crate")>>)
       [] HasChildKind(n, "super") -> only(<<Text("super")>>)
       [] paths # <<>> -> only(<<Text("in"), Space, paths[1].doc>>)
       [] OTHER -> Text("pub")

----------------------------------------------------------------------------
(* Statements: the value stays on the line of its `=`. *)
LetStmt(n) ==
  Concat(<<Spaced(<<Text("let"), Opt(n, "modifier", <<>>), Of(n, "pattern")>>),
           Typed(n), Valued(n, "value"), Text(";")>>)
VarStmt(n) ==
  Concat(<<Text("var"), Space, Joined(Docs(Fields(n, "name")), CommaSpace),
           Typed(n), Valued(n, "value"), Text(";")>>)
ReturnStmt(n) == Concat(<<Text("return"), Space, Of(n, "value"), Text(";")>>)
AssignmentStmt(n) == Concat(<<Of(n, "left"), Valued(n, "right"), Text(";")>>)
ForStatement(n) ==
  Spaced(<<Text("for"), Of(n, "pattern"), Text("in"), Of(n, "iter"), Braced(Fields(n, "body")[1])>>)

(* Expressions. *)
Binary(n) == Spaced(<<Of(n, "left"), Of(n, "operator"), Of(n, "right")>>)

(* A chain of two or more links that does not fit breaks before each `.` but *)
(* the first; arguments stay with their link, all else is moved to the base. *)
Postfix(n) ==
  LET kids == Named(n)
      Step(acc, c) ==
        CASE c.k = "field_access" -> [acc EXCEPT !.links = Append(@, <<c.doc>>)]
          [] c.k \in {"argument_list", "named_argument_list"} /\ acc.links # <<>> ->
               [acc EXCEPT !.links[Len(acc.links)] = Append(@, c.doc)]
          [] OTHER -> [acc EXCEPT !.base = Append(@, c.doc)]
      all == FoldLeft(Step, [base |-> <<kids[1].doc>>, links |-> <<>>], SubSeq(kids, 2, Len(kids)))
      tail == [i \in 1..(Len(all.links) - 1) |-> Concat(<<SoftLine>> \o all.links[i + 1])]
  IN IF Len(all.links) < 2 THEN Concat(all.base \o FlattenSeq(all.links))
     ELSE Group(Concat(all.base \o all.links[1] \o <<Indent(Concat(tail))>>))

VecLiteral(n) ==
  Enclosed("[", IF Has(n, "elem") THEN <<Of(n, "elem"), Text(";"), Space, Of(n, "len")>>
                ELSE <<Joined(Docs(ChildrenOfKinds(n, {"expression"})), CommaSpace)>>, "]")
SliceAccess(n) ==
  Enclosed("[", <<Opt(n, "low", <<>>), Text(".."),
                  IF Has(n, "high") THEN Of(n, "high") ELSE Opt(n, "width", <<Text("+")>>)>>, "]")

(* An `if` or `when` on one line is at most SingleLineIfMax wide, unless a   *)
(* block of it has statements.                                              *)
HasStatements(n, f) == HasChildKind(Fields(n, f)[1], "statement")
Capped(d, multi) == IF multi THEN Group(d) ELSE GroupCapped(d, SingleLineIfMax)
Arm(d) == <<Indent(Concat(<<Line, d>>)), Line>>
IfExpr(n, keywords) ==
  Capped(Concat(<<keywords, Space, Of(n, "condition"), Space, Text("{")>>
                \o Arm(Of(n, "then_branch"))
                \o <<Text("}"), Space, Text("else"), Space, Text("{")>>
                \o Arm(Of(n, "else_branch")) \o <<Text("}")>>),
         HasStatements(n, "then_branch") \/ HasStatements(n, "else_branch"))
WhenExpr(n) ==
  Capped(Concat(<<IF Has(n, "init") THEN Concat(<<Text("init"), Space, Of(n, "init"), Space>>) ELSE Nil,
                  Text("when"), Space, Of(n, "event"), Space, Text("{")>>
                \o Arm(Of(n, "body")) \o <<Text("}")>>),
         HasStatements(n, "body"))

(* Types, parameters, fields and arguments. *)
TypeExpr(n) ==
  Concat(<<Of(n, "name")>> \o Docs(ChildrenOfKinds(n, {"type_named_args"}))
         \o Docs(ChildrenOfKinds(n, {"type_index"})) \o <<Domained(n)>>)
Parameter(n) ==
  Concat(<<Spaced(<<Opt(n, "direction", <<>>), Opt(n, "kind", <<>>), Of(n, "name")>>),
           Typed(n),
           IF Has(n, "type") /\ Has(n, "bound")
           THEN Concat(<<Space, Text("+"), Space, Bounds(n)>>) ELSE Nil,
           IF HasChildKind(n, "self") THEN Domained(n) ELSE Nil,
           Valued(n, "default")>>)
NameAndType(n) == Concat(<<Spaced(<<Opt(n, "direction", <<>>), Of(n, "name")>>), Typed(n)>>)
(* `name => target`, `name = value`, `name`, each with its direction. *)
NameAndValue(n) ==
  Concat(<<Spaced(<<Opt(n, "direction", <<>>), Opt(n, "name", <<>>),
                    Opt(n, "target", <<Text("=>"), Space>>)>>),
           IF Has(n, "target") THEN Nil ELSE Valued(n, "value")>>)
StructPatternField(n) == Concat(<<Of(n, "name"), Valued(n, "binding")>>)

----------------------------------------------------------------------------
Lists == {"named_parameter_section", "parameter_section", "use_group", "named_argument_list",
          "record_literal", "type_named_args", "type_index", "argument_list", "tuple_expression",
          "tuple_pattern"}
Containers == {"source_file", "module_body", "impl_body", "trait_body", "block"}
Wrappers == {"expression", "statement", "type_argument", "const_expression"}
Parens == {"parenthesized_expression", "const_paren", "parenthesized_return_type"}
Leaf == {"identifier", "number", "comment"}

(* Dispatch on the kind; what no rule lays out is left as it stands, and so  *)
(* is a block where a value is expected.                                    *)
Rule(n) ==
  CASE n.k \in Leaf \/ ~n.named -> Text(n.t)
    [] n.k \in Wrappers ->
         LET inner == Named(n)[1] IN IF inner.k = "block" THEN Verbatim(inner) ELSE inner.doc
    [] n.k \in Lists -> List(n)
    [] n.k \in Containers -> Sequence(n)
    [] n.k \in Parens -> Enclosed("(", <<Named(n)[1].doc>>, ")")
    [] n.k \in {"binary_expression", "const_binary"} -> Binary(n)
    [] n.k = "unary_expression" -> Concat(<<Of(n, "operator"), Of(n, "operand")>>)
    [] n.k = "const_field" -> Concat(<<Of(n, "base"), Text("."), Joined(Docs(Fields(n, "field")), Text("."))>>)
    [] n.k = "const_path" -> Concat(<<Of(n, "base"), Text("::"), Of(n, "item")>>)
    [] n.k = "path_expression" -> Joined(Docs(Fields(n, "segment")), Text("::"))
    [] n.k = "typed_literal" -> Concat(<<Of(n, "type"), Text("::"), Of(n, "value")>>)
    [] n.k = "type_path_call" ->
         Concat(<<Of(n, "type"), Text("::"), Of(n, "method"), Of(n, "arguments")>>)
    [] n.k = "field_access" -> Concat(<<Text("."), Of(n, "field")>>)
    [] n.k = "index_access" -> Enclosed("[", <<Of(n, "index")>>, "]")
    [] n.k = "slice_access" -> SliceAccess(n)
    [] n.k = "vec_literal" -> VecLiteral(n)
    [] n.k = "postfix_expression" -> Postfix(n)
    [] n.k = "record_constructor_expression" -> Spaced(<<Of(n, "constructor"), Of(n, "body")>>)
    [] n.k = "if_expression" -> IfExpr(n, Text("if"))
    [] n.k = "const_if_expression" -> IfExpr(n, Concat(<<Text("const"), Space, Text("if")>>))
    [] n.k = "when_expression" -> WhenExpr(n)
    [] n.k \in {"type_expression", "return_type_expression"} -> TypeExpr(n)
    [] n.k = "tuple_type" -> TupleType(n)
    [] n.k = "named_return" -> NamedReturn(n)
    [] n.k \in {"named_result", "record_field_type", "port_field"} -> NameAndType(n)
    [] n.k \in {"named_parameter", "parameter"} -> Parameter(n)
    [] n.k \in {"record_field_value", "named_or_shorthand_argument", "out_argument"} -> NameAndValue(n)
    [] n.k = "struct_pattern" -> StructPattern(n)
    [] n.k = "struct_pattern_field" -> StructPatternField(n)
    [] n.k = "let_statement" -> LetStmt(n)
    [] n.k = "var_statement" -> VarStmt(n)
    [] n.k = "return_statement" -> ReturnStmt(n)
    [] n.k = "assignment_statement" -> AssignmentStmt(n)
    [] n.k = "expression_statement" -> Concat(<<Named(n)[1].doc, Text(";")>>)
    [] n.k = "for_statement" -> ForStatement(n)
    [] n.k = "attribute" -> Attr(n)
    [] n.k = "attribute_arguments" -> AttrArguments(n)
    [] n.k = "function_definition" -> IF Has(n, "verilog_body") THEN Verbatim(n) ELSE FnDef(n)
    [] n.k = "struct_definition" -> StructDef(n)
    [] n.k = "port_definition" -> PortDef(n)
    [] n.k = "record_type_body" -> DefBody(n, "record_field_type")
    [] n.k = "port_body" -> DefBody(n, "port_field")
    [] n.k = "trait_definition" -> TraitDef(n)
    [] n.k = "trait_method" -> TraitMethod(n)
    [] n.k \in {"trait_const", "impl_const"} -> AssocConst(n)
    [] n.k = "impl_block" -> ImplBlock(n)
    [] n.k = "module_definition" -> ModuleDef(n)
    [] n.k = "where_clause" -> WhereClause(n)
    [] n.k = "where_predicate" -> WherePredicate(n)
    [] n.k = "trait_bound" -> TraitBound(n)
    [] n.k = "use_declaration" -> UseDecl(n)
    [] n.k = "use_tree" -> UseTree(n)
    [] n.k = "use_path" -> UsePath(n)
    [] n.k = "visibility_modifier" -> Visibility(n)
    [] OTHER -> Verbatim(n)

RECURSIVE Doc(_)
Doc(n) == Rule([n EXCEPT !.kids = [i \in DOMAIN n.kids |->
                                     [n.kids[i] EXCEPT !.doc = Doc(n.kids[i])]]])

(* What format_str writes: the lines of a file, and what it refuses to touch. *)
HasError(tree) == tree.k = "ERROR"
Formatted(tree, w) == Render(Doc(tree), w)
(* The text of rendered lines. *)
TextOf(lines) == [i \in DOMAIN lines |->
                    IF lines[i].ts = <<>> THEN <<>> ELSE <<lines[i].ind, lines[i].ts, lines[i].len>>]

(***************************************************************************)
(* The file as it is parsed again once it is written: the same nodes, at    *)
(* the rows they were printed on, unless a stray comma is an error.         *)
(***************************************************************************)
RowOf(lines, n, end) == CHOOSE r \in DOMAIN lines : <<Leaves(n), end>> \in lines[r].marks
IsPlaced(lines, n) == \E r \in DOMAIN lines : <<Leaves(n), FALSE>> \in lines[r].marks
RECURSIVE Moved(_, _)
Moved(n, lines) ==
  LET threaded == n.k \in Containers \cup {"record_type_body", "port_body"}
      before(i) == {j \in 1..(i - 1) : n.kids[j].named}
      kid(i) ==
        LET k == n.kids[i]
            start == RowOf(lines, k, FALSE)
        IN IF ~(threaded /\ k.named /\ IsPlaced(lines, k)) THEN k
           ELSE [k EXCEPT !.rows = RowOf(lines, k, TRUE) - start,
                          !.gap = IF before(i) = {} THEN @
                                  ELSE start - RowOf(lines, n.kids[Max(before(i))], TRUE)]
  IN [n EXCEPT !.kids = [i \in DOMAIN n.kids |-> Moved(kid(i), lines)]]
Reparsed(tree, lines) ==
  IF \E r \in DOMAIN lines : <<StrayComma.key, StrayComma.end>> \in lines[r].marks
  THEN [tree EXCEPT !.k = "ERROR"] ELSE Moved(tree, lines)

----------------------------------------------------------------------------
(* main.rs: the files one by one.  An editor or a continuous integration    *)
(* then runs --check on them.                                               *)
VARIABLES files,     \* what is on disk: the tree of each file, and its text when it is known
          width,
          check,     \* --check
          at,        \* the file run_file is at
          changed, hadError,   \* of this run
          code,      \* the exit code, <<>> while running
          written,   \* the files the first run wrote
          reported,  \* the files --check called not formatted
          lost       \* the files a failed write left cut short

vars == <<files, width, check, at, changed, hadError, code, written, reported, lost>>

(* A text that is not the formatter's own: laid out in some other way. *)
Unknown == << <<-1, <<>>, -1>> >>

Init ==
  /\ \E ts \in Inputs : files = [i \in DOMAIN ts |-> [tree |-> ts[i], text |-> Unknown]]
  /\ width \in Widths
  /\ check = FALSE /\ at = 1
  /\ changed = FALSE /\ hadError = FALSE /\ code = <<>>
  /\ written = {} /\ reported = {} /\ lost = {}

Running == code = <<>> /\ at <= Len(files)
Lines == Formatted(files[at].tree, width)

ReadFails ==
  /\ Running
  /\ at' = at + 1 /\ hadError' = TRUE
  /\ UNCHANGED <<files, width, check, changed, code, written, reported, lost>>

Refused ==
  /\ Running /\ HasError(files[at].tree)
  /\ at' = at + 1 /\ hadError' = TRUE
  /\ UNCHANGED <<files, width, check, changed, code, written, reported, lost>>

Unchanged ==
  /\ Running /\ ~HasError(files[at].tree)
  /\ TextOf(Lines) = files[at].text
  /\ at' = at + 1
  /\ UNCHANGED <<files, width, check, changed, hadError, code, written, reported, lost>>

NotFormatted ==
  /\ Running /\ check /\ ~HasError(files[at].tree)
  /\ TextOf(Lines) # files[at].text
  /\ at' = at + 1 /\ changed' = TRUE /\ reported' = reported \cup {at}
  /\ UNCHANGED <<files, width, check, hadError, code, written, lost>>

Written ==
  /\ Running /\ ~check /\ ~HasError(files[at].tree)
  /\ LET ls == Lines
     IN /\ TextOf(ls) # files[at].text
        /\ files' = [files EXCEPT ![at] = [tree |-> Reparsed(@.tree, ls), text |-> TextOf(ls)]]
  /\ at' = at + 1 /\ changed' = TRUE /\ written' = written \cup {at}
  /\ UNCHANGED <<width, check, hadError, code, reported, lost>>

(* fs::write empties the file first: when the disk is full, it stays cut.    *)
WriteFails ==
  /\ Running /\ ~check /\ ~HasError(files[at].tree)
  /\ TextOf(Lines) # files[at].text
  /\ at' = at + 1 /\ hadError' = TRUE
  /\ \/ UNCHANGED <<files, lost>>
     \/ /\ files' = [files EXCEPT ![at].tree.k = "ERROR", ![at].text = Unknown]
        /\ lost' = lost \cup {at}
  /\ UNCHANGED <<width, check, changed, code, written, reported>>

Exit ==
  /\ code = <<>> /\ at > Len(files)
  /\ code' = <<IF hadError THEN 2 ELSE IF check /\ changed THEN 1 ELSE 0>>
  /\ UNCHANGED <<files, width, check, at, changed, hadError, written, reported, lost>>

RunCheck ==
  /\ code # <<>> /\ ~check
  /\ check' = TRUE /\ at' = 1 /\ changed' = FALSE /\ hadError' = FALSE /\ code' = <<>>
  /\ UNCHANGED <<files, width, written, reported, lost>>

Next == ReadFails \/ Refused \/ Unchanged \/ NotFormatted \/ Written \/ WriteFails \/ Exit \/ RunCheck
Spec == Init /\ [][Next]_vars

----------------------------------------------------------------------------
IsComment(t) == Len(t) > 1 /\ SubSeq(t, 1, 2) = "//"
Closers == {")", "}", "]", "{"}
(* Tokens without the commas a list may end with. *)
Significant(ts) ==
  LET closes(i) ==
        LET after == SelectSeq(SubSeq(ts, i + 1, Len(ts)), LAMBDA t : ~IsComment(t))
        IN ts[i] = "," /\ after # <<>> /\ after[1] \in Closers
      kept == SelectSeq([i \in DOMAIN ts |-> i], LAMBDA i : ~closes(i))
  IN [j \in DOMAIN kept |-> ts[kept[j]]]
TokensOf(text) == FlattenSeq([r \in DOMAIN text |-> IF text[r] = <<>> THEN <<>> ELSE text[r][2]])

(* What is written is the program and the comments that were read, in their  *)
(* order, but for the comma a list may end with, and a comment swallows      *)
(* nothing: it ends its line.  A file a failed write cut short fails the run. *)
SourceKept ==
  /\ \A i \in written :
       LET text == files[i].text
       IN /\ Significant(TokensOf(text)) = Significant(Leaves(files[i].tree))
          /\ \A r \in DOMAIN text : text[r] # <<>> =>
               \A j \in DOMAIN text[r][2] : IsComment(text[r][2][j]) => j = Len(text[r][2])
  /\ lost # {} /\ ~check => hadError

(* Formatting settles: what a run wrote, a --check never calls unformatted,   *)
(* though the rows of every node are not those the formatter was given.  (It *)
(* may refuse it, for the comma after a broken list of type arguments.)      *)
CheckPasses == reported \cap written = {}

(* The renderer measures and prints in two walks: a group it lays out on one  *)
(* line leaves that line within the width, with all that is printed after it *)
(* up to the next newline (verbatim text ends what is measured).             *)
FlatLinesFit ==
  Running /\ ~HasError(files[at].tree) =>
    LET ls == Lines IN \A r \in DOMAIN ls : ls[r].flat /\ ~ls[r].raw => ls[r].len <= width
=============================================================================
