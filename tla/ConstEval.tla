----------------------------- MODULE ConstEval -----------------------------
(***************************************************************************)
(* Compile-time evaluation (hir/const_eval.rs and mir/const_eval.rs) and   *)
(* the lowering to MIR that folds `const if`s with it (mir/lower.rs). A    *)
(* body is a system of equations: a local is evaluated when it is          *)
(* demanded, by a search for what drives it, and once in each activation;  *)
(* a call is a new activation.                                             *)
(*                                                                         *)
(* An expression is a node [e, n, name, kids, args, blocks]: its kind, its *)
(* number (of a local, generic, def or type), name, operands, connections  *)
(* [out, x] and blocks [stmts, tail]. A statement is [s, l, x]: `let l` or *)
(* `l =` an expression ("part" if only a part of l is driven), one on its  *)
(* own, or the body of a `for` or `when`. A def is [params, locals,        *)
(* results, block, widths]; its params are its first locals. Left out:     *)
(* slices, types, spans, named connections, and the generics that a call   *)
(* writes.                                                                 *)
(***************************************************************************)
EXTENDS Integers, FiniteSets, SequencesExt

CONSTANTS
    Crates,     \* the crates: sequences of defs
    Assocs,     \* the associated const of a type: what its impl says
    GenericArgs,\* what the generics of a root may be bound to
    MaxSteps,   \* steps of an evaluation
    MaxDepth,   \* calls within calls
    RefCalls,   \* calls within calls that the meaning of a body is given for
    InputValues \* the integers that an input may be

ASSUME LimitsAssumption == MaxSteps \in Nat /\ MaxDepth \in Nat /\ RefCalls \in Nat

VARIABLES
    hir,        \* the crate
    mir,        \* its defs lowered so far
    query,      \* the last evaluation
    answer      \* and what came out

vars == <<hir, mir, query, answer>>

-----------------------------------------------------------------------------
(* Nodes and values.                                                       *)

Node(e, n, name, kids, args, blocks) ==
    [e |-> e, n |-> n, name |-> name, kids |-> kids, args |-> args, blocks |-> blocks]

Val(k, v, fields) == [k |-> k, v |-> v, fields |-> fields]
Nothing == Val("none", 0, <<>>)
Int1(v) == Val("int", v, <<>>)
Bool(b) == Val("bool", IF b THEN 1 ELSE 0, <<>>)

Arithmetic == {"add", "sub", "mul", "div"}
Comparisons == {"eq", "ne", "lt"}
Operators == Arithmetic \union Comparisons \union {"and", "neg", "not"}

Arith(op, a, b) ==
    CASE op = "add" -> Int1(a + b)
      [] op = "sub" -> Int1(a - b)
      [] op = "mul" -> Int1(a * b)
      [] op = "div" -> IF b = 0 THEN Nothing ELSE Int1(a \div b)

Compare(op, a, b) ==
    CASE op = "eq" -> Bool(a = b)
      [] op = "ne" -> Bool(a # b)
      [] op = "lt" -> Bool(a < b)

ApplyUnary(op, a) ==
    CASE op = "neg" /\ a.k = "int" -> Int1(-a.v)
      [] op = "not" /\ a.k = "bool" -> Bool(a.v = 0)
      [] OTHER -> Nothing

ApplyBinary(op, a, b) ==
    CASE op \in Arithmetic /\ a.k = "int" /\ b.k = "int" -> Arith(op, a.v, b.v)
      [] op \in {"eq", "ne"} /\ a.k = b.k /\ a.k \in {"int", "bool"} -> Compare(op, a.v, b.v)
      [] op = "lt" /\ a.k = "int" /\ b.k = "int" -> Compare(op, a.v, b.v)
      [] op = "and" /\ a.k = "bool" /\ b.k = "bool" -> Bool(a.v = 1 /\ b.v = 1)
      [] OTHER -> Nothing

Project(v, name) ==
    LET found == SelectSeq(v.fields, LAMBDA f : f[1] = name)
    IN  IF v.k # "record" \/ found = <<>> THEN Nothing ELSE Head(found)[2]

-----------------------------------------------------------------------------
(* Evaluation. The state of an evaluator: its steps, whether it met        *)
(* something symbolic, the activations, on a stack, and the program (HIR   *)
(* or MIR) with the generics that are bound at its root. `cut` remembers   *)
(* that calls were too deep, for the properties.                           *)

Slot(s, v) == [s |-> s, v |-> v]

Frame(def, bind) ==
    [def |-> def, bind |-> bind,
     slots |-> [l \in 1 .. hir[def].locals |-> Slot("empty", Nothing)]]

NoBindings(def) == [l \in 1 .. hir[def].locals |-> Nothing]

Evaluator(ir, prog, def, generics) ==
    [steps |-> 0, symbolic |-> FALSE, cut |-> FALSE, ir |-> ir, prog |-> prog, generics |-> generics,
     frames |-> <<Frame(def, NoBindings(def))>>]

Out(v, st) == [v |-> v, st |-> st]
Tick(st) == [st EXCEPT !.steps = @ + 1]
Spent(st) == st.steps > MaxSteps
Stuck(st) == Out(Nothing, [st EXCEPT !.symbolic = TRUE])
TooDeep(st) == Out(Nothing, [st EXCEPT !.cut = TRUE])

Top(st) == Last(st.frames)
BodyOf(st) == st.prog[Top(st).def]
SetSlot(st, l, slot) == [st EXCEPT !.frames[Len(st.frames)].slots[l] = slot]
Leave(r, st) == Out(r.v, [r.st EXCEPT !.frames = SubSeq(@, 1, Len(st.frames))])

RECURSIVE EvalExpr(_, _, _), EvalConstArg(_, _, _), Demand(_, _, _), DemandInBlock(_, _, _, _),
          DemandNested(_, _, _, _), DemandInArms(_, _, _, _), EvalArgs(_, _, _, _, _), EvalFields(_, _, _, _)

\* Of a type that is a generic itself nothing is known yet. MIR asks HIR,
\* which starts anew.
EvalAssoc(st, type, depth) ==
    CASE type = 0 -> IF st.ir = "hir" THEN Stuck(st) ELSE Out(Nothing, st)
      [] type # 0 /\ type \notin DOMAIN Assocs -> Out(Nothing, st)
      [] type \in DOMAIN Assocs /\ st.ir = "hir" -> EvalConstArg(st, Assocs[type], depth + 1)
      [] type \in DOMAIN Assocs /\ st.ir = "mir" ->
            Out(EvalConstArg(Evaluator("hir", hir, 1, <<>>), Assocs[type], 0).v, st)

\* A constant in a type: a width, a length, an endpoint.
EvalConstArg(was, c, depth) ==
    LET st == Tick(was)
        Fold(a, b) == Out(ApplyBinary(c.name, a, b.v), b.st)
        Right(a) == IF a.v = Nothing THEN a ELSE Fold(a.v, EvalConstArg(a.st, c.kids[2], depth))
        Field1(r) == Out(Project(r.v, c.name), r.st)
    IN  CASE Spent(st) -> Out(Nothing, st)
          [] ~Spent(st) /\ c.e = "num" -> Out(Int1(c.n), st)
          [] ~Spent(st) /\ c.e = "local" -> Demand(st, c.n, depth)
          [] ~Spent(st) /\ c.e = "op" -> Right(EvalConstArg(st, c.kids[1], depth))
          [] ~Spent(st) /\ c.e = "field" -> Field1(EvalConstArg(st, c.kids[1], depth))
          [] ~Spent(st) /\ c.e = "assoc" -> EvalAssoc(st, c.n, depth)
          [] ~Spent(st) /\ c.e \in {"param", "deferred"} -> Stuck(st)

\* The value of a block: its tail, or that of its `return`.
IsResult(st, stmt) == stmt.s = "return" \/ (stmt.s = "eq" /\ stmt.l \in BodyOf(st).results)

EvalBlock(st, b, depth) ==
    LET results == SelectSeq(b.stmts, LAMBDA stmt : IsResult(st, stmt))
    IN  CASE b.tail # <<>> -> EvalExpr(st, b.tail[1], depth)
          [] b.tail = <<>> /\ results # <<>> -> EvalExpr(st, Head(results).x, depth)
          [] b.tail = <<>> /\ results = <<>> -> Out(Nothing, st)

\* Variant: an output takes no place among the parameters.
EvalArgsInputsOnly(st, args, next, bind, depth) ==
    LET a == Head(args)
        params == hir[bind.def].params
        Bound(r) == IF r.v = Nothing THEN r
                    ELSE EvalArgs(r.st, Tail(args), next + 1, [bind EXCEPT !.of[next] = r.v], depth)
    IN  CASE args = <<>> -> Out(Bool(TRUE), [st EXCEPT !.frames = Append(@, Frame(bind.def, bind.of))])
          [] args # <<>> /\ a.out -> EvalArgs(st, Tail(args), next, bind, depth)
          [] args # <<>> /\ ~a.out /\ next > Len(params) -> Out(Nothing, st)
          [] args # <<>> /\ ~a.out /\ next <= Len(params) -> Bound(EvalExpr(st, a.x, depth))

\* The connections of a call from the i-th on, for the parameters from `next`
\* on: inputs are evaluated at once, outputs only take a place. The result is
\* Nothing if one input has no value.
EvalArgs(st, args, next, bind, depth) ==
    LET a == Head(args)
        params == hir[bind.def].params
        Bound(r) == IF r.v = Nothing THEN r
                    ELSE EvalArgs(r.st, Tail(args), next + 1, [bind EXCEPT !.of[next] = r.v], depth)
    IN  CASE args = <<>> -> Out(Bool(TRUE), [st EXCEPT !.frames = Append(@, Frame(bind.def, bind.of))])
          [] args # <<>> /\ a.out -> EvalArgs(st, Tail(args), next + 1, bind, depth)
          [] args # <<>> /\ ~a.out /\ next > Len(params) -> Out(Nothing, st)
          [] args # <<>> /\ ~a.out /\ next <= Len(params) -> Bound(EvalExpr(st, a.x, depth))

In(x) == [out |-> FALSE, x |-> x]

\* A new activation, with a receiver as the first input.
EnterCall(st, x, depth) ==
    LET first == IF x.kids = <<>> THEN <<>> ELSE <<In(x.kids[1])>>
    IN  EvalArgs(st, first \o x.args, 1, [def |-> x.n, of |-> NoBindings(x.n)], depth)

EvalCall(st, x, depth) ==
    LET Body(c) == IF c.v = Nothing THEN Out(Nothing, c.st)
                   ELSE Leave(EvalBlock(c.st, BodyOf(c.st).block, depth + 1), st)
    IN  IF depth >= MaxDepth THEN TooDeep(st) ELSE Body(EnterCall(st, x, depth))

\* The value of the parameter that an output is connected to.
DrivenAt(x, l) == {i \in DOMAIN x.args : x.args[i].out /\ x.args[i].x.e = "local" /\ x.args[i].x.n = l}

EvalOutParam(st, x, pos, depth) ==
    LET params == hir[x.n].params
        Thunk(c) == IF c.v = Nothing \/ pos > Len(params) \/ params[pos] # "out"
                    THEN Leave(Out(Nothing, c.st), st)
                    ELSE Leave(Demand(c.st, pos, depth + 1), st)
    IN  IF depth >= MaxDepth THEN TooDeep(st) ELSE Thunk(EnterCall(st, x, depth))

\* Operators are methods of the prelude; they are known by their names.
EvalOperator(st, x, depth) ==
    LET Fold(a, b) == Out(ApplyBinary(x.name, a, b.v), b.st)
        Right(a) == IF a.v = Nothing THEN a ELSE Fold(a.v, EvalExpr(a.st, x.args[1].x, depth))
        Unary(a) == Out(ApplyUnary(x.name, a.v), a.st)
    IN  CASE x.args = <<>> -> Unary(EvalExpr(st, x.kids[1], depth))
          [] Len(x.args) = 1 /\ ~x.args[1].out -> Right(EvalExpr(st, x.kids[1], depth))
          [] Len(x.args) > 1 \/ (x.args # <<>> /\ x.args[1].out) -> Out(Nothing, st)

IsOperator(x) == x.kids # <<>> /\ x.name \in Operators

EvalFields(st, args, done, depth) ==
    LET a == Head(args)
        Next1(r) == IF r.v = Nothing THEN r ELSE EvalFields(r.st, Tail(args), Append(done, <<a.name, r.v>>), depth)
    IN  CASE args = <<>> -> Out(Val("record", 0, done), st)
          [] args # <<>> /\ a.out -> Out(Nothing, st)
          [] args # <<>> /\ ~a.out -> Next1(EvalExpr(st, a.x, depth))

\* A generic that is bound at the root, by the splice of an inline function.
EvalConstParam(st, i) ==
    CASE st.ir = "hir" -> Stuck(st)
      [] st.ir = "mir" -> Out(IF Len(st.frames) = 1 /\ i \in DOMAIN st.generics THEN Int1(st.generics[i]) ELSE Nothing, st)

EvalExpr(was, x, depth) ==
    LET st == Tick(was)
        Arm(c) == CASE c.v = Bool(TRUE) -> EvalBlock(c.st, x.blocks[1], depth)
                    [] c.v = Bool(FALSE) -> EvalBlock(c.st, x.blocks[2], depth)
                    [] c.v.k # "bool" -> Out(Nothing, c.st)
        Field1(r) == Out(Project(r.v, x.name), r.st)
    IN  CASE Spent(st) -> Out(Nothing, st)
          [] ~Spent(st) /\ x.e = "num" -> Out(Int1(x.n), st)
          [] ~Spent(st) /\ x.e = "bool" -> Out(Bool(x.n = 1), st)
          [] ~Spent(st) /\ x.e = "local" -> Demand(st, x.n, depth)
          [] ~Spent(st) /\ x.e = "param" -> EvalConstParam(st, x.n)
          [] ~Spent(st) /\ x.e = "assoc" -> IF st.ir = "mir" THEN EvalAssoc(st, x.n, 0) ELSE Out(Nothing, st)
          [] ~Spent(st) /\ x.e = "field" -> Field1(EvalExpr(st, x.kids[1], depth))
          [] ~Spent(st) /\ x.e = "record" -> EvalFields(st, x.args, <<>>, depth)
          [] ~Spent(st) /\ x.e \in {"if", "constif"} -> Arm(EvalExpr(st, x.kids[1], depth))
          [] ~Spent(st) /\ x.e = "block" -> EvalBlock(st, x.blocks[1], depth)
          [] ~Spent(st) /\ x.e = "method" -> EvalOperator(st, x, depth)
          [] ~Spent(st) /\ x.e = "call" -> IF IsOperator(x) THEN EvalOperator(st, x, depth) ELSE EvalCall(st, x, depth)
          [] ~Spent(st) /\ x.e \in {"typepath", "other"} -> Out(Nothing, st)

-----------------------------------------------------------------------------
(* The demand of a local.                                                  *)

\* What a statement says of l: the first that says something is believed.
Says(stmt, l) ==
    \/ stmt.s \in {"let", "eq"} /\ stmt.l = l
    \/ stmt.s = "expr" /\ stmt.x.e = "call" /\ DrivenAt(stmt.x, l) # {}

DemandInBlock(st, b, l, depth) ==
    LET said == SelectSeq(b.stmts, LAMBDA stmt : Says(stmt, l))
        By(stmt) == IF stmt.s = "expr" THEN EvalOutParam(st, stmt.x, Min(DrivenAt(stmt.x, l)), depth)
                    ELSE EvalExpr(st, stmt.x, depth)
    IN  IF said # <<>> THEN By(Head(said)) ELSE DemandNested(st, b.stmts, l, depth)

\* No statement does: the first block within one that gives a value does.
DemandNested(st, stmts, l, depth) ==
    LET Else(r) == IF r.v # Nothing THEN r ELSE DemandNested(r.st, Tail(stmts), l, depth)
    IN  IF stmts = <<>> THEN Out(Nothing, st) ELSE Else(DemandInArms(st, Head(stmts), l, depth))

DemandInArms(st, stmt, l, depth) ==
    LET Else(r) == IF r.v # Nothing THEN r ELSE DemandInBlock(r.st, stmt.x.blocks[2], l, depth)
    IN  CASE stmt.s \in {"for", "when"} \/ stmt.x.e \notin {"if", "constif", "block"} -> Out(Nothing, st)
          [] stmt.s \notin {"for", "when"} /\ stmt.x.e = "block" -> DemandInBlock(st, stmt.x.blocks[1], l, depth)
          [] stmt.s \notin {"for", "when"} /\ stmt.x.e \in {"if", "constif"} ->
                Else(DemandInBlock(st, stmt.x.blocks[1], l, depth))

\* An input that is not bound is symbolic.
IsParam(st, l) == l <= Len(BodyOf(st).params)

\* Variant: an input that is not bound is like any local without a value.
SettleAsFailed(r, l) ==
    LET symbolic == r.st.symbolic
    IN  Out(r.v, [SetSlot(r.st, l, Slot("done", r.v)) EXCEPT !.symbolic = symbolic])

Settle(r, l) ==
    LET symbolic == r.st.symbolic \/ (r.st.ir = "hir" /\ r.v = Nothing /\ IsParam(r.st, l))
    IN  Out(r.v, [SetSlot(r.st, l, Slot("done", r.v)) EXCEPT !.symbolic = symbolic])

Demand(was, l, depth) ==
    LET st == Tick(was)
        slot == Top(st).slots[l]
        bound == Top(st).bind[l]
    IN  CASE Spent(st) \/ (bound = Nothing /\ slot.s = "evaluating") -> Out(Nothing, st)
          [] ~Spent(st) /\ bound # Nothing -> Out(bound, st)
          [] ~Spent(st) /\ bound = Nothing /\ slot.s = "done" -> Out(slot.v, st)
          [] ~Spent(st) /\ bound = Nothing /\ slot.s = "empty" ->
                Settle(DemandInBlock(SetSlot(st, l, Slot("evaluating", Nothing)), BodyOf(st).block, l, depth), l)

-----------------------------------------------------------------------------
(* Lowering to MIR: the calls become one shape, with the def that is       *)
(* called and a receiver or none, and a `const if` whose condition has a   *)
(* value becomes the arm it takes.                                         *)

EvalCond(d, x) == EvalExpr(Evaluator("hir", hir, d, <<>>), x, 0).v

RECURSIVE LowerExpr(_, _), LowerBlock(_, _)

\* Where an output goes is a place, and not a value.
LowerConn(d, a) == IF a.out THEN a ELSE [a EXCEPT !.x = LowerExpr(d, a.x)]

LowerArgs(d, args) == [i \in DOMAIN args |-> LowerConn(d, args[i])]
LowerKids(d, kids) == [i \in DOMAIN kids |-> LowerExpr(d, kids[i])]

\* Variant: a condition that is not known yet counts as false.
LowerConstIfEagerly(d, x, cond) ==
    Node("block", 0, "", <<>>, <<>>, <<LowerBlock(d, x.blocks[IF cond = Bool(TRUE) THEN 1 ELSE 2])>>)

LowerConstIf(d, x, cond) ==
    CASE cond = Bool(TRUE) -> Node("block", 0, "", <<>>, <<>>, <<LowerBlock(d, x.blocks[1])>>)
      [] cond = Bool(FALSE) -> Node("block", 0, "", <<>>, <<>>, <<LowerBlock(d, x.blocks[2])>>)
      [] cond.k # "bool" -> [x EXCEPT !.kids = LowerKids(d, @),
                                      !.blocks = [i \in DOMAIN @ |-> LowerBlock(d, @[i])]]

\* A method that is neither the crate's nor an operator is built in.
LowerExpr(d, x) ==
    CASE x.e \in {"method", "typepath"} ->
            Node(IF x.n = 0 /\ ~IsOperator(x) THEN "other" ELSE "call", x.n, x.name,
                 LowerKids(d, x.kids), LowerArgs(d, x.args), <<>>)
      [] x.e = "constif" -> LowerConstIf(d, x, EvalCond(d, x.kids[1]))
      [] x.e \notin {"method", "typepath", "constif"} ->
            [x EXCEPT !.kids = LowerKids(d, @), !.args = LowerArgs(d, @),
                      !.blocks = [i \in DOMAIN @ |-> LowerBlock(d, @[i])]]

LowerBlock(d, b) ==
    [stmts |-> [i \in DOMAIN b.stmts |-> [b.stmts[i] EXCEPT !.x = LowerExpr(d, @)]],
     tail |-> LowerKids(d, b.tail)]

MirOf(d) == [hir[d] EXCEPT !.block = LowerBlock(d, @)]

-----------------------------------------------------------------------------
(* What is asked of it: one query of each crate, for none leaves anything  *)
(* behind.                                                                 *)

NoQuery == [op |-> "none", d |-> 0, x |-> 0, generics |-> <<>>]
Answer(r, verdict) == [v |-> r.v, verdict |-> verdict, spent |-> Spent(r.st), cut |-> r.st.cut]
NoAnswer == [v |-> Nothing, verdict |-> "none", spent |-> FALSE, cut |-> FALSE]

\* A width without a value is deferred if it met something symbolic, and an
\* error if not.
Verdict(r) ==
    CASE r.v.k = "int" -> "value"
      [] r.v.k # "int" /\ r.st.symbolic -> "symbolic"
      [] r.v.k # "int" /\ ~r.st.symbolic -> "failed"

Init ==
    /\ hir \in Crates
    /\ mir = <<>>
    /\ query = NoQuery
    /\ answer = NoAnswer

LowerToMir ==
    /\ mir = <<>> /\ query = NoQuery
    /\ mir' = [d \in DOMAIN hir |-> MirOf(d)]
    /\ UNCHANGED <<hir, query, answer>>

Width(d, i, r) ==
    /\ query' = [op |-> "width", d |-> d, x |-> i, generics |-> <<>>]
    /\ answer' = Answer(r, Verdict(r))

EvalWidth(d, i) ==
    /\ mir = <<>> /\ query = NoQuery
    /\ Width(d, i, EvalConstArg(Evaluator("hir", hir, d, <<>>), hir[d].widths[i], 0))
    /\ UNCHANGED <<hir, mir>>

\* A constant in an expression is a local here; at the splice of an inline
\* function the generics of the call are known.
EvalValue(d, l, generics) ==
    /\ mir # <<>> /\ query = NoQuery
    /\ query' = [op |-> "value", d |-> d, x |-> l, generics |-> generics]
    /\ answer' = Answer(Demand(Evaluator("mir", mir, d, generics), l, 0), "none")
    /\ UNCHANGED <<hir, mir>>

EvalReturn(d) ==
    /\ mir # <<>> /\ query = NoQuery
    /\ query' = [op |-> "return", d |-> d, x |-> 0, generics |-> <<>>]
    /\ answer' = Answer(EvalBlock(Evaluator("mir", mir, d, <<>>), mir[d].block, 0), "none")
    /\ UNCHANGED <<hir, mir>>

Next ==
    \/ LowerToMir
    \/ \E d \in DOMAIN hir : \E i \in DOMAIN hir[d].widths : EvalWidth(d, i)
    \/ \E d \in DOMAIN hir, generics \in GenericArgs : \E l \in 1 .. hir[d].locals : EvalValue(d, l, generics)
    \/ \E d \in DOMAIN hir : EvalReturn(d)

Spec == Init /\ [][Next]_vars

-----------------------------------------------------------------------------
(* What a body means, without an order of evaluation: the least solution   *)
(* of its equations, in an activation with the values of its inputs.       *)
(* Nothing is no value, so that all that needs it has none either.         *)

Activation(prog, d, bind, generics, calls) ==
    [prog |-> prog, d |-> d, bind |-> bind, generics |-> generics, calls |-> calls]

RECURSIVE StatementsOf(_), StatementsIn(_)
StatementsOf(b) ==
    ToSet(b.stmts) \union UNION {StatementsIn(b.stmts[i].x) : i \in DOMAIN b.stmts}
                   \union UNION {StatementsIn(x) : x \in ToSet(b.tail)}
StatementsIn(x) ==
    UNION ({StatementsOf(x.blocks[i]) : i \in DOMAIN x.blocks} \union {StatementsIn(y) : y \in ToSet(x.kids)}
           \union {StatementsIn(x.args[i].x) : i \in DOMAIN x.args})

Sites(b, l) == {stmt \in StatementsOf(b) : Says(stmt, l)}

RECURSIVE Meaning(_, _, _), MeaningOf(_, _, _), Solution(_, _)

\* The parameters of a call that are inputs, and what is connected to them.
Inputs(x) ==
    LET all == [i \in DOMAIN x.kids |-> In(x.kids[i])] \o x.args
    IN  [i \in {j \in DOMAIN all : ~all[j].out} |-> all[i].x]

Called(c, env, x) ==
    LET inputs == Inputs(x)
        given == [i \in DOMAIN inputs |-> Meaning(c, env, inputs[i])]
        bind == [l \in 1 .. c.prog[x.n].locals |-> IF l \in DOMAIN given THEN given[l] ELSE Nothing]
    IN  IF c.calls = 0 \/ \E i \in DOMAIN given : given[i] = Nothing \/ i > Len(c.prog[x.n].params)
        THEN {} ELSE {Activation(c.prog, x.n, bind, <<>>, c.calls - 1)}

MeaningOfCall(c, env, x) ==
    LET Result(new) == MeaningOf(new, Solution(new, new.bind), c.prog[new.d].block)
        all == Called(c, env, x)
    IN  IF all = {} THEN Nothing ELSE Result(CHOOSE new \in all : TRUE)

\* Of the parameter that l is connected to.
MeaningOfOutput(c, env, x, l) ==
    LET pos == Min(DrivenAt(x, l)) + Len(x.kids)
        all == Called(c, env, x)
    IN  IF all = {} \/ pos > Len(c.prog[x.n].params) \/ c.prog[x.n].params[pos] # "out" THEN Nothing
        ELSE LET new == CHOOSE new \in all : TRUE IN Solution(new, new.bind)[pos]

Operate(name, vals) ==
    CASE \E i \in DOMAIN vals : vals[i] = Nothing -> Nothing
      [] (\A i \in DOMAIN vals : vals[i] # Nothing) /\ Len(vals) = 1 -> ApplyUnary(name, vals[1])
      [] (\A i \in DOMAIN vals : vals[i] # Nothing) /\ Len(vals) = 2 -> ApplyBinary(name, vals[1], vals[2])

Meaning(c, env, x) ==
    LET Of(i) == Meaning(c, env, x.kids[i])
        Taken(cond) == CASE cond = Bool(TRUE) -> MeaningOf(c, env, x.blocks[1])
                         [] cond = Bool(FALSE) -> MeaningOf(c, env, x.blocks[2])
                         [] cond.k # "bool" -> Nothing
        Fields == [i \in DOMAIN x.args |-> <<x.args[i].name, Meaning(c, env, x.args[i].x)>>]
    IN  CASE x.e = "num" -> Int1(x.n)
          [] x.e = "bool" -> Bool(x.n = 1)
          [] x.e = "local" -> env[x.n]
          [] x.e = "param" -> IF x.n \in DOMAIN c.generics THEN Int1(c.generics[x.n]) ELSE Nothing
          [] x.e = "assoc" -> IF x.n \in DOMAIN Assocs /\ c.calls > 0
                              THEN Meaning([c EXCEPT !.calls = @ - 1], env, Assocs[x.n]) ELSE Nothing
          [] x.e = "op" -> Operate(x.name, <<Of(1), Of(2)>>)
          [] x.e = "field" -> Project(Of(1), x.name)
          [] x.e = "record" -> IF \E i \in DOMAIN x.args : Fields[i][2] = Nothing THEN Nothing
                               ELSE Val("record", 0, Fields)
          [] x.e \in {"if", "constif"} -> Taken(Of(1))
          [] x.e = "block" -> MeaningOf(c, env, x.blocks[1])
          [] x.e \in {"method", "typepath", "call"} ->
                IF IsOperator(x) THEN Operate(x.name, <<Of(1)>> \o [i \in DOMAIN x.args |-> Meaning(c, env, x.args[i].x)])
                ELSE MeaningOfCall(c, env, x)
          [] x.e \in {"deferred", "other"} -> Nothing

\* A block has the value of its tail, or of its first result.
MeaningOf(c, env, b) ==
    LET results == {i \in DOMAIN b.stmts : b.stmts[i].s = "return" \/
                                           (b.stmts[i].s = "eq" /\ b.stmts[i].l \in c.prog[c.d].results)}
    IN  CASE b.tail # <<>> -> Meaning(c, env, b.tail[1])
          [] b.tail = <<>> /\ results # {} -> Meaning(c, env, b.stmts[Min(results)].x)
          [] b.tail = <<>> /\ results = {} -> Nothing

MeaningOfLocal(c, env, l) ==
    LET sites == Sites(c.prog[c.d].block, l)
        By(stmt) == IF stmt.s = "expr" THEN MeaningOfOutput(c, env, stmt.x, l) ELSE Meaning(c, env, stmt.x)
    IN  CASE c.bind[l] # Nothing -> c.bind[l]
          [] c.bind[l] = Nothing /\ sites = {} -> Nothing
          [] c.bind[l] = Nothing /\ sites # {} -> By(CHOOSE stmt \in sites : TRUE)

Solution(c, env) ==
    LET Again(next) == IF next = env THEN env ELSE Solution(c, next)
    IN  Again([l \in DOMAIN env |-> MeaningOfLocal(c, env, l)])

\* An evaluation starts without inputs.
Root(prog, d, generics) == Activation(prog, d, NoBindings(d), generics, RefCalls)
Solved(c) == Solution(c, c.bind)

-----------------------------------------------------------------------------
(* Properties.                                                             *)

\* Every local is driven at one site. (Where both arms of an `if` drive one
\* the evaluators take what the first arm says.)
OneSite == \A d \in DOMAIN hir : \A l \in 1 .. hir[d].locals : Cardinality(Sites(hir[d].block, l)) <= 1

\* The statements that a demand comes upon: those of blocks that are a
\* statement's whole expression.
RECURSIVE Searched(_)
Searched(b) ==
    LET Inner(x) == IF x.e \in {"if", "constif", "block"} THEN UNION {Searched(x.blocks[i]) : i \in DOMAIN x.blocks}
                    ELSE {}
    IN  ToSet(b.stmts) \union UNION {Inner(stmt.x) : stmt \in {t \in ToSet(b.stmts) : t.s \notin {"for", "when"}}}

AllSearched == \A d \in DOMAIN hir : StatementsOf(hir[d].block) \subseteq Searched(hir[d].block)

\* What was asked, by what it means.
Expected ==
    LET hirRoot == Root(hir, query.d, <<>>)
        mirRoot == Root(mir, query.d, query.generics)
    IN  CASE query.op = "width" -> Meaning(hirRoot, Solved(hirRoot), hir[query.d].widths[query.x])
          [] query.op = "value" -> Solved(mirRoot)[query.x]
          [] query.op = "return" -> MeaningOf(mirRoot, Solved(mirRoot), mir[query.d].block)

\* What the evaluator of HIR leaves to the one of MIR.
RECURSIVE OnlyMir(_)
OnlyMir(x) ==
    \/ x.e \in {"assoc", "typepath"} \/ (x.e = "method" /\ ~IsOperator(x))
    \/ \E i \in DOMAIN x.kids : OnlyMir(x.kids[i])
    \/ \E i \in DOMAIN x.args : OnlyMir(x.args[i].x)
    \/ \E i \in DOMAIN x.blocks : \/ \E j \in DOMAIN x.blocks[i].stmts : OnlyMir(x.blocks[i].stmts[j].x)
                                  \/ \E y \in ToSet(x.blocks[i].tail) : OnlyMir(y)

PlainHir == \A d \in DOMAIN hir : ~OnlyMir(Node("block", 0, "", <<>>, <<>>, <<hir[d].block>>))

Curtailed == answer.spent \/ answer.cut

\* An evaluation gives the value that the equations give, and no other, and
\* it misses none unless it ran out of steps or of depth: neither the order
\* of the demands, nor what is remembered of a local that was met on a cycle,
\* nor the activations of a call within its own arguments show in it.
AnswersAreExact ==
    query.op # "none" =>
        \/ answer.v = Expected
        \/ answer.v = Nothing /\ (Curtailed \/ (query.op = "width" /\ ~PlainHir))
        \/ ~(OneSite /\ AllSearched)

\* A width that is reported for having no value has none whatever the
\* generics and the inputs are: monomorphisation could not have given it one.
FailuresAreFinal ==
    query.op = "width" /\ answer.verdict = "failed" /\ ~Curtailed /\ OneSite /\ AllSearched /\ PlainHir =>
        \A generics \in GenericArgs, v \in InputValues :
            LET d == query.d
                bind == [l \in 1 .. hir[d].locals |->
                            IF l <= Len(hir[d].params) /\ hir[d].params[l] = "in" THEN Int1(v) ELSE Nothing]
                c == Activation(hir, d, bind, generics, RefCalls)
            IN  Meaning(c, Solved(c), hir[d].widths[query.x]) = Nothing

\* Taking the arms of the `const if`s that are known leaves a def the value
\* and the outputs it had, for every choice of the generics and the inputs.
FoldsKeepMeaning ==
    mir # <<>> /\ query.op = "none" /\ OneSite =>
        \A d \in DOMAIN hir, generics \in GenericArgs, v \in InputValues :
            LET bind == [l \in 1 .. hir[d].locals |->
                            IF l <= Len(hir[d].params) /\ hir[d].params[l] = "in" THEN Int1(v) ELSE Nothing]
                was == Activation(hir, d, bind, generics, RefCalls)
                is == Activation(mir, d, bind, generics, RefCalls)
                Same(a, b) == /\ MeaningOf(was, a, hir[d].block) = MeaningOf(is, b, mir[d].block)
                              /\ \A l \in DOMAIN hir[d].params : a[l] = b[l]
            IN  Same(Solved(was), Solved(is))


\* An evaluation that ends says what the equations say: the value it gives is
\* theirs, and a width it refuses has none in any instance.
AnswersAreRight == AnswersAreExact /\ FailuresAreFinal
=============================================================================
