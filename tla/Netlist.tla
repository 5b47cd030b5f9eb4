------------------------------ MODULE Netlist ------------------------------
(***************************************************************************)
(* The SystemVerilog items of backend/ir.rs and what the text they print   *)
(* means: a module is elaborated (generate blocks unrolled, parameters     *)
(* bound), and every net has a value at every tick, computed on demand     *)
(* from what drives it.  A name is a sequence of words, `x__valid` is      *)
(* <<"x", "valid">>.  Data are numbers; an unpacked array is a sequence.   *)
(***************************************************************************)
EXTENDS Integers, Sequences, SequencesExt, FiniteSets, TLC

Undef == -1                       \* the value of what nobody drives

(***************************************************************************)
(* Expressions, as the backend builds them.                                *)
(***************************************************************************)
Id(name) == [k |-> "id", name |-> name]
Lit(v) == [k |-> "lit", v |-> v]
At(e, i) == [k |-> "at", e |-> e, i |-> i]                  \* e[i]
Part(e, lo, w) == [k |-> "part", e |-> e, lo |-> lo, w |-> w]  \* e[lo +: w]
Pattern(es) == [k |-> "pattern", es |-> es]                 \* '{a, b}
Repeat(n, e) == [k |-> "repeat", n |-> n, e |-> e]          \* '{n{e}}
Fill(dims) == [k |-> "fill", dims |-> dims]                 \* '0, '{default: '0}
Minus(a, b) == [k |-> "minus", a |-> a, b |-> b]
Equal(a, b) == [k |-> "equal", a |-> a, b |-> b]
Not(a) == [k |-> "not", a |-> a]                            \* a == 1'b0
Both(a, b) == [k |-> "both", a |-> a, b |-> b]              \* a && b
Apply(es) == [k |-> "apply", es |-> es]                     \* a verilog expression
Marker == [k |-> "marker"]                                  \* a failing comment

(* What an opaque operation computes: any two different argument lists give *)
(* different numbers often enough to tell a wrong connection.               *)
Mix(vs) == FoldLeft(LAMBDA acc, v : (acc * 7 + v * 3 + 5) % 101, 1, vs)
Holds(v) == v % 2 = 1

RECURSIVE Blank(_, _)
Blank(dims, v) == IF dims = <<>> THEN v
                  ELSE [i \in 1..Head(dims) |-> Blank(Tail(dims), v)]

(* The identifier an assignment's target starts from. *)
RECURSIVE Root(_)
Root(e) == IF e.k \in {"at", "part"} THEN Root(e.e) ELSE e.name

IsTarget(e) == \/ e.k = "id"
               \/ e.k \in {"at", "part"} /\ (e.e.k = "id" \/ e.e.e.k = "id")

(***************************************************************************)
(* Elaboration: the items of a module as a flat sequence of entries, each  *)
(* in its generate scope and under the parameters, localparams and genvars *)
(* it sees.                                                                *)
(***************************************************************************)
RECURSIVE Constant(_, _)
Constant(e, env) ==
  CASE e.k = "lit"   -> e.v
    [] e.k = "id"    -> IF e.name \in DOMAIN env THEN env[e.name] ELSE 0
    [] e.k = "minus" -> Constant(e.a, env) - Constant(e.b, env)
    [] e.k = "equal" -> IF Constant(e.a, env) = Constant(e.b, env) THEN 1 ELSE 0
    [] OTHER         -> 0

Entry(it, scope, env) == [it |-> it, scope |-> scope, env |-> env]

RECURSIVE Elaborate(_, _, _)
Elaborate(items, scope, env) ==
  IF items = <<>> THEN <<>>
  ELSE LET it == Head(items) IN
       CASE it.k = "for" ->
              FlattenSeq([i \in 1..Constant(it.bound, env) |->
                Elaborate(it.items, Append(scope, [label |-> it.label, i |-> i]),
                          (it.var :> i - 1) @@ env)])
              \o Elaborate(Tail(items), scope, env)
         [] it.k = "gif" ->
              Elaborate(IF Constant(it.cond, env) # 0 THEN it.then ELSE it.else,
                        Append(scope, [label |-> it.label, i |-> 0]), env)
              \o Elaborate(Tail(items), scope, env)
         [] it.k = "lparam" ->
              <<Entry(it, scope, env)>>
              \o Elaborate(Tail(items), scope, (it.name :> Constant(it.value, env)) @@ env)
         [] OTHER -> <<Entry(it, scope, env)>> \o Elaborate(Tail(items), scope, env)

(* One instance of a module: its entries, and where it is instantiated.     *)
(* Every input leaf of the top module carries a stimulus of its own.        *)
Design(mods, m, env, seed, up, at) ==
  [mods |-> mods, m |-> m, env |-> env, seed |-> seed, up |-> up, at |-> at,
   flat |-> Elaborate(m.items, <<>>, env)]
Top(mods, m, env, seed) == Design(mods, m, env, seed, <<>>, <<>>)
ModuleNamed(mods, name) == CHOOSE m \in ToSet(mods) : m.name = name
Child(x, en) ==
  LET pars == en.it.pars
      bound(n) == pars[CHOOSE i \in DOMAIN pars : pars[i].name = n].e
  IN Design(x.mods, ModuleNamed(x.mods, en.it.module),
            [n \in {pars[i].name : i \in DOMAIN pars} |-> Constant(bound(n), en.env)],
            x.seed, <<x>>, <<en>>)

(* The nets of an instance: its ports, and its `logic`s in their scopes. *)
Net(scope, name) == [scope |-> scope, name |-> name]
PortNets(x) == {Net(<<>>, x.m.ports[i].name) : i \in DOMAIN x.m.ports}
LogicNets(x) == {Net(x.flat[i].scope, x.flat[i].it.name) :
                   i \in {j \in DOMAIN x.flat : x.flat[j].it.k = "logic"}}
Nets(x) == PortNets(x) \cup LogicNets(x)

(* An identifier means the innermost net of that name around it. *)
Around(scope) == {SubSeq(scope, 1, n) : n \in 0..Len(scope)}
Seen(x, scope, name) == {n \in Nets(x) : n.name = name /\ n.scope \in Around(scope)}
Resolve(x, scope, name) ==
  CHOOSE n \in Seen(x, scope, name) :
    \A o \in Seen(x, scope, name) : Len(o.scope) <= Len(n.scope)

PortOf(x, name) == x.m.ports[CHOOSE i \in DOMAIN x.m.ports : x.m.ports[i].name = name]
IsInput(x, n) == /\ n \in PortNets(x)
                 /\ PortOf(x, n.name).dir = "input"
DimsOf(x, n) ==
  LET en == CHOOSE e \in ToSet(x.flat) : e.it.k = "logic" /\ Net(e.scope, e.it.name) = n
      sized(dims, env) == [i \in DOMAIN dims |-> Constant(dims[i], env)]
  IN IF n \in PortNets(x) THEN sized(PortOf(x, n.name).dims, x.env)
     ELSE sized(en.it.dims, en.env)

Targets(x, en, lhs, n) ==
  /\ IsTarget(lhs)
  /\ Seen(x, en.scope, Root(lhs)) # {}
  /\ Resolve(x, en.scope, Root(lhs)) = n

(***************************************************************************)
(* Values.  Expressions inside an `always_comb` see what the block has     *)
(* assigned so far (the store); nonblocking assignments do not.            *)
(***************************************************************************)
RECURSIVE Meaning(_, _, _, _, _)
ExprVal(x, en, store, e, t) == Meaning(x, en, store, e, t)
NetVal(x, n, t) == ExprVal(x, <<>>, <<>>, [k |-> "net", n |-> n], t)

Read(a, i) == IF i + 1 \in DOMAIN a THEN a[i + 1] ELSE Undef

(* The value `old` of a net after `v` is written to the part of it a target *)
(* names.                                                                   *)
RECURSIVE Put(_, _, _, _, _, _, _)
Put(x, en, store, lhs, old, v, t) ==
  LET i  == ExprVal(x, en, store, lhs.i, t) + 1
      lo == ExprVal(x, en, store, lhs.lo, t)
      inner == IF lhs.e.k = "id" THEN old
               ELSE Read(old, ExprVal(x, en, store, lhs.e.i, t))
  IN CASE lhs.k = "id" -> v
       [] lhs.k = "at" ->
            Put(x, en, store, lhs.e, old, [inner EXCEPT ![i] = v], t)
       [] lhs.k = "part" ->
            Put(x, en, store, lhs.e, old,
                [j \in DOMAIN inner |-> IF j > lo /\ j <= lo + Len(v) THEN v[j - lo]
                                        ELSE inner[j]], t)

Before(x, store, n) ==
  IF n \in DOMAIN store THEN store[n] ELSE Blank(DimsOf(x, n), Undef)
Write(x, en, store, lhs, v, t) ==
  LET n == Resolve(x, en.scope, Root(lhs))
  IN (n :> Put(x, en, store, lhs, Before(x, store, n), v, t)) @@ store

(* An `always_comb` block: blocking assignments, one after the other. *)
RECURSIVE Run(_, _, _, _, _)
Run(x, en, store, stmts, t) ==
  IF stmts = <<>> THEN store
  ELSE LET st == Head(stmts)
           now == CASE st.k = "assign" ->
                         Write(x, en, store, st.lhs, ExprVal(x, en, store, st.rhs, t), t)
                    [] st.k = "if" ->
                         Run(x, en, store, IF Holds(ExprVal(x, en, store, st.cond, t))
                                           THEN st.then ELSE st.else, t)
                    [] st.k = "loop" ->
                         FoldLeft(LAMBDA acc, i :
                                    Run(x, [en EXCEPT !.env = (st.var :> i - 1) @@ @],
                                        acc, st.body, t),
                                  store, [i \in 1..Constant(st.bound, en.env) |-> i])
       IN Run(x, en, now, Tail(stmts), t)

RECURSIVE Assigned(_)
Assigned(stmts) ==
  FlattenSeq([i \in DOMAIN stmts |->
    CASE stmts[i].k = "assign" -> <<stmts[i].lhs>>
      [] stmts[i].k = "if"     -> Assigned(stmts[i].then) \o Assigned(stmts[i].else)
      [] stmts[i].k = "loop"   -> Assigned(stmts[i].body)])

(* The targets an item writes; an instance writes through the connections  *)
(* of its module's outputs.                                                *)
Outputs(x, it) ==
  LET m == ModuleNamed(x.mods, it.module)
      outs == {m.ports[i].name : i \in {j \in DOMAIN m.ports : m.ports[j].dir = "output"}}
  IN SelectSeq(it.conns, LAMBDA c : c.port \in outs)
Writes(x, it) ==
  CASE it.k = "assign" -> <<it.lhs>>
    [] it.k = "comb"   -> Assigned(it.body)
    [] it.k = "ff"     -> [i \in DOMAIN it.body |-> it.body[i].lhs]
    [] it.k = "inst"   -> [i \in DOMAIN Outputs(x, it) |-> Outputs(x, it)[i].e]
    [] OTHER           -> <<>>
Drives(x, en, n) == \E lhs \in ToSet(Writes(x, en.it)) : Targets(x, en, lhs, n)

(* What one item leaves on a net. *)
Driven(x, en, n, store, t) ==
  CASE en.it.k = "assign" ->
         Write(x, en, store, en.it.lhs, ExprVal(x, en, <<>>, en.it.rhs, t), t)
    [] en.it.k = "comb" -> Run(x, en, store, en.it.body, t)
    [] en.it.k = "inst" ->
         FoldLeft(LAMBDA acc, c :
                    IF ~Targets(x, en, c.e, n) THEN acc
                    ELSE Write(x, en, acc, c.e,
                               NetVal(Child(x, en), Net(<<>>, c.port), t), t),
                  store, Outputs(x, en.it))

(* A register: its initial value, and at each tick of its clock the reset   *)
(* body when the (active-low) reset is low, else the guarded clocked body.  *)
Clocked(x, en, n, old, t) ==
  LET val(e) == ExprVal(x, en, <<>>, e, t)
      low == en.it.reset # <<>> /\ ~Holds(val(en.it.reset[1]))
      step(v, a) ==
        IF /\ Targets(x, en, a.lhs, n)
           /\ a.guard = <<>> \/ Holds(val(a.guard[1]))
        THEN Put(x, en, <<>>, a.lhs, v, val(a.rhs), t) ELSE v
  IN IF Holds(val(Id(en.it.clock)))
     THEN FoldLeft(step, old, IF low THEN en.it.rbody ELSE en.it.body)
     ELSE old
PowerUp(x, n) ==
  LET inits == SelectSeq(x.flat, LAMBDA en : en.it.k = "initial")
      from(v, en) ==
        FoldLeft(LAMBDA w, a : IF Targets(x, en, a.lhs, n)
                               THEN Put(x, en, <<>>, a.lhs, w, ExprVal(x, en, <<>>, a.rhs, 0), 0)
                               ELSE w, v, en.it.assigns)
  IN FoldLeft(from, Blank(DimsOf(x, n), 0), inits)

(* The stimulus of an input: one number for each leaf, element and tick. *)
Stimulus(seed, i, dims, t) ==
  LET at(j) == ((seed + 3) * (i + 5) * (t + 7) + i * i * t + 13 * j + (i + j) \div 2) % 101
  IN CASE dims = <<>>   -> at(0)
       [] Len(dims) = 1 -> [j \in 1..dims[1] |-> at(j)]
       [] OTHER         -> [h \in 1..dims[1] |-> [j \in 1..dims[2] |-> at(4 * h + j)]]

NetOf(x, n, t) ==
  LET by == SelectSeq(x.flat, LAMBDA en : Drives(x, en, n))
      conns == SelectSeq(x.at[1].it.conns, LAMBDA c : c.port = n.name)
      store == FoldLeft(LAMBDA st, en : Driven(x, en, n, st, t), <<>>, by)
  IN CASE IsInput(x, n) /\ x.up = <<>> ->
            Stimulus(x.seed, CHOOSE i \in DOMAIN x.m.ports : x.m.ports[i].name = n.name,
                     DimsOf(x, n), t)
       [] IsInput(x, n) /\ x.up # <<>> ->
            IF conns = <<>> THEN Undef
            ELSE ExprVal(x.up[1], x.at[1], <<>>, conns[1].e, t)
       [] ~IsInput(x, n) /\ by = <<>> -> Blank(DimsOf(x, n), Undef)
       [] ~IsInput(x, n) /\ by # <<>> /\ by[1].it.k = "ff" ->
            IF t = 0 THEN PowerUp(x, n) ELSE Clocked(x, by[1], n, NetVal(x, n, t - 1), t - 1)
       [] OTHER -> Before(x, store, n)

Meaning(x, en, store, e, t) ==
  CASE e.k = "net" -> NetOf(x, e.n, t)
    [] e.k = "lit" -> e.v
    [] e.k = "id" ->
         IF e.name \in DOMAIN en.env THEN en.env[e.name]
         ELSE IF Seen(x, en.scope, e.name) = {} THEN Undef
         ELSE LET n == Resolve(x, en.scope, e.name)
              IN IF n \in DOMAIN store THEN store[n] ELSE NetVal(x, n, t)
    [] e.k = "at" -> Read(ExprVal(x, en, store, e.e, t), ExprVal(x, en, store, e.i, t))
    [] e.k = "part" ->
         LET lo == ExprVal(x, en, store, e.lo, t)
         IN SubSeq(ExprVal(x, en, store, e.e, t), lo + 1, lo + Constant(e.w, en.env))
    [] e.k = "pattern" -> [i \in DOMAIN e.es |-> ExprVal(x, en, store, e.es[i], t)]
    [] e.k = "repeat" ->
         LET v == ExprVal(x, en, store, e.e, t)
         IN [i \in 1..Constant(e.n, en.env) |-> v]
    [] e.k = "fill" ->
         Blank([i \in DOMAIN e.dims |-> Constant(e.dims[i], en.env)], 0)
    [] e.k = "not" -> IF Holds(ExprVal(x, en, store, e.a, t)) THEN 0 ELSE 1
    [] e.k = "both" ->
         IF /\ Holds(ExprVal(x, en, store, e.a, t))
            /\ Holds(ExprVal(x, en, store, e.b, t)) THEN 1 ELSE 0
    [] e.k = "apply" -> Mix([i \in DOMAIN e.es |-> ExprVal(x, en, store, e.es[i], t)])
    [] e.k = "minus" -> Constant(e, en.env)
    [] OTHER -> Undef

(***************************************************************************)
(* Well-formed modules.                                                    *)
(***************************************************************************)
RECURSIVE Cells(_)
Cells(dims) ==
  IF dims = <<>> THEN {<<>>}
  ELSE {<<i>> \o c : i \in 1..Head(dims), c \in Cells(Tail(dims))}

(* The cells of a net one item drives: all of a register, else those its    *)
(* targets name.                                                            *)
CellsOf(x, en, n) ==
  LET all == Cells(DimsOf(x, n))
      val(e) == Constant(e, en.env)
      within(lhs) == CASE lhs.k = "id" -> all
                       [] lhs.k = "at" /\ lhs.e.k = "id" -> {c \in all : c[1] = val(lhs.i) + 1}
                       [] lhs.k = "at" /\ lhs.e.k = "at" ->
                            {c \in all : c[1] = val(lhs.e.i) + 1 /\ c[2] = val(lhs.i) + 1}
                       [] lhs.k = "part" ->
                            {c \in all : c[1] > val(lhs.lo) /\ c[1] <= val(lhs.lo) + val(lhs.w)}
  IN IF en.it.k \in {"ff", "comb"} THEN IF Drives(x, en, n) THEN all ELSE {}
     ELSE UNION {within(lhs) : lhs \in {w \in ToSet(Writes(x, en.it)) : Targets(x, en, w, n)}}

(* No input is driven, and every cell of every other net by one item. *)
EachDrivenOnce(x) ==
  \A n \in Nets(x) :
    \A c \in Cells(DimsOf(x, n)) :
      Cardinality({i \in DOMAIN x.flat : c \in CellsOf(x, x.flat[i], n)})
        = (IF IsInput(x, n) THEN 0 ELSE 1)

(* The identifiers an expression and an item read. *)
RECURSIVE Names(_)
Names(e) ==
  CASE e.k = "id" -> {e.name}
    [] e.k = "at" -> Names(e.e) \cup Names(e.i)
    [] e.k = "part" -> Names(e.e) \cup Names(e.lo) \cup Names(e.w)
    [] e.k \in {"pattern", "apply"} -> UNION {Names(e.es[i]) : i \in DOMAIN e.es}
    [] e.k = "repeat" -> Names(e.e) \cup Names(e.n)
    [] e.k = "fill" -> UNION {Names(e.dims[i]) : i \in DOMAIN e.dims}
    [] e.k = "not" -> Names(e.a)
    [] e.k \in {"minus", "equal", "both"} -> Names(e.a) \cup Names(e.b)
    [] OTHER -> {}
NamesAll(es) == UNION {Names(es[i]) : i \in DOMAIN es}
RECURSIVE StmtNames(_)
StmtNames(stmts) ==
  UNION {CASE stmts[i].k = "assign" -> Names(stmts[i].lhs) \cup Names(stmts[i].rhs)
           [] stmts[i].k = "if" -> Names(stmts[i].cond) \cup StmtNames(stmts[i].then)
                                   \cup StmtNames(stmts[i].else)
           [] stmts[i].k = "loop" -> Names(stmts[i].bound)
                                     \cup (StmtNames(stmts[i].body) \ {stmts[i].var})
           : i \in DOMAIN stmts}
SeqNames(as) ==
  UNION {Names(as[i].lhs) \cup Names(as[i].rhs) \cup NamesAll(as[i].guard) : i \in DOMAIN as}
Reads(it) ==
  CASE it.k = "assign" -> Names(it.lhs) \cup Names(it.rhs)
    [] it.k = "comb" -> StmtNames(it.body)
    [] it.k = "ff" -> {it.clock} \cup NamesAll(it.reset) \cup SeqNames(it.rbody)
                      \cup SeqNames(it.body)
    [] it.k = "initial" -> SeqNames(it.assigns)
    [] it.k = "inst" -> UNION {Names(it.conns[i].e) : i \in DOMAIN it.conns}
                        \cup UNION {Names(it.pars[i].e) : i \in DOMAIN it.pars}
    [] it.k = "logic" -> Names(it.w) \cup NamesAll(it.dims)
    [] it.k = "lparam" -> Names(it.value)
    [] it.k = "for" -> Names(it.bound)
    [] OTHER -> {}

(* A scope declares a name once, and what an item reads has been declared   *)
(* before it, in a scope around it.                                         *)
Declares(en) == CASE en.it.k \in {"logic", "lparam", "inst"} -> {en.it.name}
                  [] OTHER -> {}
NamesResolve(x) ==
  /\ \A i, j \in DOMAIN x.m.ports : x.m.ports[i].name = x.m.ports[j].name => i = j
  /\ \A i \in DOMAIN x.flat :
       LET en == x.flat[i] IN
       /\ \A name \in Declares(en) :
            /\ ~\E j \in 1..(i - 1) : /\ x.flat[j].scope = en.scope
                                      /\ name \in Declares(x.flat[j])
            /\ en.scope = <<>> => Net(<<>>, name) \notin PortNets(x)
       /\ \A name \in Reads(en.it) :
            \/ name \in DOMAIN en.env
            \/ Net(<<>>, name) \in PortNets(x)
            \/ \E j \in 1..(i - 1) : /\ x.flat[j].it.k \in {"logic", "lparam"}
                                    /\ x.flat[j].it.name = name
                                    /\ x.flat[j].scope \in Around(en.scope)
=============================================================================
