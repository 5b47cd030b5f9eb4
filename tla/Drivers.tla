------------------------------ MODULE Drivers ------------------------------
(***************************************************************************)
(* The single-assignment checks of a body (hir/check.rs): the walk that    *)
(* collects what drives each local (count_block), check_drivers, which     *)
(* looks for none or for two of the same place, and completeness, which    *)
(* looks for leaves of the type that nothing drives.                       *)
(*                                                                         *)
(* A body is an arena: expressions, as in the code, but also statements    *)
(* and blocks, which the code nests, refer to each other, and to entries   *)
(* of a table of types, by number.                                         *)
(* The recursion of the walk is the list `todo`, in the order of its calls.*)
(***************************************************************************)
EXTENDS Integers, Sequences, FiniteSets

CONSTANTS
    Bodies,    \* the bodies to check
    MaxDepth,  \* the depth at which struct_leaf_paths stops (16)
    Runtime,   \* an end of a slice that is no number ("?")
    Elided     \* an end of a slice that is not written

(* A place within a local is a path of segments; a path of segments of the *)
(* kinds "field" and "at" alone is an element or a leaf of it.             *)
Field(f) == [kind |-> "field", lo |-> f, hi |-> f]
At(k)    == [kind |-> "at", lo |-> k, hi |-> k]
End  == Nat \cup {Runtime, Elided}
Cut  == [kind : {"range", "offset"}, lo : End, hi : End]
Seg  == {Field(f) : f \in Nat} \cup {At(k) : k \in Nat} \cup Cut
Path == Seq(Seg)

(* An argument or record field in `outs` is an out-connection (`=>`).      *)
(* "slice" has the kids base, lo, hi and "offset" base, lo, width, 0 where *)
(* there is none; "method" has its receiver first; "other" is a tuple, a   *)
(* vector, an intrinsic: what the walk does not look into.                 *)
Expr == [op : {"local", "number", "field", "index", "slice", "offset", "if",
               "when", "block", "record", "method", "call", "other"},
         val : Nat, kids : Seq(Nat), outs : SUBSET Nat, blocks : Seq(Nat)]
Stmt == [op : {"equation", "let", "return", "expr", "var", "for", "when"},
         lhs : Nat, rhs : Nat, block : Nat]
Block == [stmts : Seq(Nat), tail : Nat]

(* "out" is a parameter of that direction; "part" a type whose leaves    *)
(* are not known here (a port, a vector of a length that is no literal).   *)
Type  == [kind : {"bits", "integer", "part", "struct", "vec"},
          of : Seq(Nat), len : Nat]
Local == [kind : {"var", "let", "param", "out", "for"}, mutable : BOOLEAN, ty : Nat]

Body == [locals : Seq(Local), types : Seq(Type), exprs : Seq(Expr),
         stmts : Seq(Stmt), blocks : Seq(Block)]

(* An arena is filled from the leaves up: an expression refers to those    *)
(* before it, a type to those before it. Only an end of a slice is 0.      *)
Refers(b) ==
    /\ \A e \in DOMAIN b.exprs :
         LET x == b.exprs[e] IN
         /\ x.op = "local" => x.val \in DOMAIN b.locals
         /\ \A i \in DOMAIN x.kids :
               x.kids[i] \in (IF x.op \in {"slice", "offset"} /\ i > 1 THEN 0 ELSE 1) .. e - 1
         /\ x.op = "field" => Len(x.kids) = 1
         /\ x.op = "index" => Len(x.kids) = 2
         /\ x.op \in {"slice", "offset"} => Len(x.kids) = 3
         /\ x.outs \subseteq DOMAIN x.kids
         /\ x.outs # {} => x.op \in {"record", "method", "call"}
         /\ \A i \in DOMAIN x.blocks : x.blocks[i] \in DOMAIN b.blocks
         /\ x.blocks # <<>> => x.op \in {"if", "when", "block"}
    /\ \A n \in DOMAIN b.stmts :
         LET s == b.stmts[n] IN
         /\ s.op = "equation" => s.lhs \in DOMAIN b.exprs
         /\ s.op # "var" => s.rhs \in DOMAIN b.exprs
         /\ s.op \in {"for", "when"} => s.block \in DOMAIN b.blocks
    /\ \A k \in DOMAIN b.blocks :
         /\ \A i \in DOMAIN b.blocks[k].stmts : b.blocks[k].stmts[i] \in DOMAIN b.stmts
         /\ b.blocks[k].tail \in 0 .. Len(b.exprs)
    /\ \A t \in DOMAIN b.types :
         /\ \A i \in DOMAIN b.types[t].of : b.types[t].of[i] \in 1 .. t - 1
         /\ b.types[t].kind = "vec" => b.types[t].of # <<>>
         /\ b.types[t].kind = "part" /\ b.types[t].len > 0 => b.types[t].of # <<>>
    /\ \A l \in DOMAIN b.locals : b.locals[l].ty \in DOMAIN b.types

(* The nodes of a body, and what each holds: a block its statements and    *)
(* its value, a statement its place, value and block, an expression its    *)
(* kids and blocks.                                                        *)
Members(seq) == {seq[i] : i \in DOMAIN seq}
Only(S, cond) == IF cond THEN S ELSE {}
Nodes(b) == ({"block"} \X DOMAIN b.blocks) \cup ({"stmt"} \X DOMAIN b.stmts)
                \cup ({"expr"} \X DOMAIN b.exprs)
Holds(b, n) ==
    LET k == b.blocks[n[2]]
        s == b.stmts[n[2]]
        e == b.exprs[n[2]]
        Those(kind, ids) == {kind} \X (ids \ {0})
    IN  CASE n[1] = "block" -> Those("stmt", Members(k.stmts)) \cup Those("expr", {k.tail})
          [] n[1] = "stmt"  -> Those("expr", Only({s.lhs}, s.op = "equation") \cup Only({s.rhs}, s.op # "var"))
                                 \cup Those("block", Only({s.block}, s.op \in {"for", "when"}))
          [] n[1] = "expr"  -> Those("expr", Members(e.kids)) \cup Those("block", Members(e.blocks))
Reached(b) ==
    LET size == Len(b.blocks) + Len(b.stmts) + Len(b.exprs)
        reached[d \in 0 .. size] ==
            IF d = 0 THEN {<<"block", Len(b.blocks)>>}
            ELSE UNION {{n} \cup Holds(b, n) : n \in reached[d - 1]}
    IN  reached[size]

(* It is a tree: a node is held once, a block and a statement by the code's *)
(* ownership of them, an expression as it is allocated for its place. The   *)
(* function's block holds it all, but for expressions that drive nothing,   *)
(* and a block comes after those in its statements' values.                 *)
Once(seq) == \A i, j \in DOMAIN seq : seq[i] = seq[j] /\ seq[i] # 0 => i = j
Tree(b) ==
    /\ LET held == [n \in Nodes(b) |-> Holds(b, n)]
       IN  \A n, m \in Nodes(b) : n # m => held[n] \cap held[m] = {}
    /\ \A n \in Nodes(b) : <<"block", Len(b.blocks)>> \notin Holds(b, n)
    /\ \A k \in DOMAIN b.blocks : Once(b.blocks[k].stmts)
    /\ \A n \in DOMAIN b.stmts : b.stmts[n].op = "equation" => b.stmts[n].lhs # b.stmts[n].rhs
    /\ \A e \in DOMAIN b.exprs : Once(b.exprs[e].kids) /\ Once(b.exprs[e].blocks)
    /\ {n \in Nodes(b) : n[1] = "expr" => b.exprs[n[2]].outs # {}} \subseteq Reached(b)
    /\ \A k \in DOMAIN b.blocks : \A i \in DOMAIN b.blocks[k].stmts :
         LET s == b.stmts[b.blocks[k].stmts[i]]
         IN  s.op # "var" => \A j \in DOMAIN b.exprs[s.rhs].blocks : b.exprs[s.rhs].blocks[j] < k

ASSUME BodiesAssumption ==
    \A b \in Bodies :
        /\ b.locals \in Seq(Local) /\ b.types \in Seq(Type)
        /\ b.exprs \in Seq(Expr) /\ b.stmts \in Seq(Stmt)
        /\ b.blocks \in Seq(Block) /\ b.blocks # <<>>
        /\ Refers(b) /\ Tree(b)
ASSUME EndsAssumption ==
    Runtime \notin Int /\ Elided \notin Int /\ Runtime # Elided /\ MaxDepth \in Nat

VARIABLES
    body,
    todo,    \* the calls of the walk that are due, the next one first
    driven,  \* collect_when_drives: the locals driven, innermost `when` first
    drives,  \* the paths counted for each local
    pc,      \* "walk", then "check", then "done"
    at,      \* the local to check next
    diags

vars == <<body, todo, driven, drives, pc, at, diags>>

Diag == [kind : {"undriven", "multiple", "undriven out", "undriven field"},
         local : Nat, path : Path]

Task == [call : {"block", "stmt", "expr", "collect", "guarded", "bind"}, id : Nat]

(* The block of the function is the last one of the arena. *)
Top == Len(body.blocks)

----------------------------------------------------------------------------
(* Places.  Kids come before their parents in the arena.                   *)
Nowhere == [local |-> 0, path |-> <<>>]

(* index_uses_forbound *)
UsesForBound ==
    LET E == body.exprs
        uses[e \in DOMAIN E] ==
            \/ E[e].op = "local" /\ body.locals[E[e].val].kind = "for"
            \/ /\ E[e].op \in {"method", "index", "field"}
               /\ \E i \in DOMAIN E[e].kids : uses[E[e].kids[i]]
    IN  uses

(* slice_seg: the ends that are literals. *)
SliceSeg(kind, lo, hi) ==
    LET part(e) == IF e = 0 THEN Elided
                   ELSE IF body.exprs[e].op = "number" THEN body.exprs[e].val
                   ELSE Runtime
    IN  [kind |-> kind, lo |-> part(lo), hi |-> part(hi)]

(* place_of, from the places of the expressions within e.  An index by a    *)
(* `for` variable stands for the whole place.                              *)
Further(p, seg) == IF p = Nowhere THEN p ELSE [p EXCEPT !.path = Append(@, seg)]
PlaceIn(place, e) ==
    LET E == body.exprs
        k == E[e].kids
    IN  CASE E[e].op = "local"  -> [local |-> E[e].val, path |-> <<>>]
          [] E[e].op = "field"  -> Further(place[k[1]], Field(E[e].val))
          [] E[e].op = "index"  ->
                IF E[k[2]].op = "number" THEN Further(place[k[1]], At(E[k[2]].val))
                ELSE IF UsesForBound[k[2]] THEN place[k[1]] ELSE Nowhere
          [] E[e].op = "slice"  -> Further(place[k[1]], SliceSeg("range", k[2], k[3]))
          [] E[e].op = "offset" -> Further(place[k[1]], SliceSeg("offset", k[2], k[3]))
          [] OTHER -> Nowhere
PlaceOf ==
    LET place[e \in DOMAIN body.exprs] == PlaceIn(place, e)
    IN  place

(* root_local, 0 for none: slices are not looked through. *)
RootLocal ==
    LET E == body.exprs
        root[e \in DOMAIN E] ==
            IF E[e].op = "local" THEN E[e].val
            ELSE IF E[e].op \in {"field", "index"} THEN root[E[e].kids[1]] ELSE 0
    IN  root

----------------------------------------------------------------------------
(* seg_range: whichever end is written first; none unless both are known.  *)
Known(s) == s.kind # "field" /\ s.lo \in Int /\ s.hi \in Int
Low(s)   == IF s.kind = "range" /\ s.hi < s.lo THEN s.hi ELSE s.lo
High(s)  == CASE s.kind = "at"     -> s.lo + 1
              [] s.kind = "offset" -> s.lo + s.hi
              [] OTHER -> IF s.hi < s.lo THEN s.lo ELSE s.hi

(* Mutants: ranges that share one index at their ends are disjoint; ranges *)
(* that touch overlap.                                                     *)
OverlapInside(s, t) ==
    Known(s) /\ Known(t) /\ Low(s) < High(t) - 1 /\ Low(t) < High(s) - 1
OverlapTouching(s, t) ==
    Known(s) /\ Known(t) /\ Low(s) <= High(t) /\ Low(t) <= High(s)
Overlap(s, t) ==
    Known(s) /\ Known(t) /\ Low(s) < High(t) /\ Low(t) < High(s)

(* paths_conflict: the first segments that differ decide. *)
PathsConflict(p, q) ==
    \A i \in DOMAIN p \cap DOMAIN q :
        (p[i] # q[i] /\ \A j \in 1 .. i - 1 : p[j] = q[j]) => Overlap(p[i], q[i])

----------------------------------------------------------------------------
(* The walk.  Of the places es[i] with i in `which`, the paths within l.   *)
Paths(l, es, which) ==
    LET paths[i \in 0 .. Len(es)] ==
            IF i = 0 THEN <<>>
            ELSE IF i \in which /\ PlaceOf[es[i]].local = l
            THEN Append(paths[i - 1], PlaceOf[es[i]].path) ELSE paths[i - 1]
    IN  paths[Len(es)]
CountPlaces(es, which) ==
    drives' = [l \in DOMAIN drives |-> drives[l] \o Paths(l, es, which)]

Calls(call, ids) == [i \in DOMAIN ids |-> [call |-> call, id |-> ids[i]]]
Next1 == Head(todo)
Rest  == Tail(todo)

(* count_block *)
CountBlock ==
    /\ todo # <<>> /\ Next1.call = "block"
    /\ LET b == body.blocks[Next1.id]
           tail == IF b.tail = 0 THEN <<>> ELSE <<b.tail>>
       IN  todo' = Calls("stmt", b.stmts) \o Calls("expr", tail) \o Rest
    /\ UNCHANGED <<body, driven, drives, pc, at, diags>>

Stmt1 == body.stmts[Next1.id]
AtStmt(op) == todo # <<>> /\ Next1.call = "stmt" /\ Stmt1.op = op

Equation ==
    /\ AtStmt("equation")
    /\ CountPlaces(<<Stmt1.lhs>>, {1})
    /\ todo' = Calls("expr", <<Stmt1.lhs, Stmt1.rhs>>) \o Rest
    /\ UNCHANGED <<body, driven, pc, at, diags>>

(* A `var` counts nothing; a `for` counts its range; a `when` its event,   *)
(* and begins a set of driven locals.                                      *)
OtherStmt ==
    /\ \/ /\ AtStmt("let") \/ AtStmt("return") \/ AtStmt("expr")
          /\ todo' = Calls("expr", <<Stmt1.rhs>>) \o Rest /\ UNCHANGED driven
       \/ AtStmt("var") /\ todo' = Rest /\ UNCHANGED driven
       \/ /\ AtStmt("for")
          /\ todo' = Calls("expr", <<Stmt1.rhs>>) \o Calls("block", <<Stmt1.block>>) \o Rest
          /\ UNCHANGED driven
       \/ /\ AtStmt("when")
          /\ todo' = Calls("expr", <<Stmt1.rhs>>) \o Calls("collect", <<Stmt1.block>>)
                        \o Calls("bind", <<Next1.id>>) \o Rest
          /\ driven' = <<{}>> \o driven
    /\ UNCHANGED <<body, drives, pc, at, diags>>

(* collect_when_drives: its statements, with no tail. *)
(* Mutant: they are counted like those of any block.                       *)
CollectAsBlock ==
    /\ todo # <<>> /\ Next1.call = "collect"
    /\ todo' = Calls("guarded", body.blocks[Next1.id].stmts)
                \o Calls("stmt", body.blocks[Next1.id].stmts) \o Rest
    /\ UNCHANGED <<body, driven, drives, pc, at, diags>>
CollectWhenDrives ==
    /\ todo # <<>> /\ Next1.call = "collect"
    /\ todo' = Calls("guarded", body.blocks[Next1.id].stmts) \o Rest
    /\ UNCHANGED <<body, driven, drives, pc, at, diags>>

(* The locals an equation in a `when` binds.                               *)
Binds(s) == IF s.op = "equation" THEN {RootLocal[s.lhs]} \ {0} ELSE {}

(* An `if` that is a statement guards drives; a `for`, a `when` and a      *)
(* `return` are passed over.                                               *)
GuardedStmt ==
    /\ todo # <<>> /\ Next1.call = "guarded"
    /\ LET guards == Stmt1.op = "expr" /\ body.exprs[Stmt1.rhs].op = "if"
           e == body.exprs[Stmt1.rhs]
           due == CASE guards -> Calls("expr", e.kids) \o Calls("collect", e.blocks)
                    [] ~guards /\ Stmt1.op \in {"equation", "let", "expr"} ->
                          Calls("expr", <<Stmt1.rhs>>)
                    [] OTHER -> <<>>
       IN  todo' = due \o Rest /\ driven' = [driven EXCEPT ![1] = @ \cup Binds(Stmt1)]
    /\ UNCHANGED <<body, drives, pc, at, diags>>

(* The end of a `when` statement: what its body drives it drives as one.   *)
BindWhen ==
    /\ todo # <<>> /\ Next1.call = "bind"
    /\ drives' = [l \in DOMAIN drives |->
                    IF l \in Head(driven) THEN Append(drives[l], <<>>) ELSE drives[l]]
    /\ todo' = Rest /\ driven' = Tail(driven)
    /\ UNCHANGED <<body, pc, at, diags>>

(* count_expr: blocks are counted, but no conditions and no events; the    *)
(* out-connections of calls and records drive; nothing else is looked into.*)
CountExpr ==
    /\ todo # <<>> /\ Next1.call = "expr"
    /\ LET e == body.exprs[Next1.id]
       IN  \/ /\ e.op \in {"if", "when", "block"}
              /\ todo' = Calls("block", e.blocks) \o Rest
              /\ UNCHANGED drives
           \/ /\ e.op \in {"record", "method", "call"}
              /\ CountPlaces(e.kids, e.outs)
              /\ todo' = Calls("expr", e.kids) \o Rest
           \/ /\ e.op \in {"local", "number", "field", "index", "slice", "offset", "other"}
              /\ todo' = Rest
              /\ UNCHANGED drives
    /\ UNCHANGED <<body, driven, pc, at, diags>>

Counted ==
    /\ pc = "walk" /\ todo = <<>>
    /\ pc' = "check"
    /\ UNCHANGED <<body, todo, driven, drives, at, diags>>

----------------------------------------------------------------------------
(* check_drivers, one local at a time.                                     *)
Conflicting(l) ==
    \E i, j \in DOMAIN drives[l] : i < j /\ PathsConflict(drives[l][i], drives[l][j])

DriverDiags(l) ==
    LET local == body.locals[l]
        diag(kind) == [kind |-> kind, local |-> l, path |-> <<>>]
    IN  Only({diag("undriven")}, drives[l] = <<>> /\ local.kind = "var")
        \cup Only({diag("multiple")}, ~local.mutable /\ Conflicting(l))

----------------------------------------------------------------------------
(* completeness, likewise.  struct_leaf_paths: none but for a struct or    *)
(* tuple; below MaxDepth every type is a leaf.                             *)
Leaves ==
    LET T == body.types
        leaves[t \in DOMAIN T] ==
            [depth \in 0 .. MaxDepth + 1 |->
                IF depth > MaxDepth \/ T[t].kind # "struct" THEN {}
                ELSE UNION {LET subs == leaves[T[t].of[f]][depth + 1]
                            IN  {<<Field(f)>> \o s : s \in IF subs = {} THEN {<<>>} ELSE subs} :
                            f \in DOMAIN T[t].of}]
    IN  [t \in DOMAIN T |-> leaves[t][0]]

(* vec_slice_covers, and the exact element: ends not written are those of  *)
(* the vector, a slice written high end first covers nothing.              *)
Covers(s, k, n) ==
    LET lo == IF s.lo = Elided THEN 0 ELSE s.lo
        hi == IF s.hi = Elided /\ s.kind = "range" THEN n ELSE s.hi
    IN  /\ s.kind \in {"at", "range", "offset"} /\ {lo, hi} \subseteq Int
        /\ CASE s.kind = "at"     -> k = lo
             [] s.kind = "range"  -> lo <= k /\ k < hi
             [] s.kind = "offset" -> lo <= k /\ k < lo + hi

IsPrefixOf(p, q) == Len(p) <= Len(q) /\ \A i \in DOMAIN p : p[i] = q[i]

(* Where a local that is driven in parts is not driven.                    *)
(* Mutant: a vector's elements are covered once one of them is.            *)
MissingOfAny(l) ==
    LET ps == {drives[l][i] : i \in DOMAIN drives[l]}
    IN  IF body.types[body.locals[l].ty].kind = "vec" THEN {}
        ELSE {leaf \in Leaves[body.locals[l].ty] : \A p \in ps : ~IsPrefixOf(p, leaf)}
Missing(l) ==
    LET ps == {drives[l][i] : i \in DOMAIN drives[l]}
        T  == body.types[body.locals[l].ty]
    IN  IF T.kind = "vec" /\ \A p \in ps : p[1].kind # "field"
        THEN {<<At(k)>> : k \in {m \in 0 .. T.len - 1 :
                                    \A p \in ps : ~Covers(p[1], m, T.len)}}
        ELSE {leaf \in Leaves[body.locals[l].ty] : \A p \in ps : ~IsPrefixOf(p, leaf)}

CompletenessDiags(l) ==
    LET local == body.locals[l]
        whole == \E i \in DOMAIN drives[l] : drives[l][i] = <<>>
        T == body.types[local.ty]
    IN  IF drives[l] = <<>>
        THEN Only({[kind |-> "undriven out", local |-> l, path |-> <<>>]},
                  local.kind = "out" /\ T.kind # "integer")
        ELSE IF whole \/ local.kind \notin {"var", "out"} THEN {}
        ELSE {[kind |-> "undriven field", local |-> l, path |-> p] : p \in Missing(l)}

CheckLocal ==
    /\ pc = "check" /\ at <= Len(body.locals)
    /\ diags' = diags \cup DriverDiags(at) \cup CompletenessDiags(at)
    /\ at' = at + 1
    /\ UNCHANGED <<body, todo, driven, drives, pc>>

Done ==
    /\ pc = "check" /\ at > Len(body.locals)
    /\ pc' = "done"
    /\ UNCHANGED <<body, todo, driven, drives, at, diags>>

Init ==
    /\ body \in Bodies
    /\ todo = <<[call |-> "block", id |-> Top]>>
    /\ driven = <<>>
    /\ drives = [l \in DOMAIN body.locals |-> <<>>]
    /\ pc = "walk" /\ at = 1 /\ diags = {}

Next ==
    \/ CountBlock \/ Equation \/ OtherStmt \/ CollectWhenDrives \/ GuardedStmt
    \/ BindWhen \/ CountExpr \/ Counted \/ CheckLocal \/ Done
    \/ pc = "done" /\ UNCHANGED vars

Spec == Init /\ [][Next]_vars /\ WF_vars(Next)

----------------------------------------------------------------------------
(* What a path hits: the element with, at each of its places, the field or *)
(* a number in the range.  The elements of a type are its bits.            *)
Within(s, k) == IF s.kind = "field" THEN k = s
                ELSE k.kind = "at" /\ k.lo \in Int /\ Low(s) <= k.lo /\ k.lo < High(s)
Hits(p, e)   == Len(p) <= Len(e) /\ \A i \in DOMAIN p : Within(p[i], e[i])
Provable(p)  == \A i \in DOMAIN p : p[i].kind = "field" \/ Known(p[i])

Elements ==
    LET T == body.types
        elements[t \in DOMAIN T] ==
            CASE T[t].kind = "struct" ->
                    UNION {{<<Field(f)>> \o e : e \in elements[T[t].of[f]]} : f \in DOMAIN T[t].of}
              [] T[t].kind = "vec" \/ (T[t].kind = "part" /\ T[t].len > 0) ->
                    UNION {{<<At(k)>> \o e : e \in elements[T[t].of[1]]} : k \in 0 .. T[t].len - 1}
              [] T[t].kind = "bits" -> {<<At(k)>> : k \in 0 .. T[t].len - 1}
              [] OTHER -> {<<>>}
    IN  elements

Reported(kind, l) == \E d \in diags : d.kind = kind /\ d.local = l

(* Without a report of two drivers no two drives counted for a local hit   *)
(* the same element, but for those whose range is not provable and those   *)
(* of a `let mut`.                                                         *)
NoElementTwice ==
    pc = "done" =>
        \A l \in DOMAIN body.locals :
            ~body.locals[l].mutable /\ ~Reported("multiple", l) =>
                \A i, j \in DOMAIN drives[l] :
                    i < j /\ Provable(drives[l][i]) /\ Provable(drives[l][j]) =>
                        \A e \in Elements[body.locals[l].ty] :
                            ~(Hits(drives[l][i], e) /\ Hits(drives[l][j], e))

(* Two drivers are reported only where two counted drives hit an element,  *)
(* have an empty range in them, or are the same in all that is provable.   *)
MultipleIsGenuine ==
    pc = "done" =>
        \A l \in DOMAIN body.locals :
            Reported("multiple", l) =>
                \E i, j \in DOMAIN drives[l] : LET p == drives[l][i] q == drives[l][j] IN
                    /\ i < j
                    /\ \/ ~Provable(p) \/ ~Provable(q)
                       \/ \E e \in Elements[body.locals[l].ty] : Hits(p, e) /\ Hits(q, e)
                       \/ \E s \in {p[k] : k \in DOMAIN p} \cup {q[k] : k \in DOMAIN q} :
                            s.kind # "field" /\ Low(s) = High(s)

(* The places of the drives are within their types, as inference and       *)
(* mono_check see to, and nothing is selected of a slice.                  *)
Empty(p) == \E k \in DOMAIN p : p[k].kind # "field" /\ Low(p[k]) = High(p[k])
PlacesFit ==
    \A l \in DOMAIN body.locals : \A i \in DOMAIN drives[l] :
        LET p == drives[l][i] IN
        Provable(p) /\ ~Empty(p) =>
            /\ \A k \in 1 .. Len(p) - 1 : p[k].kind \in {"field", "at"}
            /\ \E e \in Elements[body.locals[l].ty] : Hits(p, e)

(* What drives in the text: an equation, an out-connection, and a `when`   *)
(* statement for the equations below it, those under its `if`s included.   *)
Guards(s) == body.stmts[s].op = "expr" /\ body.exprs[body.stmts[s].rhs].op = "if"
Branches(s) == Members(body.exprs[body.stmts[s].rhs].blocks)
Guarded ==
    LET below[b \in DOMAIN body.blocks] ==
            LET own == Members(body.blocks[b].stmts)
            IN  own \cup UNION {UNION {below[k] : k \in Branches(s)} : s \in {s \in own : Guards(s)}}
    IN  below
Whens     == {s \in DOMAIN body.stmts : body.stmts[s].op = "when"}
BelowWhen == UNION {Guarded[body.stmts[w].block] : w \in Whens}
Equations == {s \in DOMAIN body.stmts : body.stmts[s].op = "equation"}
Outs      == UNION {{<<e, i>> : i \in body.exprs[e].outs} : e \in DOMAIN body.exprs}
Target(o) == body.exprs[o[1]].kids[o[2]]

Drivers(l) ==
    {<<s, 0>> : s \in {s \in Equations \ BelowWhen : PlaceOf[body.stmts[s].lhs].local = l}}
    \cup {<<w, 0>> : w \in {w \in Whens : \E s \in Guarded[body.stmts[w].block] \cap Equations :
                                            RootLocal[body.stmts[s].lhs] = l}}
    \cup {o \in Outs : PlaceOf[Target(o)].local = l}

(* Nothing that drives is where the walk does not look: below conditions,  *)
(* events, places and tuples, under statements a `when` passes over, and   *)
(* in the places and the values of what it guards.                         *)
GuardedBlocks == {body.stmts[w].block : w \in Whens} \cup UNION {Branches(s) : s \in {s \in BelowWhen : Guards(s)}}
Conceals ==
    LET E == body.exprs
        conceals[e \in DOMAIN E] == E[e].outs # {} \/ E[e].blocks # <<>>
                                       \/ \E i \in DOMAIN E[e].kids : E[e].kids[i] # 0 /\ conceals[E[e].kids[i]]
    IN  conceals
InSight ==
    LET E == body.exprs
    IN  /\ \A e \in DOMAIN E : E[e].op \notin {"record", "method", "call"} =>
            \A i \in DOMAIN E[e].kids : E[e].kids[i] # 0 => ~Conceals[E[e].kids[i]]
        /\ \A s \in BelowWhen : body.stmts[s].op \notin {"for", "when", "return"}
        /\ \A s \in BelowWhen \cap Equations : ~Conceals[body.stmts[s].lhs]
        /\ \A k \in GuardedBlocks : body.blocks[k].tail # 0 => ~Conceals[body.blocks[k].tail]

(* Each equation and out-connection is counted for its local once, the     *)
(* equations of a `when` as one; none is where there is nothing to be seen.*)
EachDriverCounted ==
    pc = "done" =>
        \A l \in DOMAIN body.locals :
            /\ Len(drives[l]) <= Cardinality(Drivers(l))
            /\ InSight => Len(drives[l]) = Cardinality(Drivers(l))

(* A `var` or `out` about which nothing is reported has a driver for each  *)
(* of its elements, unless it is driven by bits or by elements of a vector *)
(* of unknown length, whose coverage nobody checks, or by parts of the     *)
(* elements of a vector (or by what no type has, a field of a vector).     *)
Meant(p, n) == [i \in DOMAIN p |-> [p[i] EXCEPT !.lo = IF @ = Elided THEN 0 ELSE @,
                                                !.hi = IF @ = Elided THEN n ELSE @]]
Deep(l) ==
    LET T == body.types[body.locals[l].ty]
    IN  \E i \in DOMAIN drives[l] : LET p == drives[l][i] IN
            \/ T.kind \in {"bits", "part"} /\ p # <<>>
            \/ T.kind = "vec" /\ (Len(p) > 1 \/ \E k \in DOMAIN p : p[k].kind = "field")
EveryElementDriven ==
    pc = "done" =>
        \A l \in DOMAIN body.locals :
            /\ body.locals[l].kind \in {"var", "out"}
            /\ body.types[body.locals[l].ty].kind # "integer"
            /\ ~\E d \in diags : d.local = l
            /\ ~Deep(l)
            => \A e \in Elements[body.locals[l].ty] :
                    \E i \in DOMAIN drives[l] :
                        LET p == Meant(drives[l][i], body.types[body.locals[l].ty].len)
                        IN  Provable(p) /\ Hits(p, e)

=============================================================================
