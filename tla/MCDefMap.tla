------------------------------ MODULE MCDefMap ------------------------------
(***************************************************************************)
(* Crates small enough to enumerate.  Each family fixes a module tree and  *)
(* lets the items at certain places range over a set of choices.           *)
(***************************************************************************)
EXTENDS CrateMap

Vis(k) == [kind |-> k, path |-> <<>>]
In(p)  == [kind |-> "in", path |-> p]
Inherited == Vis("inherited")
Pub       == Vis("pub")

Blank == [kind |-> "fn", mod |-> Root, name |-> "x", ctor |-> "x",
          vis |-> Inherited, found |-> TRUE, leaves |-> <<>>]

Fn(m, n, v)     == [Blank EXCEPT !.mod = m, !.name = n, !.vis = v]
Mod(m, n, v)    == [Fn(m, n, v) EXCEPT !.kind = "mod"]
Adt(m, n, c, v) == [Fn(m, n, v) EXCEPT !.kind = "adt", !.ctor = c]
Trait(m, n, v)  == [Fn(m, n, v) EXCEPT !.kind = "trait"]
NoFile(m, n)    == [Mod(m, n, Inherited) EXCEPT !.found = FALSE]
Use(m, v, ls)   == [Fn(m, "x", v) EXCEPT !.kind = "use", !.leaves = ls]

Path(segs, n) == [glob |-> FALSE, segs |-> segs, name |-> n]
Glob(segs)    == [glob |-> TRUE, segs |-> segs, name |-> "x"]

(* The modules of the import families: a = 1, a::d = 2, b = 3. *)
InA == 1
InD == 2
InB == 3

----------------------------------------------------------------------------
(* Imports: one use in each of a::d, a, b and the root, over               *)
(*   mod a { fn x; pub mod d { USE } USE }                                 *)
(*   mod b { pub fn x; pub mod a { pub fn y } USE }                        *)
(*   USE                                                                   *)
(* so that names are re-exported in chains and cycles, globs meet explicit *)
(* imports, and a name is a module here and an item there.                 *)
Uses(m, leaves) == {Use(m, v, <<l>>) : v \in {Inherited, Pub}, l \in leaves}

LeavesInD == {Path(<<"super", "x">>, "x"), Glob(<<"crate", "b">>),
              Path(<<"crate", "b", "a">>, "d"), Glob(<<"crate", "a">>)}
LeavesInA == {Glob(<<"d">>), Glob(<<"crate", "b">>), Path(<<"d", "y">>, "x"),
              Path(<<"super", "b", "a", "y">>, "y"), Path(<<"a", "self">>, "a")}
LeavesInB == {Glob(<<"super", "a">>), Path(<<"crate", "y">>, "y"),
              Path(<<"crate", "a", "d", "x">>, "y"), Glob(<<"a">>)}
LeavesInRoot == {Glob(<<"a">>), Glob(<<"b">>), Path(<<"b", "a">>, "d"),
                 Path(<<"a", "y">>, "x"), Path(<<"b", "a", "self">>, "b"),
                 Path(<<"super", "x">>, "x")}

ImportCrates ==
    {<<Mod(Root, "a", Inherited), Fn(InA, "x", Inherited),
       Mod(InA, "d", Pub), u[1], u[2],
       Mod(Root, "b", Inherited), Fn(InB, "x", Pub), Mod(InB, "a", Pub),
       Fn(4, "y", Pub), u[3], u[4]>> :
        u \in {v \in Uses(InD, LeavesInD) \X Uses(InA, LeavesInA)
                        \X Uses(InB, LeavesInB) \X Uses(Root, LeavesInRoot) :
                /\ v[4].vis = Inherited     \* all modules see the root's names
                /\ v[1].vis = v[2].vis
                /\ v[3].vis = Pub \/ v[1].vis = Inherited}}

----------------------------------------------------------------------------
(* Declarations: names declared twice in one module (two items, a type and *)
(* its constructor, two modules), `pub(in path)` naming modules before and *)
(* after it, in and out of its ancestors, and through an import, and a     *)
(* `mod` without a file:                                                   *)
(*   i1; mod a { i2; mod d { i3; i4 } }; mod b or a; use; i5               *)
DeclCrates ==
    {<<i1, Mod(Root, "a", Inherited), i2, Mod(InA, "d", Pub), i3, i4, m, u, i5>> :
        i1 \in {Fn(Root, "x", Vis("super")), Adt(Root, "x", "x", Inherited),
                Adt(Root, "x", "y", In(<<"crate", "a", "d">>))},
        i2 \in {Fn(InA, "x", In(<<"d">>)), Trait(InA, "x", Vis("super")),
                Adt(InA, "y", "x", In(<<"super", "b">>)),
                Fn(InA, "y", In(<<"crate">>))},
        i3 \in {Adt(InD, "x", "y", In(<<"crate", "a">>)),
                Fn(InD, "x", In(<<"super", "super", "b">>))},
        i4 \in {Fn(InD, "x", In(<<"super">>)), Trait(InD, "y", Vis("crate")),
                Use(InD, Pub, <<Glob(<<"crate", "a">>)>>)},
        m  \in {Mod(Root, "b", In(<<"crate", "a">>)), NoFile(Root, "b"),
                Mod(Root, "a", Pub)},
        u  \in {Use(Root, In(<<"b">>), <<Glob(<<"a">>)>>),
                Use(Root, Pub, <<Path(<<"a", "d">>, "b"), Path(<<"a", "x">>, "x")>>)},
        i5 \in {Fn(Root, "y", In(<<"b">>)), Fn(Root, "x", In(<<"a", "d">>))}}

----------------------------------------------------------------------------
(* Conflicts: two modules that glob each other, re-exports in a cycle, and *)
(* groups that import one name twice.                                      *)
Groups(m, leaves) ==
    {Use(m, Pub, p) : p \in {q \in leaves \X leaves : q[1] # q[2]}}

ConflictCrates ==
    {<<Mod(Root, "a", Pub), Fn(InA, "x", Pub), ua,
       Mod(Root, "b", Pub), Fn(2, "x", Pub), Fn(2, "y", Pub), ub, ur>> :
        ua \in Groups(InA, {Glob(<<"super", "b">>), Path(<<"crate", "y">>, "y"),
                            Path(<<"crate", "b", "x">>, "y")}),
        ub \in Groups(2, {Glob(<<"super", "a">>), Path(<<"crate", "x">>, "d"),
                          Path(<<"crate", "d">>, "d")}),
        ur \in Groups(Root, {Path(<<"a", "x">>, "x"), Path(<<"b", "x">>, "x"),
                             Glob(<<"a">>), Path(<<"b", "y">>, "x"),
                             Path(<<"b", "d">>, "y")})}

----------------------------------------------------------------------------
(* Impls, over                                                             *)
(*   mod a { pub struct x = y; pub trait d { fn a; const b } IMPL }        *)
(*   USE  fn b  IMPL                                                       *)
(* behind the impl of `Add` for `bool` in the prelude: the owner and the   *)
(* trait come from the module, an import or the prelude or are nothing of  *)
(* the kind, and impls repeat and overlap.                                 *)
MCPrelude ==
    [n \in {"bool", "uint", "min", "Add"} |->
        [kind |-> CASE n = "min" -> "fn" [] n = "Add" -> "trait" [] OTHER -> "type",
         methods |-> IF n = "Add" THEN <<"d">> ELSE <<>>, consts |-> <<>>]]

Impl(m, trait, owner, methods, consts) ==
    [mod |-> m, owner |-> owner, applied |-> FALSE, trait |-> trait,
     methods |-> methods, consts |-> consts]
AppliedImpl(m, trait, owner, methods, consts) ==
    [Impl(m, trait, owner, methods, consts) EXCEPT !.applied = TRUE]

AddForBool == Impl(PreludeModule, "Add", "bool", <<"d">>, <<>>)

ImplsInA == {Impl(1, "", "x", <<"a", "a">>, <<"b">>), Impl(1, "d", "x", <<"a">>, <<"b">>),
             Impl(1, "d", "y", <<"a">>, <<"b">>), AppliedImpl(1, "Add", "x", <<"d", "d">>, <<>>)}
ImplsInRoot == {Impl(Root, "", "x", <<"b", "a">>, <<>>), Impl(Root, "d", "x", <<"a">>, <<>>),
                AppliedImpl(Root, "d", "x", <<"b">>, <<"b">>), Impl(Root, "b", "x", <<"a">>, <<>>),
                Impl(Root, "Add", "bool", <<"d">>, <<>>), Impl(Root, "Add", "min", <<"d">>, <<>>),
                Impl(Root, "", "uint", <<"x">>, <<>>)}

ImplSources ==
    {[crate |-> <<Mod(Root, "a", Inherited), Adt(InA, "x", "y", Pub), Trait(InA, "d", Pub),
                  u, Fn(Root, "b", Inherited)>>,
      members |-> [i \in 1 .. 5 |-> [methods |-> IF i = 3 THEN <<"a">> ELSE <<>>,
                                     consts |-> IF i = 3 THEN <<"b">> ELSE <<>>]],
      impls |-> <<AddForBool, ia, ir>>] :
        u \in {Use(Root, Inherited, <<Glob(<<"a">>)>>), Use(Root, Inherited, <<>>),
               Use(Root, Inherited, <<Path(<<"a", "x">>, "x"), Path(<<"a", "d">>, "d")>>)},
        ia \in ImplsInA, ir \in ImplsInRoot}

\* The other families have no impl.
Plain(c) == [crate |-> c, impls |-> <<>>,
             members |-> [i \in 1 .. Len(c) |-> [methods |-> <<>>, consts |-> <<>>]]]

\* All of them.
AllSources == {Plain(c) : c \in DeclCrates \cup ConflictCrates \cup ImportCrates} \cup ImplSources
AllCrates  == {s.crate : s \in AllSources}

=============================================================================
