------------------------------ MODULE DefMap ------------------------------
(***************************************************************************)
(* The query `crate_def_map` of nameres/def_map.rs: the module tree and    *)
(* the name tables of one crate.  The `Collector` runs its phases one      *)
(* after the other over the items of the crate:                            *)
(*   "collect"  1    declare every item, record the `use`s;                *)
(*   "pending"  1.5  refine the `pub(in path)` visibilities;               *)
(*   "imports"  2    apply every `use` until a pass changes nothing;       *)
(*   "check"    4    diagnose the `use` paths against the final tables.    *)
(* Phase 3 (impl blocks) and phase 5 (def paths) read the tables and write *)
(* maps of their own: CrateMap adds them.                                  *)
(*                                                                         *)
(* A crate is the sequence of its items in source order, a module's items  *)
(* following the `mod` item that opens it; modules are numbered in the     *)
(* order they are opened, so an item can name the module it is written in. *)
(* The prelude is not a module here: no path can name it.                  *)
(***************************************************************************)
EXTENDS Integers, Sequences, FiniteSets

CONSTANTS
    Names,        \* the identifiers the crates of this instance use
    Crates,       \* the crates: sequences of items
    MaxModules,   \* bound: modules of one crate, the root included
    MaxItems      \* bound: items of one crate

Root     == 0
ModuleId == 0 .. (MaxModules - 1)
NoModule == -1                        \* `None` of an Option<ModuleId>
Public   == -2                        \* Visibility::Public and ::Crate
Undeclared == -3                      \* a def that `defs` does not hold
Scope    == ModuleId \cup {Public}    \* Visibility; m stands for Restricted(m)

NS       == {"Module", "Item"}
Anchors  == {"crate", "self", "super"}
Segment  == Names \cup Anchors

(* A `use` leaf, with the prefixes of its groups prepended.  An explicit   *)
(* path binds `name`, its alias or its last named segment.                 *)
Leaf == [glob : BOOLEAN, segs : Seq(Segment), name : Names]

(* Visibility as written: "in" carries the path of `pub(in path)`. *)
SurfaceVis == [kind : {"inherited", "pub", "crate", "super", "in"},
               path : Seq(Segment)]

ItemKind == {"fn", "trait", "adt", "mod", "use"}

(* `ctor` is the constructor of an "adt" (struct or port); `found` is FALSE *)
(* for a `mod m;` without a file; `leaves` are those of a "use".            *)
Item == [kind : ItemKind, mod : ModuleId, name : Names, ctor : Names,
         vis : SurfaceVis, found : BOOLEAN, leaves : Seq(Leaf)]

(* A DefId: the item (its file and ast-id) and the role. *)
DefId == [item : 1 .. MaxItems, role : {"Item", "Ctor"}]
NoDef == [item |-> 0, role |-> "Item"]

Key     == ModuleId \X Names \X NS
Binding == [def : DefId \cup {NoDef}, vis : Scope \cup {Undeclared},
            source : {"Absent", "Glob", "Import", "Def"}]
Absent  == [def |-> NoDef, vis |-> Undeclared, source |-> "Absent"]

Diagnostic == [kind : {"DuplicateDef", "UnresolvedModule",
                       "UnresolvedImport", "PrivateImport"},
               item : Nat, leaf : Nat]

ASSUME BoundsAssumption == MaxModules \in Nat \ {0} /\ MaxItems \in Nat

ASSUME NamesAssumption == Names \cap Anchors = {}

(* Every crate is made of items and fits the bounds, and an item is        *)
(* written in a module that is already open.                               *)
ASSUME CratesAssumption ==
    /\ Crates \subseteq Seq(Item)
    /\ \A c \in Crates :
         /\ Len(c) <= MaxItems
         /\ \A i \in 1 .. Len(c) :
              LET opened == {j \in 1 .. (i - 1) : c[j].kind = "mod"}
              IN  c[i].mod <= Cardinality(opened)
         /\ Cardinality({j \in 1 .. Len(c) : c[j].kind = "mod"}) < MaxModules

VARIABLES
    crate,        \* the crate being resolved; never changes
    phase,        \* the Collector's current phase
    pos,          \* next item, pending entry or `use` of the phase
    leaf,         \* next leaf of the current `use`; 0 before its first
    nextModule,   \* modules.len()
    parent,       \* ModuleData.parent
    moduleOf,     \* def_to_module
    table,        \* ModuleData.items, of every module
    visibility,   \* DefData.visibility; Undeclared for a def not in `defs`
    pending,      \* Collector.pending_vis
    uses,         \* Collector.uses: the items that are `use`s
    useVis,       \* the re-export visibility of the current `use`
    changed,      \* has this pass of the fixpoint inserted a binding?
    diags         \* CrateDefMap.diagnostics

tree == <<nextModule, parent, moduleOf>>
vars == <<crate, phase, pos, leaf, tree, table, visibility, pending, uses,
          useVis, changed, diags>>

----------------------------------------------------------------------------
(* The module tree and the paths through the tables. *)

ParentOr(m) == IF parent[m] \in ModuleId THEN parent[m] ELSE m

Up(m, n) ==
    LET up[k \in 0 .. n] == IF k = 0 THEN m ELSE ParentOr(up[k - 1])
    IN  up[n]

IsWithin(m, ancestor) == \E n \in 0 .. MaxModules : Up(m, n) = ancestor

VisAccessible(vis, m) == vis = Public \/ IsWithin(m, vis)

Lookup(t, m, name, ns) ==
    IF <<m, name, ns>> \in Key THEN t[<<m, name, ns>>] ELSE Absent

(* How many leading segments are `super`. *)
Supers(segs) ==
    CHOOSE n \in 0 .. Len(segs) :
        /\ \A i \in 1 .. n : segs[i] = "super"
        /\ n < Len(segs) => segs[n + 1] # "super"

(* Where the first named segment, number `first`, is looked up.  `super`  *)
(* at the root stays at the root.                                         *)
PathAnchor(segs, from) ==
    IF segs # <<>> /\ segs[1] = "crate" THEN [mod |-> Root, first |-> 2]
    ELSE IF segs # <<>> /\ segs[1] = "self" THEN [mod |-> from, first |-> 2]
    ELSE [mod |-> Up(from, Supers(segs)), first |-> Supers(segs) + 1]

(* The module that segment i of the path is looked up in. *)
Walk(t, segs, from) ==
    LET a == PathAnchor(segs, from)
        at[i \in 1 .. Len(segs)] ==
            IF i <= a.first THEN a.mod
            ELSE LET d == Lookup(t, at[i - 1], segs[i - 1], "Module").def
                 IN  IF d \in DefId THEN moduleOf[d] ELSE NoModule
    IN  at

(* Mutant: the last segment is looked up as a module whatever is wanted. *)
ResolvePathAsModule(t, segs, from, ns) ==
    IF PathAnchor(segs, from).first > Len(segs) THEN NoDef
    ELSE Lookup(t, Walk(t, segs, from)[Len(segs)], segs[Len(segs)], "Module").def

(* No privacy here: `resolve_path` sees every binding. *)
ResolvePath(t, segs, from, ns) ==
    IF PathAnchor(segs, from).first > Len(segs) THEN NoDef
    ELSE Lookup(t, Walk(t, segs, from)[Len(segs)], segs[Len(segs)], ns).def

ResolvePathToModule(t, segs, from) ==
    IF segs = <<>> THEN from
    ELSE LET d == ResolvePath(t, segs, from, "Module")
         IN  IF d \in DefId THEN moduleOf[d] ELSE NoModule

ResolveVisibility(vis, m) ==
    CASE vis.kind \in {"pub", "crate"} -> Public
      [] vis.kind = "inherited"        -> m
      [] vis.kind = "super"            -> ParentOr(m)
      [] vis.kind = "in" ->
            LET r == ResolvePathToModule(table, vis.path, m)
            IN  IF r \in ModuleId THEN r ELSE m

----------------------------------------------------------------------------
(* Phase 1: collect_items. *)

Diag(kind, item, lf) == [kind |-> kind, item |-> item, leaf |-> lf]

(* A `pub(in path)` may name a module declared later. *)
Deferred(vis) == vis.kind = "in"

(* Mutant: a constructor may have the name of its own type. *)
ClashOfItems(b, d) == b.source # "Absent" /\ b.def.item # d.item

Clash(b, d) == b.source # "Absent"

(* `declare`: record the def; the first binding of a name wins and a clash *)
(* is diagnosed; a `pub(in path)` is provisionally private and queued.     *)
Declare(s, d, name, ns) ==
    LET it  == crate[d.item]
        key == <<it.mod, name, ns>>
        vis == IF Deferred(it.vis) THEN it.mod
               ELSE ResolveVisibility(it.vis, it.mod)
        old == s.table[key]
    IN  [table      |-> [s.table EXCEPT ![key] =
                            IF @.source # "Absent" THEN @
                            ELSE [def |-> d, vis |-> vis, source |-> "Def"]],
         visibility |-> [s.visibility EXCEPT ![d] = vis],
         pending    |-> IF Deferred(it.vis)
                        THEN Append(s.pending, [key |-> key, path |-> it.vis.path])
                        ELSE s.pending,
         diags      |-> IF Clash(old, d)
                        THEN s.diags \cup {Diag("DuplicateDef", d.item, 0)}
                        ELSE s.diags]

Declared == [table |-> table, visibility |-> visibility,
             pending |-> pending, diags |-> diags]

Def(i, role) == [item |-> i, role |-> role]

Become(s) ==
    /\ table' = s.table
    /\ visibility' = s.visibility
    /\ pending' = s.pending
    /\ diags' = s.diags

Collecting(kinds) ==
    /\ phase = "collect"
    /\ pos <= Len(crate)
    /\ crate[pos].kind \in kinds
    /\ pos' = pos + 1
    /\ UNCHANGED <<crate, phase, leaf, useVis, changed>>

CollectItem ==
    /\ Collecting({"fn", "trait"})
    /\ Become(Declare(Declared, Def(pos, "Item"), crate[pos].name, "Item"))
    /\ UNCHANGED <<tree, uses>>

(* A struct or port declares its type, then its constructor. *)
DeclareAdt ==
    /\ Collecting({"adt"})
    /\ LET s == Declare(Declared, Def(pos, "Item"), crate[pos].name, "Item")
       IN  Become(Declare(s, Def(pos, "Ctor"), crate[pos].ctor, "Item"))
    /\ UNCHANGED <<tree, uses>>

(* A `mod` opens its module even when its name is a duplicate, or when the *)
(* file of a `mod m;` is missing.                                          *)
CollectMod ==
    /\ Collecting({"mod"})
    /\ nextModule < MaxModules
    /\ LET s == Declare(Declared, Def(pos, "Item"), crate[pos].name, "Module")
           missing == IF crate[pos].found THEN {}
                      ELSE {Diag("UnresolvedModule", pos, 0)}
       IN  Become([s EXCEPT !.diags = @ \cup missing])
    /\ moduleOf' = [moduleOf EXCEPT ![Def(pos, "Item")] = nextModule]
    /\ parent' = [parent EXCEPT ![nextModule] = crate[pos].mod]
    /\ nextModule' = nextModule + 1
    /\ UNCHANGED uses

CollectUse ==
    /\ Collecting({"use"})
    /\ uses' = Append(uses, pos)
    /\ UNCHANGED <<tree, table, visibility, pending, diags>>

EndCollect ==
    /\ phase = "collect"
    /\ pos > Len(crate)
    /\ phase' = "pending"
    /\ pos' = 1
    /\ UNCHANGED <<crate, leaf, tree, table, visibility, pending, uses,
                   useVis, changed, diags>>

----------------------------------------------------------------------------
(* Phase 1.5: resolve_pending_visibilities.  An entry holds the name, not  *)
(* the def: it refines whichever def the name is bound to.                 *)

(* Mutant: the copy in the table is forgotten. *)
NotRefined(b, vis) == b

Refined(b, vis) ==
    IF b.source = "Absent" THEN b ELSE [b EXCEPT !.vis = vis]

ResolvePending ==
    /\ phase = "pending"
    /\ pos <= Len(pending)
    /\ LET key == pending[pos].key
           r   == ResolvePathToModule(table, pending[pos].path, key[1])
           vis == IF r \in ModuleId THEN r ELSE key[1]
           b   == table[key]
       IN  /\ table' = [table EXCEPT ![key] = Refined(@, vis)]
           /\ visibility' = IF b.source = "Absent" THEN visibility
                            ELSE [visibility EXCEPT ![b.def] = vis]
    /\ pos' = pos + 1
    /\ UNCHANGED <<crate, phase, leaf, tree, pending, uses, useVis, changed,
                   diags>>

EndPending ==
    /\ phase = "pending"
    /\ pos > Len(pending)
    /\ phase' = "imports"
    /\ pos' = 1
    /\ pending' = <<>>
    /\ UNCHANGED <<crate, leaf, tree, table, visibility, uses, useVis,
                   changed, diags>>

----------------------------------------------------------------------------
(* Phase 2: resolve_imports. *)

CurrentUse  == crate[uses[pos]]
CurrentLeaf == CurrentUse.leaves[leaf]

(* Mutants: an import replaces a def; an import replaces an import. *)
InsertedOverDef(b, d, source) ==
    IF d \in DefId /\ (b.source \in {"Absent", "Glob"} \/ source = "Import")
    THEN [def |-> d, vis |-> useVis, source |-> source] ELSE b

InsertedOverImport(b, d, source) ==
    IF d \in DefId /\ b.source # "Def" /\ (b.source = "Absent" \/ source = "Import")
    THEN [def |-> d, vis |-> useVis, source |-> source] ELSE b

(* insert_binding: what becomes of binding b of a name when def d arrives  *)
(* for it.  An import or a glob never replaces a local def, an import      *)
(* replaces a glob, and otherwise the binding already there stays.  A path *)
(* that resolves to nothing (NoDef) inserts nothing.                       *)
Inserted(b, d, source) ==
    IF /\ d \in DefId
       /\ \/ b.source = "Absent"
          \/ b.source = "Glob" /\ source = "Import"
    THEN [def |-> d, vis |-> useVis, source |-> source]
    ELSE b

Importing ==
    /\ phase = "imports"
    /\ pos <= Len(uses)
    /\ UNCHANGED <<crate, phase, tree, visibility, pending, uses, diags>>

(* The visibility of a `use` is resolved anew in every pass. *)
BeginUse ==
    /\ Importing
    /\ leaf = 0
    /\ useVis' = ResolveVisibility(CurrentUse.vis, CurrentUse.mod)
    /\ leaf' = 1
    /\ UNCHANGED <<pos, table, changed>>

ImportStep ==
    /\ Importing
    /\ leaf \in 1 .. Len(CurrentUse.leaves)
    /\ leaf' = leaf + 1
    /\ UNCHANGED <<pos, useVis>>

(* The table after a leaf; inserting anything asks for another pass. *)
Apply(t) ==
    /\ table' = t
    /\ changed' = (changed \/ t # table)

TrailingSelf(segs) == segs # <<>> /\ segs[Len(segs)] = "self"
Front(segs) == SubSeq(segs, 1, Len(segs) - 1)

(* `use a::b;` binds b in every namespace it resolves in, accessible or    *)
(* not; the Item namespace is resolved after the Module binding is in.     *)
ImportLeaf ==
    /\ ImportStep
    /\ ~CurrentLeaf.glob
    /\ ~TrailingSelf(CurrentLeaf.segs)
    /\ LET m == CurrentUse.mod
           Import(t, ns) ==
               LET d == ResolvePath(t, CurrentLeaf.segs, m, ns)
               IN  [t EXCEPT ![<<m, CurrentLeaf.name, ns>>] =
                        Inserted(@, d, "Import")]
       IN  Apply(Import(Import(table, "Module"), "Item"))

(* `use a::self;` binds the module `a` itself. *)
ImportSelf ==
    /\ ImportStep
    /\ ~CurrentLeaf.glob
    /\ TrailingSelf(CurrentLeaf.segs)
    /\ LET m == CurrentUse.mod
           d == ResolvePath(table, Front(CurrentLeaf.segs), m, "Module")
       IN  Apply([table EXCEPT ![<<m, CurrentLeaf.name, "Module">>] =
                      Inserted(@, d, "Import")])

(* Mutant: a glob brings the private names too. *)
GlobBringsAll(target, m, k) == target \in ModuleId \ {m} /\ k[1] = m

(* A glob of `target` in module m brings the name of key k to m. *)
GlobBrings(target, m, k) ==
    /\ target \in ModuleId \ {m}
    /\ k[1] = m
    /\ VisAccessible(table[<<target, k[2], k[3]>>].vis, m)

(* `use a::*;` binds every name of `a` that is visible from this module. *)
ImportGlob ==
    /\ ImportStep
    /\ CurrentLeaf.glob
    /\ LET m == CurrentUse.mod
           target == ResolvePathToModule(table, CurrentLeaf.segs, m)
           from(k) == table[<<target, k[2], k[3]>>]
       IN  Apply([k \in Key |-> IF GlobBrings(target, m, k)
                                THEN Inserted(table[k], from(k).def, "Glob")
                                ELSE table[k]])

EndUse ==
    /\ Importing
    /\ leaf > Len(CurrentUse.leaves)
    /\ pos' = pos + 1
    /\ leaf' = 0
    /\ UNCHANGED <<table, useVis, changed>>

(* The pass is over: another one if it inserted anything. *)
EndPass ==
    /\ phase = "imports"
    /\ pos > Len(uses)
    /\ phase' = IF changed THEN "imports" ELSE "check"
    /\ pos' = 1
    /\ changed' = FALSE
    /\ UNCHANGED <<crate, leaf, tree, table, visibility, pending, uses,
                   useVis, diags>>

----------------------------------------------------------------------------
(* Phase 4: check_uses.  A glob contributes its prefix; a trailing `self`  *)
(* names the module before it.                                             *)

Checked(lf) == IF TrailingSelf(lf.segs) THEN Front(lf.segs) ELSE lf.segs

(* Mutant: the last name is looked for among the items only. *)
FinalItem(m, name) == {Lookup(table, m, name, "Item")} \ {Absent}

(* The bindings of the last name, in either namespace. *)
Final(m, name) == {Lookup(table, m, name, ns) : ns \in NS} \ {Absent}

(* The verdict of check_path_access.  The first segment of a relative path *)
(* is in the module's own scope; later ones are checked for visibility,    *)
(* the last one in whichever namespace is accessible.                      *)
PathAccess(segs, from) ==
    LET first == PathAnchor(segs, from).first
        last  == Len(segs)
        at    == Walk(table, segs, from)
        open(i, b) == i = 1 \/ VisAccessible(b.vis, from)
        inner(i) == Lookup(table, at[i], segs[i], "Module")
        reached(i) == \A j \in first .. (i - 1) :
                         inner(j).source # "Absent" /\ open(j, inner(j))
        stops == {i \in first .. (last - 1) :
                    /\ reached(i)
                    /\ inner(i).source = "Absent" \/ ~open(i, inner(i))}
        final == Final(at[last], segs[last])
    IN  IF first > last THEN "ok"
        ELSE IF \E i \in stops : inner(i).source = "Absent" THEN "UnresolvedImport"
        ELSE IF stops # {} THEN "PrivateImport"
        ELSE IF final = {} THEN "UnresolvedImport"
        ELSE IF \E b \in final : open(last, b) THEN "ok"
        ELSE "PrivateImport"

CheckLeaf ==
    /\ phase = "check"
    /\ pos <= Len(uses)
    /\ leaf + 1 <= Len(CurrentUse.leaves)
    /\ leaf' = leaf + 1
    /\ LET verdict == PathAccess(Checked(CurrentUse.leaves[leaf + 1]),
                                 CurrentUse.mod)
       IN  diags' = IF verdict = "ok" THEN diags
                    ELSE diags \cup {Diag(verdict, uses[pos], leaf + 1)}
    /\ UNCHANGED <<crate, phase, pos, tree, table, visibility, pending, uses,
                   useVis, changed>>

EndCheckUse ==
    /\ phase = "check"
    /\ pos <= Len(uses)
    /\ leaf = Len(CurrentUse.leaves)
    /\ pos' = pos + 1
    /\ leaf' = 0
    /\ UNCHANGED <<crate, phase, tree, table, visibility, pending, uses,
                   useVis, changed, diags>>

EndCheck ==
    /\ phase = "check"
    /\ pos > Len(uses)
    /\ phase' = "done"
    /\ UNCHANGED <<crate, pos, leaf, tree, table, visibility, pending, uses,
                   useVis, changed, diags>>

Terminated == phase = "done" /\ UNCHANGED vars

----------------------------------------------------------------------------
Init ==
    /\ crate \in Crates
    /\ phase = "collect"
    /\ pos = 1
    /\ leaf = 0
    /\ nextModule = Root + 1
    /\ parent = [m \in ModuleId |-> NoModule]
    /\ moduleOf = [d \in DefId |-> NoModule]
    /\ table = [k \in Key |-> Absent]
    /\ visibility = [d \in DefId |-> Undeclared]
    /\ pending = <<>>
    /\ uses = <<>>
    /\ useVis = Public
    /\ changed = FALSE
    /\ diags = {}

Next ==
    \/ CollectItem \/ DeclareAdt \/ CollectMod \/ CollectUse \/ EndCollect
    \/ ResolvePending \/ EndPending
    \/ BeginUse \/ ImportLeaf \/ ImportSelf \/ ImportGlob \/ EndUse \/ EndPass
    \/ CheckLeaf \/ EndCheckUse \/ EndCheck
    \/ Terminated

(* That the query runs to its end is CrateMap's to say, with the phases    *)
(* that this module leaves out.                                            *)
Spec == Init /\ [][Next]_vars

----------------------------------------------------------------------------
(* Properties. *)

ImportsOver == phase \in {"check", "done"}

NameOf(d) == IF d.role = "Ctor" THEN crate[d.item].ctor ELSE crate[d.item].name
NsOf(d)   == IF crate[d.item].kind = "mod" THEN "Module" ELSE "Item"

(* The key a def is declared at. *)
Home(d) == <<crate[d.item].mod, NameOf(d), NsOf(d)>>

IsDeclared(d) == visibility[d] # Undeclared

PendingEntry == [key : Key, path : Seq(Segment)]

(* Every variable has its type. *)
TypeOK ==
    /\ crate \in Seq(Item)
    /\ phase \in {"collect", "pending", "imports", "check", "done"}
    /\ pos \in Nat \ {0}
    /\ leaf \in Nat
    /\ nextModule \in 1 .. MaxModules
    /\ parent \in [ModuleId -> ModuleId \cup {NoModule}]
    /\ moduleOf \in [DefId -> ModuleId \cup {NoModule}]
    /\ table \in [Key -> Binding]
    /\ visibility \in [DefId -> Scope \cup {Undeclared}]
    /\ pending \in Seq(PendingEntry)
    /\ uses \in Seq(1 .. Len(crate))
    /\ useVis \in Scope
    /\ changed \in BOOLEAN
    /\ diags \subseteq Diagnostic

(* Whatever way a name is bound, it is bound to a def that won its own     *)
(* declaration, in the same namespace: a def that lost a duplicate         *)
(* declaration is never reached, whatever chain of imports leads there.    *)
BoundDefsWonTheirName ==
    \A k \in Key :
        table[k].source # "Absent" =>
            LET d == table[k].def
            IN  /\ IsDeclared(d)
                /\ Home(d)[3] = k[3]
                /\ table[Home(d)].def = d
                /\ table[Home(d)].source = "Def"
                /\ table[k].source = "Def" => k = Home(d)

(* The visibility kept with a def and the one kept in the table where it   *)
(* is declared agree: DefData.visibility and Binding.vis are two copies.   *)
VisibilityAgrees ==
    \A k \in Key :
        table[k].source = "Def" => table[k].vis = visibility[table[k].def]

(* No declaration is lost silently: a def whose name is bound to another   *)
(* one has a DuplicateDef diagnostic on its item.                          *)
LostDeclarationsReported ==
    \A d \in DefId :
        IsDeclared(d) =>
            /\ table[Home(d)].source = "Def"
            /\ \/ table[Home(d)].def = d
               \/ Diag("DuplicateDef", d.item, 0) \in diags

Declarations == [k \in Key |-> IF table[k].source = "Def" THEN table[k] ELSE Absent]

(* `pub(in path)` on a name declared once restricts it to the module the   *)
(* path names, even when that module is declared later; an import never    *)
(* changes what it names.                                                  *)
PubInLands ==
    phase \notin {"collect", "pending"} =>
        \A d \in DefId :
            /\ IsDeclared(d)
            /\ crate[d.item].vis.kind = "in"
            /\ \A e \in DefId \ {d} : IsDeclared(e) => Home(e) # Home(d)
            =>
            LET it == crate[d.item]
                r  == ResolvePathToModule(Declarations, it.vis.path, it.mod)
            IN  visibility[d] = IF r \in ModuleId THEN r ELSE it.mod

(* The leaves of the crate, as <<item, leaf>>. *)
UseLeaves ==
    UNION {{i} \X (1 .. Len(crate[i].leaves)) :
              i \in {j \in 1 .. Len(crate) : crate[j].kind = "use"}}
LeafAt(u) == crate[u[1]].leaves[u[2]]
ModOf(u)  == crate[u[1]].mod

Resolves(u, ns) == ResolvePath(table, LeafAt(u).segs, ModOf(u), ns) \in DefId
IsPath(u)       == ~LeafAt(u).glob /\ ~TrailingSelf(LeafAt(u).segs)

(* The fixpoint is one: when the passes stop, every path that resolves is  *)
(* bound by an import or a def, and every name a glob can see is bound.    *)
UsesSettled ==
    ImportsOver =>
        \A u \in UseLeaves :
            LET m == ModOf(u)
                name == LeafAt(u).name
                segs == LeafAt(u).segs
                target == ResolvePathToModule(table, segs, m)
            IN  /\ IsPath(u) =>
                     \A ns \in NS : Resolves(u, ns) =>
                         table[<<m, name, ns>>].source \in {"Import", "Def"}
                /\ LeafAt(u).glob /\ target \in ModuleId =>
                     \A k \in Key :
                         /\ k[1] = target
                         /\ table[k].source # "Absent"
                         /\ VisAccessible(table[k].vis, m)
                         => table[<<m, k[2], k[3]>>].source # "Absent"

Reported(u, kinds) == \E k \in kinds : Diag(k, u[1], u[2]) \in diags

(* The two walks over a path agree: a path the import found nothing at is  *)
(* diagnosed, and one called unresolved is indeed bound to nothing.        *)
UnresolvedReported ==
    phase = "done" =>
        \A u \in UseLeaves :
            /\ IsPath(u)
            /\ PathAnchor(LeafAt(u).segs, ModOf(u)).first <= Len(LeafAt(u).segs)
            =>
            /\ (\A ns \in NS : ~Resolves(u, ns)) =>
                   Reported(u, {"UnresolvedImport", "PrivateImport"})
            /\ Reported(u, {"UnresolvedImport"}) =>
                   \A ns \in NS : ~Resolves(u, ns)

(* Every use is answered once and for all: bound to what it names, or      *)
(* diagnosed.                                                              *)
UsesAnswered == UsesSettled /\ UnresolvedReported

Exported(u)  == crate[u[1]].vis.kind # "inherited"
Overtaken(u) == \E v \in UseLeaves : /\ ModOf(v) = ModOf(u)
                                     /\ LeafAt(v).glob /\ ~LeafAt(u).glob

(* Where a def may be known: where it is visible, and in what is inside    *)
(* the module that declares it.                                            *)
MayKnow(m, d) == VisAccessible(visibility[d], m) \/ IsWithin(m, Home(d)[1])

(* Privacy is kept as imports go: in a crate that re-exports nothing, has  *)
(* no name that is a module and an item and no module with both globs and  *)
(* explicit imports, and where no import is diagnosed as private, no chain *)
(* of imports and globs carries a def to a module that may not know it.    *)
PrivateStaysInside ==
    /\ phase = "done"
    /\ \A u \in UseLeaves : ~Exported(u) /\ ~Overtaken(u)
    /\ \A k \in Key : \E ns \in NS : table[<<k[1], k[2], ns>>] = Absent
    /\ \A u \in UseLeaves : ~Reported(u, {"PrivateImport"})
    =>
    \A k \in Key : table[k].source # "Absent" => MayKnow(k[1], table[k].def)

(* Restrictions are kept: each def has the visibility its declaration      *)
(* writes, and stays within it.                                            *)
RestrictionsKept == PubInLands /\ PrivateStaysInside

(* Name resolution ends: no chain or cycle of `use`s keeps the passes      *)
(* rewriting each other's bindings.                                        *)
Terminates == <>(phase = "done")

stage == CASE phase \in {"collect", "pending"} -> "declaring"
           [] phase = "imports"                -> "importing"
           [] phase \in {"check", "done"}      -> "frozen"

NT == INSTANCE NameTable

(* The tables of the Collector behave as NameTable promises. *)
NameTableSpec == NT!Spec
============================================================================
