---------------------------- MODULE DefMapProofs ----------------------------
(***************************************************************************)
(* What holds of every crate, of any size: type correctness, the           *)
(* invariants of the declarations, that the tables behave as NameTable     *)
(* promises, and what becomes of the `use`s: when the Collector is done,   *)
(* each of them is bound to what it names or diagnosed, and a              *)
(* `pub(in path)` has landed on its def.                                   *)
(***************************************************************************)
EXTENDS DefMap, WellFoundedInduction, TLAPS

USE DEF Root, NoModule, Public, Undeclared

----------------------------------------------------------------------------
(* Lemmas about the helpers: what a lookup, a path and a visibility give   *)
(* in well-typed tables.                                                   *)

(* The crate fits the bounds, so its items have DefIds. *)
LEMMA CrateItems ==
    ASSUME crate \in Crates
    PROVE  /\ crate \in Seq(Item)
           /\ Len(crate) \in Nat
           /\ \A i \in 1 .. Len(crate) : i \in 1 .. MaxItems /\ crate[i] \in Item
           /\ \A i \in 1 .. Len(crate) : Def(i, "Item") \in DefId
           /\ \A i \in 1 .. Len(crate) : Def(i, "Ctor") \in DefId
  <1>1. crate \in Seq(Item) /\ Len(crate) <= MaxItems
    BY CratesAssumption
  <1>2. Len(crate) \in Nat /\ \A i \in 1 .. Len(crate) : crate[i] \in Item
    BY <1>1
  <1>3. \A i \in 1 .. Len(crate) : i \in 1 .. MaxItems
    BY <1>1, <1>2, BoundsAssumption
  <1> QED
    BY <1>1, <1>2, <1>3 DEF Def, DefId

LEMMA AbsentIsABinding == Absent \in Binding
  BY DEF Absent, Binding

(* A lookup gives a binding, Absent when the key is not one. *)
LEMMA LookupType ==
    ASSUME NEW t \in [Key -> Binding], NEW m, NEW name, NEW ns
    PROVE  Lookup(t, m, name, ns) \in Binding
  BY AbsentIsABinding DEF Lookup

(* A path resolves to a def or to nothing. *)
LEMMA ResolvePathType ==
    ASSUME NEW t \in [Key -> Binding], NEW segs, NEW from, NEW ns
    PROVE  ResolvePath(t, segs, from, ns) \in DefId \cup {NoDef}
  <1>1. ASSUME NEW b \in Binding PROVE b.def \in DefId \cup {NoDef}
    BY DEF Binding
  <1> QED
    BY <1>1, LookupType DEF ResolvePath

(* A visibility resolves to a scope. *)
LEMMA ResolveVisibilityType ==
    ASSUME parent \in [ModuleId -> ModuleId \cup {NoModule}],
           NEW vis \in SurfaceVis, NEW m \in ModuleId
    PROVE  ResolveVisibility(vis, m) \in Scope
  <1>1. ParentOr(m) \in ModuleId
    BY DEF ParentOr
  <1>2. vis.kind \in {"inherited", "pub", "crate", "super", "in"}
    BY DEF SurfaceVis
  <1> QED
    BY <1>1, <1>2 DEF ResolveVisibility, Scope

(* An insertion gives a binding. *)
LEMMA InsertedType ==
    ASSUME NEW b \in Binding, NEW d, NEW source \in {"Glob", "Import"},
           useVis \in Scope
    PROVE  Inserted(b, d, source) \in Binding
  BY DEF Inserted, Binding

Collected == [table : [Key -> Binding], visibility : [DefId -> Scope \cup {Undeclared}],
              pending : Seq(PendingEntry), diags : SUBSET Diagnostic]

(* `declare` keeps what the collection builds well-typed. *)
LEMMA DeclareType ==
    ASSUME crate \in Crates,
           parent \in [ModuleId -> ModuleId \cup {NoModule}],
           NEW s \in Collected, NEW d \in DefId, d.item \in 1 .. Len(crate),
           NEW name \in Names, NEW ns \in NS
    PROVE  Declare(s, d, name, ns) \in Collected
  <1> DEFINE it  == crate[d.item]
             key == <<it.mod, name, ns>>
             vis == IF Deferred(it.vis) THEN it.mod
                    ELSE ResolveVisibility(it.vis, it.mod)
             new == [def |-> d, vis |-> vis, source |-> "Def"]
  <1>1. it \in Item
    BY CrateItems
  <1>2. it.mod \in ModuleId /\ it.vis \in SurfaceVis
    BY <1>1 DEF Item
  <1>3. key \in Key
    BY <1>2 DEF Key
  <1>4. vis \in Scope
    BY <1>2, ResolveVisibilityType DEF Scope
  <1>5. new \in Binding
    BY <1>4 DEF Binding
  <1>6. it.vis.path \in Seq(Segment)
    BY <1>2 DEF SurfaceVis
  <1>7. [key |-> key, path |-> it.vis.path] \in PendingEntry
    BY <1>3, <1>6 DEF PendingEntry
  <1>8. d.item \in Nat
    BY DEF DefId
  <1>9. Diag("DuplicateDef", d.item, 0) \in Diagnostic
    BY <1>8 DEF Diag, Diagnostic
  <1>10. /\ s.table \in [Key -> Binding]
         /\ s.visibility \in [DefId -> Scope \cup {Undeclared}]
         /\ s.pending \in Seq(PendingEntry)
         /\ s.diags \in SUBSET Diagnostic
    BY DEF Collected
  <1> HIDE DEF it, key, vis, new
  <1>11. [s.table EXCEPT ![key] = IF @.source # "Absent" THEN @ ELSE new]
            \in [Key -> Binding]
    BY <1>3, <1>5, <1>10
  <1>12. [s.visibility EXCEPT ![d] = vis] \in [DefId -> Scope \cup {Undeclared}]
    BY <1>4, <1>10
  <1>13. (IF Deferred(it.vis)
          THEN Append(s.pending, [key |-> key, path |-> it.vis.path])
          ELSE s.pending) \in Seq(PendingEntry)
    BY <1>7, <1>10
  <1>14. (IF Clash(s.table[key], d)
          THEN s.diags \cup {Diag("DuplicateDef", d.item, 0)}
          ELSE s.diags) \in SUBSET Diagnostic
    BY <1>9, <1>10
  <1> QED
    BY <1>11, <1>12, <1>13, <1>14 DEF Declare, Collected, it, key, vis, new

----------------------------------------------------------------------------
(* Type correctness. *)

TypeInv == TypeOK /\ crate \in Crates

LEMMA DeclaredType ==
    ASSUME TypeOK
    PROVE  Declared \in Collected
  BY DEF TypeOK, Declared, Collected

(* What a `use` and its leaves are while a use is current. *)
LEMMA CurrentUseType ==
    ASSUME TypeInv, pos \in 1 .. Len(uses)
    PROVE  /\ CurrentUse \in Item
           /\ CurrentUse.mod \in ModuleId
           /\ CurrentUse.vis \in SurfaceVis
           /\ CurrentUse.leaves \in Seq(Leaf)
           /\ Len(CurrentUse.leaves) \in Nat
           /\ uses[pos] \in 1 .. Len(crate)
  <1>1. uses[pos] \in 1 .. Len(crate)
    BY DEF TypeInv, TypeOK
  <1>2. CurrentUse \in Item
    BY <1>1, CrateItems DEF TypeInv, CurrentUse
  <1>3. CurrentUse.leaves \in Seq(Leaf)
    BY <1>2 DEF Item
  <1> QED
    BY <1>1, <1>2, <1>3 DEF Item

LEMMA CurrentLeafType ==
    ASSUME TypeInv, pos \in 1 .. Len(uses), leaf \in 1 .. Len(CurrentUse.leaves)
    PROVE  /\ CurrentLeaf.name \in Names
           /\ CurrentLeaf.segs \in Seq(Segment)
  <1>1. CurrentLeaf \in Leaf
    BY CurrentUseType DEF CurrentLeaf
  <1> QED
    BY <1>1 DEF Leaf

LEMMA TypeInit == Init => TypeInv
  <1> SUFFICES ASSUME Init PROVE TypeInv
    OBVIOUS
  <1>1. crate \in Seq(Item)
    BY CratesAssumption DEF Init
  <1>2. nextModule \in 1 .. MaxModules
    BY BoundsAssumption DEF Init
  <1>3. table \in [Key -> Binding]
    BY AbsentIsABinding DEF Init
  <1>4. useVis \in Scope
    BY DEF Init, Scope
  <1>5. /\ moduleOf \in [DefId -> ModuleId \cup {NoModule}]
        /\ visibility \in [DefId -> Scope \cup {Undeclared}]
    BY DEF Init
  <1>6. pending \in Seq(PendingEntry) /\ uses \in Seq(1 .. Len(crate))
    BY DEF Init
  <1>7. diags \subseteq Diagnostic /\ pos \in Nat \ {0} /\ leaf \in Nat
    BY DEF Init
  <1>8. parent \in [ModuleId -> ModuleId \cup {NoModule}]
    BY DEF Init
  <1> QED
    BY <1>1, <1>2, <1>3, <1>4, <1>5, <1>6, <1>7, <1>8 DEF Init, TypeInv, TypeOK

LEMMA TypeCollect ==
    ASSUME TypeInv, NEW kinds, Collecting(kinds)
    PROVE  /\ pos \in 1 .. Len(crate)
           /\ pos' \in Nat \ {0}
           /\ crate[pos] \in Item
           /\ crate[pos].mod \in ModuleId
           /\ crate[pos].name \in Names
           /\ crate[pos].ctor \in Names
           /\ Def(pos, "Item") \in DefId /\ Def(pos, "Item").item = pos
           /\ Def(pos, "Ctor") \in DefId /\ Def(pos, "Ctor").item = pos
  <1>1. pos \in 1 .. Len(crate) /\ pos' \in Nat \ {0}
    BY CrateItems DEF TypeInv, TypeOK, Collecting
  <1>2. crate[pos] \in Item
    BY <1>1, CrateItems DEF TypeInv
  <1> QED
    BY <1>1, <1>2, CrateItems DEF TypeInv, Item, Def

LEMMA TypeStep == TypeInv /\ [Next]_vars => TypeInv'
  <1> SUFFICES ASSUME TypeInv, [Next]_vars PROVE TypeInv'
    OBVIOUS
  <1> USE DEF TypeInv
  <1>1. CASE CollectItem
    <2>1. Declare(Declared, Def(pos, "Item"), crate[pos].name, "Item") \in Collected
      BY <1>1, TypeCollect, DeclareType, DeclaredType DEF CollectItem, TypeOK, NS
    <2>2. pos' \in Nat \ {0}
      BY <1>1, TypeCollect DEF CollectItem
    <2> QED
      BY <1>1, <2>1, <2>2
      DEF CollectItem, Collecting, Become, Collected, tree, TypeOK
  <1>2. CASE DeclareAdt
    <2> DEFINE s1 == Declare(Declared, Def(pos, "Item"), crate[pos].name, "Item")
               s2 == Declare(s1, Def(pos, "Ctor"), crate[pos].ctor, "Item")
    <2>1. s1 \in Collected
      BY <1>2, TypeCollect, DeclareType, DeclaredType DEF DeclareAdt, TypeOK, NS
    <2> HIDE DEF s1
    <2>2. s2 \in Collected
      BY <1>2, <2>1, TypeCollect, DeclareType DEF DeclareAdt, TypeOK, NS
    <2>3. Become(s2)
      BY <1>2 DEF DeclareAdt, s1
    <2> HIDE DEF s2
    <2>4. pos' \in Nat \ {0}
      BY <1>2, TypeCollect DEF DeclareAdt
    <2> QED
      BY <1>2, <2>2, <2>3, <2>4
      DEF DeclareAdt, Collecting, Become, Collected, tree, TypeOK
  <1>3. CASE CollectMod
    <2> DEFINE s == Declare(Declared, Def(pos, "Item"), crate[pos].name, "Module")
               missing == IF crate[pos].found THEN {}
                          ELSE {Diag("UnresolvedModule", pos, 0)}
    <2>1. s \in Collected
      BY <1>3, TypeCollect, DeclareType, DeclaredType DEF CollectMod, TypeOK, NS
    <2>2. missing \subseteq Diagnostic
      BY <1>3, TypeCollect DEF CollectMod, Diag, Diagnostic
    <2>3. Become([s EXCEPT !.diags = @ \cup missing])
      BY <1>3 DEF CollectMod
    <2> HIDE DEF s, missing
    <2>4. [s EXCEPT !.diags = @ \cup missing] \in Collected
      BY <2>1, <2>2 DEF Collected
    <2>5. nextModule' \in 1 .. MaxModules /\ nextModule \in ModuleId
      BY <1>3, BoundsAssumption DEF CollectMod, TypeOK, ModuleId
    <2>6. moduleOf' \in [DefId -> ModuleId \cup {NoModule}]
      BY <1>3, <2>5 DEF CollectMod, TypeOK
    <2>7. parent' \in [ModuleId -> ModuleId \cup {NoModule}]
      BY <1>3, <2>5, TypeCollect DEF CollectMod, TypeOK
    <2>8. pos' \in Nat \ {0}
      BY <1>3, TypeCollect DEF CollectMod
    <2> QED
      BY <1>3, <2>3, <2>4, <2>5, <2>6, <2>7, <2>8
      DEF CollectMod, Collecting, Become, Collected, TypeOK
  <1>4. CASE CollectUse
    <2>1. uses' \in Seq(1 .. Len(crate))
      BY <1>4, TypeCollect DEF CollectUse, TypeOK
    <2>2. pos' \in Nat \ {0}
      BY <1>4, TypeCollect DEF CollectUse
    <2> QED
      BY <1>4, <2>1, <2>2 DEF CollectUse, Collecting, tree, TypeOK
  <1>5. CASE EndCollect
    BY <1>5 DEF EndCollect, tree, TypeOK
  <1>6. CASE ResolvePending
    <2> DEFINE key == pending[pos].key
               r   == ResolvePathToModule(table, pending[pos].path, key[1])
               vis == IF r \in ModuleId THEN r ELSE key[1]
    <2>1. pending[pos] \in PendingEntry
      BY <1>6 DEF ResolvePending, TypeOK
    <2>2. key \in Key /\ key[1] \in ModuleId
      BY <2>1 DEF PendingEntry, Key
    <2>3. vis \in Scope
      BY <2>2 DEF Scope
    <2>4. table' = [table EXCEPT ![key] = Refined(@, vis)]
      BY <1>6 DEF ResolvePending
    <2>5. visibility' = visibility \/ visibility' = [visibility EXCEPT ![table[key].def] = vis]
      BY <1>6 DEF ResolvePending
    <2> HIDE DEF key, vis
    <2>6. ASSUME NEW b \in Binding PROVE Refined(b, vis) \in Binding
      BY <2>3 DEF Refined, Binding
    <2>7. table' \in [Key -> Binding]
      BY <2>2, <2>4, <2>6 DEF TypeOK
    <2>8. visibility' \in [DefId -> Scope \cup {Undeclared}]
      BY <2>3, <2>5 DEF TypeOK
    <2> QED
      BY <1>6, <2>7, <2>8 DEF ResolvePending, tree, TypeOK
  <1>7. CASE EndPending
    BY <1>7 DEF EndPending, tree, TypeOK
  <1>8. CASE BeginUse
    <2>1. useVis' \in Scope
      BY <1>8, CurrentUseType, ResolveVisibilityType
      DEF BeginUse, Importing, TypeOK
    <2> QED
      BY <1>8, <2>1 DEF BeginUse, Importing, tree, TypeOK
  <1>9. CASE ImportLeaf
    <2> DEFINE m == CurrentUse.mod
               d(t, ns) == ResolvePath(t, CurrentLeaf.segs, m, ns)
               Import(t, ns) == [t EXCEPT ![<<m, CurrentLeaf.name, ns>>] =
                                    Inserted(@, d(t, ns), "Import")]
    <2>1. pos \in 1 .. Len(uses) /\ leaf \in 1 .. Len(CurrentUse.leaves)
      BY <1>9 DEF ImportLeaf, ImportStep, Importing, TypeOK
    <2>2. m \in ModuleId /\ CurrentLeaf.name \in Names
      BY <2>1, CurrentUseType, CurrentLeafType
    <2>3. Apply(Import(Import(table, "Module"), "Item"))
      BY <1>9 DEF ImportLeaf
    <2> HIDE DEF m, d
    <2>4. ASSUME NEW t \in [Key -> Binding], NEW ns \in NS
          PROVE  Import(t, ns) \in [Key -> Binding]
      <3>1. <<m, CurrentLeaf.name, ns>> \in Key
        BY <2>2 DEF Key
      <3>2. \A b \in Binding : Inserted(b, d(t, ns), "Import") \in Binding
        BY InsertedType DEF TypeOK
      <3> QED
        BY <3>1, <3>2
    <2>5. table' \in [Key -> Binding]
      <3>1. Import(table, "Module") \in [Key -> Binding]
        BY <2>4 DEF TypeOK, NS
      <3> HIDE DEF Import
      <3>2. Import(Import(table, "Module"), "Item") \in [Key -> Binding]
        BY <2>4, <3>1 DEF NS
      <3> QED
        BY <2>3, <3>2 DEF Apply
    <2>6. changed' \in BOOLEAN /\ leaf' \in Nat
      <3> HIDE DEF Import
      <3> QED
        BY <1>9, <2>3 DEF ImportLeaf, ImportStep, Apply, TypeOK
    <2>7. UNCHANGED <<crate, phase, tree, visibility, pending, uses, diags, pos, useVis>>
      BY <1>9 DEF ImportLeaf, ImportStep, Importing
    <2> QED
      BY <2>5, <2>6, <2>7 DEF tree, TypeOK
  <1>10. CASE ImportSelf
    <2> DEFINE key == <<CurrentUse.mod, CurrentLeaf.name, "Module">>
               d == ResolvePath(table, Front(CurrentLeaf.segs), CurrentUse.mod, "Module")
    <2>1. pos \in 1 .. Len(uses) /\ leaf \in 1 .. Len(CurrentUse.leaves)
      BY <1>10 DEF ImportSelf, ImportStep, Importing, TypeOK
    <2>2. key \in Key
      BY <2>1, CurrentUseType, CurrentLeafType DEF Key, NS
    <2>3. Apply([table EXCEPT ![key] = Inserted(@, d, "Import")])
      BY <1>10 DEF ImportSelf
    <2> HIDE DEF key, d
    <2>4. \A b \in Binding : Inserted(b, d, "Import") \in Binding
      BY InsertedType DEF TypeOK
    <2>5. table' \in [Key -> Binding]
      BY <2>2, <2>3, <2>4 DEF Apply, TypeOK
    <2> QED
      BY <1>10, <2>1, <2>3, <2>5
      DEF ImportSelf, ImportStep, Importing, Apply, tree, TypeOK
  <1>11. CASE ImportGlob
    <2> DEFINE m == CurrentUse.mod
               target == ResolvePathToModule(table, CurrentLeaf.segs, m)
               from(k) == table[<<target, k[2], k[3]>>]
               new == [k \in Key |-> IF GlobBrings(target, m, k)
                                     THEN Inserted(table[k], from(k).def, "Glob")
                                     ELSE table[k]]
    <2>1. pos \in 1 .. Len(uses) /\ leaf \in 1 .. Len(CurrentUse.leaves)
      BY <1>11 DEF ImportGlob, ImportStep, Importing, TypeOK
    <2>2. Apply(new)
      BY <1>11 DEF ImportGlob
    <2> HIDE DEF from
    <2>3. \A k \in Key : table[k] \in Binding
      BY DEF TypeOK
    <2>4. \A k \in Key : Inserted(table[k], from(k).def, "Glob") \in Binding
      BY <2>3, InsertedType DEF TypeOK
    <2>5. new \in [Key -> Binding]
      BY <2>3, <2>4
    <2> HIDE DEF new
    <2> QED
      BY <1>11, <2>1, <2>2, <2>5
      DEF ImportGlob, ImportStep, Importing, Apply, tree, TypeOK
  <1>12. CASE EndUse
    BY <1>12 DEF EndUse, Importing, tree, TypeOK
  <1>13. CASE EndPass
    <2>1. phase' = "imports" \/ phase' = "check"
      BY <1>13, Zenon DEF EndPass
    <2>3. pos' = 1
      BY <1>13, Zenon DEF EndPass
    <2>4. changed' \in BOOLEAN
      BY <1>13, Zenon DEF EndPass
    <2>2. UNCHANGED <<crate, leaf, tree, table, visibility, pending, uses, useVis, diags>>
      BY <1>13 DEF EndPass
    <2> QED
      BY <2>1, <2>2, <2>3, <2>4 DEF tree, TypeOK
  <1>14. CASE CheckLeaf
    <2> DEFINE verdict == PathAccess(Checked(CurrentUse.leaves[leaf + 1]), CurrentUse.mod)
    <2>1. pos \in 1 .. Len(uses) /\ leaf' \in Nat
      BY <1>14 DEF CheckLeaf, TypeOK
    <2>2. uses[pos] \in Nat /\ leaf + 1 \in Nat
      BY <2>1, CurrentUseType, CrateItems DEF TypeOK
    <2>3. verdict \in {"ok", "UnresolvedImport", "PrivateImport"}
      BY DEF PathAccess
    <2>4. diags' = IF verdict = "ok" THEN diags
                   ELSE diags \cup {Diag(verdict, uses[pos], leaf + 1)}
      BY <1>14 DEF CheckLeaf
    <2> HIDE DEF verdict
    <2>5. diags' \subseteq Diagnostic
      BY <2>2, <2>3, <2>4 DEF Diag, Diagnostic, TypeOK
    <2> QED
      BY <1>14, <2>1, <2>5 DEF CheckLeaf, tree, TypeOK
  <1>15. CASE EndCheckUse
    BY <1>15 DEF EndCheckUse, tree, TypeOK
  <1>16. CASE EndCheck
    BY <1>16 DEF EndCheck, tree, TypeOK
  <1>17. CASE UNCHANGED vars
    BY <1>17 DEF vars, tree, TypeOK
  <1> QED
    BY <1>1, <1>2, <1>3, <1>4, <1>5, <1>6, <1>7, <1>8, <1>9, <1>10, <1>11,
       <1>12, <1>13, <1>14, <1>15, <1>16, <1>17 DEF Next, Terminated

(* Every variable keeps its type, for every set of crates and names. *)
THEOREM TypeCorrect == Spec => []TypeOK
  <1>1. TypeInv => TypeOK
    BY DEF TypeInv
  <1> QED
    BY <1>1, TypeInit, TypeStep, PTL DEF Spec

----------------------------------------------------------------------------
(* The invariants of the declarations.  DeclsOK speaks of what phase 1     *)
(* builds, as a record, so that the two declarations of a struct or port   *)
(* are two uses of one lemma.                                              *)

(* A bound name leads to the def that won its own declaration. *)
TableOK(t) ==
    \A k \in Key :
        /\ t[k].source = "Absent" => t[k].def = NoDef
        /\ t[k].source # "Absent" =>
             /\ t[k].def \in DefId
             /\ t[k].def.item \in 1 .. Len(crate)
             /\ Home(t[k].def)[3] = k[3]
             /\ t[Home(t[k].def)].def = t[k].def
             /\ t[Home(t[k].def)].source = "Def"
        /\ t[k].source = "Def" => k = Home(t[k].def)

(* The two copies of a visibility agree, and every declared def is bound   *)
(* or reported.                                                            *)
DeclsOK(s) ==
    /\ TableOK(s.table)
    /\ \A k \in Key : s.table[k].source = "Def" =>
           /\ s.table[k].vis = s.visibility[s.table[k].def]
           /\ s.table[k].vis # Undeclared
    /\ \A d \in DefId : s.visibility[d] # Undeclared =>
           /\ d.item \in 1 .. Len(crate)
           /\ s.table[Home(d)].source = "Def"
           /\ \/ s.table[Home(d)].def = d
              \/ Diag("DuplicateDef", d.item, 0) \in s.diags

NoImports(t) == \A k \in Key : t[k].source \in {"Absent", "Def"}

DeclInv ==
    /\ TypeInv
    /\ DeclsOK(Declared)
    /\ phase \in {"collect", "pending"} => NoImports(table)
    /\ phase = "collect" =>
           \A d \in DefId : IsDeclared(d) => d.item < pos

LEMMA HomeType ==
    ASSUME crate \in Crates, NEW d \in DefId, d.item \in 1 .. Len(crate)
    PROVE  Home(d) \in Key /\ NameOf(d) \in Names /\ NsOf(d) \in NS
  <1>1. crate[d.item] \in Item
    BY CrateItems
  <1> QED
    BY <1>1 DEF Item, Home, NameOf, NsOf, Key, NS

(* `declare` keeps the invariants, for a def that was not declared yet. *)
LEMMA DeclareOK ==
    ASSUME crate \in Crates,
           parent \in [ModuleId -> ModuleId \cup {NoModule}],
           NEW s \in Collected, DeclsOK(s), NoImports(s.table),
           NEW d \in DefId, d.item \in 1 .. Len(crate),
           s.visibility[d] = Undeclared
    PROVE  /\ DeclsOK(Declare(s, d, NameOf(d), NsOf(d)))
           /\ NoImports(Declare(s, d, NameOf(d), NsOf(d)).table)
           /\ \A e \in DefId \ {d} :
                Declare(s, d, NameOf(d), NsOf(d)).visibility[e] = s.visibility[e]
  <1> DEFINE it  == crate[d.item]
             key == <<it.mod, NameOf(d), NsOf(d)>>
             vis == IF Deferred(it.vis) THEN it.mod
                    ELSE ResolveVisibility(it.vis, it.mod)
             new == [def |-> d, vis |-> vis, source |-> "Def"]
             r   == Declare(s, d, NameOf(d), NsOf(d))
  <1>1. key = Home(d) /\ key \in Key
    BY HomeType DEF Home
  <1>2. vis \in Scope /\ vis # Undeclared
    <2>1. it \in Item
      BY CrateItems
    <2>2. it.mod \in ModuleId /\ it.vis \in SurfaceVis
      BY <2>1 DEF Item
    <2>3. vis \in Scope
      BY <2>2, ResolveVisibilityType DEF Scope
    <2> QED
      BY <2>3, BoundsAssumption DEF Scope, ModuleId
  <1>3. /\ s.table \in [Key -> Binding]
        /\ s.visibility \in [DefId -> Scope \cup {Undeclared}]
    BY DEF Collected
  <1>4. /\ r.table = [s.table EXCEPT ![key] =
                        IF s.table[key].source # "Absent" THEN s.table[key] ELSE new]
        /\ r.visibility = [s.visibility EXCEPT ![d] = vis]
        /\ s.diags \subseteq r.diags
        /\ s.table[key].source # "Absent" =>
              Diag("DuplicateDef", d.item, 0) \in r.diags
    BY <1>1, <1>3 DEF Declare, Clash
  <1>5. new.def = d /\ new.source = "Def" /\ new.vis = vis
    OBVIOUS
  <1> HIDE DEF it, key, vis, new, r
  <1>6. CASE s.table[key].source = "Absent"
    <2>1. /\ r.table[key] = new
          /\ \A k \in Key \ {key} : r.table[k] = s.table[k]
      BY <1>1, <1>3, <1>4, <1>6
    <2>2. \A k \in Key \ {key} : s.table[k].source # "Absent" =>
             s.table[k].def # d /\ Home(s.table[k].def) # key
      BY <1>1, <1>6 DEF DeclsOK, TableOK
    <2>3. \A e \in DefId \ {d} : s.visibility[e] # Undeclared => Home(e) # key
      BY <1>1, <1>6 DEF DeclsOK
    <2>4. NoImports(r.table)
      BY <1>1, <1>5, <2>1 DEF NoImports
    <2>5. TableOK(r.table)
      <3> SUFFICES ASSUME NEW k \in Key
                   PROVE  /\ r.table[k].source = "Absent" => r.table[k].def = NoDef
                          /\ r.table[k].source # "Absent" =>
                               /\ r.table[k].def \in DefId
                               /\ r.table[k].def.item \in 1 .. Len(crate)
                               /\ Home(r.table[k].def)[3] = k[3]
                               /\ r.table[Home(r.table[k].def)].def = r.table[k].def
                               /\ r.table[Home(r.table[k].def)].source = "Def"
                          /\ r.table[k].source = "Def" => k = Home(r.table[k].def)
        BY DEF TableOK
      <3>1. CASE k = key
        BY <1>1, <1>5, <2>1, <3>1
      <3>2. CASE k # key
        <4>1. r.table[k] = s.table[k]
          BY <2>1, <3>2
        <4>2. s.table[k].source # "Absent" => Home(s.table[k].def) \in Key \ {key}
          BY <2>2, <3>2, HomeType DEF DeclsOK, TableOK
        <4> QED
          BY <4>1, <4>2, <2>1 DEF DeclsOK, TableOK
      <3> QED
        BY <3>1, <3>2
    <2>6. \A k \in Key : r.table[k].source = "Def" =>
             /\ r.table[k].vis = r.visibility[r.table[k].def]
             /\ r.table[k].vis # Undeclared
      <3> TAKE k \in Key
      <3>1. CASE k = key
        BY <1>2, <1>3, <1>4, <1>5, <2>1, <3>1
      <3>2. CASE k # key
        <4>1. r.table[k] = s.table[k]
          BY <2>1, <3>2
        <4>2. s.table[k].source = "Def" => s.table[k].def \in DefId \ {d}
          BY <2>2, <3>2 DEF DeclsOK, TableOK
        <4> QED
          BY <1>3, <1>4, <4>1, <4>2 DEF DeclsOK
      <3> QED
        BY <3>1, <3>2
    <2>7. \A e \in DefId : r.visibility[e] # Undeclared =>
             /\ e.item \in 1 .. Len(crate)
             /\ r.table[Home(e)].source = "Def"
             /\ \/ r.table[Home(e)].def = e
                \/ Diag("DuplicateDef", e.item, 0) \in r.diags
      <3> TAKE e \in DefId
      <3>1. CASE e = d
        BY <1>1, <1>5, <2>1, <3>1
      <3>2. CASE e # d
        <4>1. r.visibility[e] = s.visibility[e]
          BY <1>3, <1>4, <3>2
        <4>2. s.visibility[e] # Undeclared => Home(e) \in Key \ {key}
          BY <2>3, <3>2, HomeType DEF DeclsOK
        <4> QED
          BY <1>4, <2>1, <4>1, <4>2 DEF DeclsOK
      <3> QED
        BY <3>1, <3>2
    <2> QED
      BY <1>3, <1>4, <2>4, <2>5, <2>6, <2>7 DEF DeclsOK, r
  <1>7. CASE s.table[key].source # "Absent"
    <2>1. r.table = s.table
      BY <1>1, <1>3, <1>4, <1>7
    <2>2. s.table[key].source = "Def"
      BY <1>1, <1>7 DEF NoImports
    <2>3. \A k \in Key : s.table[k].source = "Def" => s.table[k].def \in DefId \ {d}
      BY DEF DeclsOK, TableOK
    <2>4. TableOK(r.table)
      BY <2>1 DEF DeclsOK
    <2>5. \A k \in Key : r.table[k].source = "Def" =>
             /\ r.table[k].vis = r.visibility[r.table[k].def]
             /\ r.table[k].vis # Undeclared
      BY <1>3, <1>4, <2>1, <2>3 DEF DeclsOK
    <2>6. \A e \in DefId : r.visibility[e] # Undeclared =>
             /\ e.item \in 1 .. Len(crate)
             /\ r.table[Home(e)].source = "Def"
             /\ \/ r.table[Home(e)].def = e
                \/ Diag("DuplicateDef", e.item, 0) \in r.diags
      <3> TAKE e \in DefId
      <3>1. CASE e = d
        BY <1>1, <1>4, <1>7, <2>1, <2>2, <3>1
      <3>2. CASE e # d
        BY <1>3, <1>4, <2>1, <3>2 DEF DeclsOK
      <3> QED
        BY <3>1, <3>2
    <2> QED
      BY <1>3, <1>4, <2>1, <2>4, <2>5, <2>6 DEF DeclsOK, r
  <1> QED
    BY <1>6, <1>7

(* What `declare` does to the table: it keeps every binding but at most    *)
(* one that was absent.                                                    *)
LEMMA DeclareTable ==
    ASSUME NEW s \in Collected, NEW d, NEW name, NEW ns, NEW k \in Key
    PROVE  LET r == Declare(s, d, name, ns)
           IN  \/ r.table[k] = s.table[k]
               \/ /\ s.table[k].source = "Absent"
                  /\ r.table[k].source = "Def"
                  /\ r.table[k].def = d
  <1>1. s.table \in [Key -> Binding]
    BY DEF Collected
  <1> QED
    BY <1>1 DEF Declare

----------------------------------------------------------------------------
(* What an import may do to a binding: take it over from a weaker one with *)
(* a copy of a def that table t binds in the same namespace.               *)

Copies(t, old, new, k) ==
    /\ new.source \in {"Glob", "Import"}
    /\ old.source = "Absent" \/ (old.source = "Glob" /\ new.source = "Import")
    /\ \E j \in Key : /\ t[j].def = new.def
                      /\ t[j].source # "Absent"
                      /\ j[3] = k[3]

LEMMA NoDefIsNoDef == NoDef \notin DefId
  BY BoundsAssumption DEF NoDef, DefId

(* A path that resolves leads to a bound name of the namespace asked for. *)
LEMMA PathLeadsToABinding ==
    ASSUME NEW t \in [Key -> Binding], TableOK(t), NEW segs, NEW from,
           NEW ns, ResolvePath(t, segs, from, ns) \in DefId
    PROVE  \E j \in Key : /\ t[j].def = ResolvePath(t, segs, from, ns)
                          /\ t[j].source # "Absent"
                          /\ j[3] = ns
  <1> DEFINE m == Walk(t, segs, from)[Len(segs)]
             name == segs[Len(segs)]
             j == <<m, name, ns>>
  <1>1. ResolvePath(t, segs, from, ns) = Lookup(t, m, name, ns).def
    BY NoDefIsNoDef DEF ResolvePath
  <1> HIDE DEF m, name
  <1>2. j \in Key
    BY <1>1, NoDefIsNoDef DEF Lookup, Absent
  <1>3. t[j].def = ResolvePath(t, segs, from, ns)
    BY <1>1, <1>2 DEF Lookup
  <1>4. t[j].source # "Absent"
    BY <1>2, <1>3, NoDefIsNoDef DEF TableOK
  <1> QED
    BY <1>2, <1>3, <1>4

(* Inserting a def that the table binds copies it, or changes nothing. *)
LEMMA InsertedCopies ==
    ASSUME NEW t, NEW b, NEW d, NEW source \in {"Glob", "Import"}, NEW k \in Key,
           d \in DefId => \E j \in Key : /\ t[j].def = d
                                         /\ t[j].source # "Absent"
                                         /\ j[3] = k[3]
    PROVE  Inserted(b, d, source) = b \/ Copies(t, b, Inserted(b, d, source), k)
  BY DEF Inserted, Copies

(* The steps of the import phase only copy. *)
LEMMA ImportsCopy ==
    ASSUME DeclInv, ImportLeaf \/ ImportSelf \/ ImportGlob, NEW k \in Key
    PROVE  table'[k] = table[k] \/ Copies(table, table[k], table'[k], k)
  <1>1. TypeInv /\ table \in [Key -> Binding] /\ TableOK(table)
    BY DEF DeclInv, TypeInv, TypeOK, DeclsOK, Declared
  <1>2. pos \in 1 .. Len(uses) /\ leaf \in 1 .. Len(CurrentUse.leaves)
    BY <1>1 DEF ImportLeaf, ImportSelf, ImportGlob, ImportStep, Importing,
                TypeInv, TypeOK
  <1>3. CurrentUse.mod \in ModuleId /\ CurrentLeaf.name \in Names
    BY <1>1, <1>2, CurrentUseType, CurrentLeafType
  <1>4. CASE ImportLeaf
    <2> DEFINE m == CurrentUse.mod
               key(ns) == <<m, CurrentLeaf.name, ns>>
               d(t, ns) == ResolvePath(t, CurrentLeaf.segs, m, ns)
               t1 == [table EXCEPT ![key("Module")] =
                         Inserted(@, d(table, "Module"), "Import")]
               t2 == [t1 EXCEPT ![key("Item")] =
                         Inserted(@, d(t1, "Item"), "Import")]
    <2>1. table' = t2
      BY <1>4 DEF ImportLeaf, Apply
    <2>2. key("Module") \in Key /\ key("Item") \in Key
      BY <1>3 DEF Key, NS
    <2>3. key("Module")[3] = "Module" /\ key("Item")[3] = "Item"
      OBVIOUS
    <2>4. key("Module") # key("Item")
      BY <2>3
    <2>5. d(table, "Module") \in DefId =>
             \E j \in Key : /\ table[j].def = d(table, "Module")
                            /\ table[j].source # "Absent"
                            /\ j[3] = "Module"
      BY <1>1, PathLeadsToABinding
    <2> HIDE DEF m, key, d
    <2>6. t1[key("Module")] = table[key("Module")]
          \/ Copies(table, table[key("Module")], t1[key("Module")], key("Module"))
      BY <1>1, <2>2, <2>3, <2>5, InsertedCopies
    <2>7. \A j \in Key \ {key("Module")} : t1[j] = table[j]
      BY <1>1, <2>2
    <2>8. t1 \in [Key -> Binding]
      <3>1. table[key("Module")] \in Binding
        BY <1>1, <2>2
      <3>2. Inserted(table[key("Module")], d(table, "Module"), "Import") \in Binding
        BY <1>1, <3>1, InsertedType DEF TypeInv, TypeOK
      <3> QED
        BY <1>1, <2>2, <3>2
    <2>9. d(t1, "Item") \in DefId =>
             \E j \in Key : /\ table[j].def = d(t1, "Item")
                            /\ table[j].source # "Absent"
                            /\ j[3] = "Item"
      <3> SUFFICES ASSUME d(t1, "Item") \in DefId
                   PROVE  \E j \in Key : /\ table[j].def = d(t1, "Item")
                                         /\ table[j].source # "Absent"
                                         /\ j[3] = "Item"
        OBVIOUS
      <3> DEFINE w == Walk(t1, CurrentLeaf.segs, m)[Len(CurrentLeaf.segs)]
                 name == CurrentLeaf.segs[Len(CurrentLeaf.segs)]
                 j == <<w, name, "Item">>
      <3>1. d(t1, "Item") = Lookup(t1, w, name, "Item").def
        BY NoDefIsNoDef DEF ResolvePath, d
      <3> HIDE DEF w, name, t1
      <3>2. j \in Key
        BY <3>1, NoDefIsNoDef DEF Lookup, Absent
      <3>3. t1[j].def = d(t1, "Item")
        BY <3>1, <3>2 DEF Lookup
      <3>4. j[3] = "Item"
        OBVIOUS
      <3>5. t1[j] = table[j]
        BY <2>3, <2>7, <3>2, <3>4
      <3>6. table[j].source # "Absent"
        BY <1>1, <3>2, <3>3, <3>5, NoDefIsNoDef DEF TableOK
      <3> QED
        BY <3>2, <3>3, <3>4, <3>5, <3>6
    <2> HIDE DEF t1
    <2>10. CASE k = key("Item")
      <3>1. t1[k] = table[k]
        BY <2>4, <2>7, <2>10
      <3>2. t2[k] = Inserted(table[k], d(t1, "Item"), "Import")
        BY <2>2, <2>8, <2>10, <3>1
      <3>3. t2[k] = table[k] \/ Copies(table, table[k], t2[k], k)
        BY <2>3, <2>9, <2>10, <3>2, InsertedCopies
      <3> QED
        BY <2>1, <3>3
    <2>11. CASE k # key("Item")
      <3>1. t2[k] = t1[k]
        BY <2>8, <2>11
      <3> QED
        BY <2>1, <2>6, <2>7, <3>1
    <2> QED
      BY <2>10, <2>11
  <1>5. CASE ImportSelf
    <2> DEFINE key == <<CurrentUse.mod, CurrentLeaf.name, "Module">>
               d == ResolvePath(table, Front(CurrentLeaf.segs), CurrentUse.mod, "Module")
    <2>1. table' = [table EXCEPT ![key] = Inserted(@, d, "Import")]
      BY <1>5 DEF ImportSelf, Apply
    <2>2. key \in Key /\ key[3] = "Module"
      BY <1>3 DEF Key, NS
    <2>3. d \in DefId => \E j \in Key : /\ table[j].def = d
                                        /\ table[j].source # "Absent"
                                        /\ j[3] = "Module"
      BY <1>1, PathLeadsToABinding
    <2> HIDE DEF key, d
    <2>4. CASE k = key
      <3>1. table'[k] = Inserted(table[k], d, "Import")
        BY <1>1, <2>1, <2>2, <2>4
      <3> QED
        BY <2>2, <2>3, <2>4, <3>1, InsertedCopies
    <2>5. CASE k # key
      BY <1>1, <2>1, <2>5
    <2> QED
      BY <2>4, <2>5
  <1>6. CASE ImportGlob
    <2> DEFINE m == CurrentUse.mod
               target == ResolvePathToModule(table, CurrentLeaf.segs, m)
               j == <<target, k[2], k[3]>>
               from(l) == table[<<target, l[2], l[3]>>]
    <2>1. table'[k] = IF GlobBrings(target, m, k)
                      THEN Inserted(table[k], from(k).def, "Glob")
                      ELSE table[k]
      BY <1>6 DEF ImportGlob, Apply
    <2>2. CASE ~GlobBrings(target, m, k)
      BY <2>1, <2>2
    <2>3. CASE GlobBrings(target, m, k)
      <3>1. target \in ModuleId
        BY <2>3 DEF GlobBrings
      <3> HIDE DEF target
      <3>2. j \in Key /\ j[3] = k[3]
        BY <3>1 DEF Key
      <3>3. from(k).def \in DefId =>
               \E l \in Key : /\ table[l].def = from(k).def
                              /\ table[l].source # "Absent"
                              /\ l[3] = k[3]
        BY <1>1, <3>2, NoDefIsNoDef DEF TableOK
      <3> QED
        BY <2>1, <2>3, <3>3, InsertedCopies
    <2> QED
      BY <2>2, <2>3
  <1> QED
    BY <1>4, <1>5, <1>6

(* Copying keeps the table's invariant and every def. *)
LEMMA CopiesKeepTable ==
    ASSUME crate \in Crates, NEW t, NEW t2, TableOK(t),
           \A k \in Key : t2[k] = t[k] \/ Copies(t, t[k], t2[k], k)
    PROVE  /\ TableOK(t2)
           /\ \A k \in Key : t[k].source = "Def" \/ t2[k].source = "Def" =>
                                t2[k] = t[k]
  <1>1. \A k \in Key : t[k].source = "Def" \/ t2[k].source = "Def" => t2[k] = t[k]
    BY DEF Copies
  <1>2. ASSUME NEW k \in Key, t[k].source # "Absent"
        PROVE  Home(t[k].def) \in Key
    BY <1>2, HomeType DEF TableOK
  <1>3. ASSUME NEW k \in Key
        PROVE  /\ t2[k].source = "Absent" => t2[k].def = NoDef
               /\ t2[k].source # "Absent" =>
                    /\ t2[k].def \in DefId
                    /\ t2[k].def.item \in 1 .. Len(crate)
                    /\ Home(t2[k].def)[3] = k[3]
                    /\ t2[Home(t2[k].def)].def = t2[k].def
                    /\ t2[Home(t2[k].def)].source = "Def"
               /\ t2[k].source = "Def" => k = Home(t2[k].def)
    <2>1. CASE t2[k] = t[k]
      BY <1>1, <1>2, <2>1 DEF TableOK
    <2>2. CASE Copies(t, t[k], t2[k], k)
      <3>1. PICK j \in Key : /\ t[j].def = t2[k].def
                             /\ t[j].source # "Absent"
                             /\ j[3] = k[3]
        BY <2>2 DEF Copies
      <3>2. t2[k].source \in {"Glob", "Import"}
        BY <2>2 DEF Copies
      <3>3. /\ t[j].def \in DefId
            /\ t[j].def.item \in 1 .. Len(crate)
            /\ Home(t[j].def)[3] = j[3]
            /\ t[Home(t[j].def)].def = t[j].def
            /\ t[Home(t[j].def)].source = "Def"
        BY <3>1 DEF TableOK
      <3>4. t2[Home(t[j].def)] = t[Home(t[j].def)]
        BY <1>1, <1>2, <3>1, <3>3
      <3> QED
        BY <3>1, <3>2, <3>3, <3>4
    <2> QED
      BY <2>1, <2>2
  <1> QED
    BY <1>1, <1>3 DEF TableOK

----------------------------------------------------------------------------
(* The invariants of the declarations are inductive. *)

LEMMA DeclInit == Init => DeclInv
  <1> SUFFICES ASSUME Init PROVE DeclInv
    OBVIOUS
  <1>1. TypeInv
    BY TypeInit
  <1>2. \A k \in Key : table[k] = Absent
    BY DEF Init
  <1>3. \A d \in DefId : visibility[d] = Undeclared
    BY DEF Init
  <1> QED
    BY <1>1, <1>2, <1>3
    DEF DeclInv, DeclsOK, TableOK, NoImports, Declared, IsDeclared, Absent

(* The item being collected has not been declared yet. *)
LEMMA NextItem ==
    ASSUME DeclInv, NEW kinds, Collecting(kinds), NEW role \in {"Item", "Ctor"}
    PROVE  /\ Def(pos, role) \in DefId
           /\ Def(pos, role).item = pos
           /\ pos \in 1 .. Len(crate)
           /\ visibility[Def(pos, role)] = Undeclared
           /\ \A k \in Key : table[k].source # "Absent" =>
                                table[k].def # Def(pos, role)
  <1>1. /\ Def(pos, role) \in DefId
        /\ Def(pos, role).item = pos
        /\ pos \in 1 .. Len(crate)
    BY TypeCollect DEF DeclInv
  <1>2. visibility[Def(pos, role)] = Undeclared
    BY <1>1 DEF DeclInv, Collecting, IsDeclared
  <1>3. ASSUME NEW k \in Key, table[k].source # "Absent"
        PROVE  visibility[table[k].def] # Undeclared
    <2> DEFINE h == Home(table[k].def)
    <2>1. h \in Key /\ table[h].source = "Def" /\ table[h].def = table[k].def
      BY <1>3, HomeType DEF DeclInv, TypeInv, DeclsOK, TableOK, Declared
    <2> QED
      BY <2>1 DEF DeclInv, DeclsOK, Declared
  <1> QED
    BY <1>1, <1>2, <1>3

(* A step of phase 1 that leaves the collection in record s. *)
LEMMA CollectedOK ==
    ASSUME TypeInv', DeclInv, NEW kinds, Collecting(kinds), NEW s \in Collected,
           DeclsOK(s), NoImports(s.table),
           table' = s.table, visibility' = s.visibility, s.diags \subseteq diags',
           \A d \in DefId : s.visibility[d] # Undeclared =>
                               d.item = pos \/ visibility[d] # Undeclared
    PROVE  DeclInv'
  <1>1. crate' = crate /\ phase' = phase /\ pos' = pos + 1 /\ phase = "collect"
    BY DEF Collecting
  <1>2. DeclsOK(Declared)'
    BY <1>1 DEF DeclsOK, TableOK, Declared, Home, NameOf, NsOf
  <1>3. NoImports(table)'
    BY DEF NoImports
  <1>4. \A d \in DefId : d.item \in Nat
    BY DEF DefId
  <1>5. ASSUME NEW d \in DefId, visibility'[d] # Undeclared
        PROVE  d.item < pos'
    <2>1. d.item = pos \/ d.item < pos
      BY <1>1, <1>5 DEF DeclInv, IsDeclared
    <2>2. pos \in Nat
      BY DEF DeclInv, TypeInv, TypeOK
    <2> QED
      BY <1>1, <1>4, <2>1, <2>2
  <1> QED
    BY <1>2, <1>3, <1>5 DEF DeclInv, IsDeclared

(* A step that changes neither the declarations nor the table. *)
LEMMA DeclUnchanged ==
    ASSUME TypeInv', DeclInv, UNCHANGED <<crate, table, visibility>>,
           diags \subseteq diags',
           phase' \in {"collect", "pending"} => phase \in {"collect", "pending"},
           phase' = "collect" => phase = "collect" /\ pos' \in Nat /\ pos <= pos'
    PROVE  DeclInv'
  <1>1. DeclsOK(Declared)'
    <2>1. \A d : Home(d)' = Home(d)
      BY DEF Home, NameOf, NsOf
    <2>2. TableOK(table)'
      BY <2>1 DEF DeclInv, DeclsOK, TableOK, Declared
    <2>3. /\ Declared.table = table /\ Declared'.table = table'
          /\ Declared.visibility = visibility /\ Declared'.visibility = visibility'
          /\ Declared.diags = diags /\ Declared'.diags = diags'
      BY DEF Declared
    <2> QED
      BY <2>1, <2>2, <2>3 DEF DeclInv, DeclsOK
  <1>2. \A d \in DefId : d.item \in Nat
    BY DEF DefId
  <1>3. phase' = "collect" => (\A d \in DefId : IsDeclared(d) => d.item < pos)'
    BY <1>2 DEF DeclInv, IsDeclared, TypeInv, TypeOK
  <1> QED
    BY <1>1, <1>3 DEF DeclInv, NoImports

(* A refinement of visibilities changes neither defs nor sources. *)
LEMMA PendingKeepsDecls ==
    ASSUME TypeInv', DeclInv, ResolvePending
    PROVE  DeclInv'
  <1> DEFINE key == pending[pos].key
             r   == ResolvePathToModule(table, pending[pos].path, key[1])
             vis == IF r \in ModuleId THEN r ELSE key[1]
             b   == table[key]
  <1>1. /\ crate' = crate /\ phase = "pending" /\ phase' = phase /\ diags' = diags
        /\ table' = [table EXCEPT ![key] = Refined(@, vis)]
        /\ visibility' = IF b.source = "Absent" THEN visibility
                         ELSE [visibility EXCEPT ![b.def] = vis]
    BY DEF ResolvePending
  <1>2. pending[pos] \in PendingEntry
    BY DEF ResolvePending, DeclInv, TypeInv, TypeOK
  <1>3. key \in Key /\ key[1] \in ModuleId
    BY <1>2 DEF PendingEntry, Key
  <1>4. vis # Undeclared
    BY <1>3, BoundsAssumption DEF ModuleId
  <1>5. /\ table \in [Key -> Binding]
        /\ visibility \in [DefId -> Scope \cup {Undeclared}]
    BY DEF DeclInv, TypeInv, TypeOK
  <1>6. NoImports(table) /\ DeclsOK(Declared) /\ TableOK(table) /\ crate \in Crates
    BY <1>1 DEF DeclInv, DeclsOK, Declared, TypeInv
  <1> HIDE DEF key, vis
  <1>7. CASE b.source = "Absent"
    <2>1. table' = table
      BY <1>1, <1>3, <1>5, <1>7 DEF Refined
    <2>2. visibility' = visibility
      BY <1>1, <1>7
    <2> QED
      BY <1>1, <2>1, <2>2, DeclUnchanged
  <1>8. CASE b.source # "Absent"
    <2>1. b.source = "Def" /\ b.def \in DefId /\ key = Home(b.def) /\ b \in Binding
      BY <1>3, <1>5, <1>6, <1>8 DEF NoImports, TableOK
    <2>2. \A k \in Key \ {key} : table'[k] = table[k]
      BY <1>1, <1>5
    <2>3. /\ table'[key].def = b.def
          /\ table'[key].source = "Def"
          /\ table'[key].vis = vis
      BY <1>1, <1>3, <1>5, <2>1 DEF Refined, Binding
    <2>4. \A k \in Key : table'[k].def = table[k].def /\ table'[k].source = table[k].source
      BY <2>1, <2>2, <2>3
    <2>5. /\ visibility'[b.def] = vis
          /\ \A d \in DefId \ {b.def} : visibility'[d] = visibility[d]
      BY <1>1, <1>5, <1>8, <2>1
    <2>6. \A d : Home(d)' = Home(d)
      BY <1>1 DEF Home, NameOf, NsOf
    <2>7. \A d \in DefId : d.item \in 1 .. Len(crate) => Home(d) \in Key
      BY <1>6, HomeType
    <2>8. TableOK(table)'
      BY <1>1, <1>6, <2>4, <2>6, <2>7 DEF TableOK
    <2>9. \A k \in Key : table'[k].source = "Def" =>
             /\ table'[k].vis = visibility'[table'[k].def]
             /\ table'[k].vis # Undeclared
      <3> TAKE k \in Key
      <3>1. CASE k = key
        BY <1>4, <2>3, <2>5, <3>1
      <3>2. CASE k # key
        <4>1. table[k].source = "Def" => table[k].def \in DefId \ {b.def}
          BY <1>6, <2>1, <3>2 DEF TableOK
        <4> QED
          BY <1>6, <2>2, <2>5, <3>2, <4>1 DEF DeclsOK, Declared
      <3> QED
        BY <3>1, <3>2
    <2>10. \A d \in DefId : visibility[d] # Undeclared =>
             /\ d.item \in 1 .. Len(crate)
             /\ table[Home(d)].source = "Def"
             /\ \/ table[Home(d)].def = d
                \/ Diag("DuplicateDef", d.item, 0) \in diags
      BY <1>6 DEF DeclsOK, Declared
    <2>11. visibility[b.def] # Undeclared
      BY <1>3, <1>6, <2>1 DEF DeclsOK, Declared
    <2>12. \A d \in DefId : visibility'[d] # Undeclared =>
             /\ d.item \in 1 .. Len(crate')
             /\ table'[Home(d)'].source = "Def"
             /\ \/ table'[Home(d)'].def = d
                \/ Diag("DuplicateDef", d.item, 0) \in diags'
      BY <1>1, <2>4, <2>5, <2>6, <2>7, <2>10, <2>11
    <2>13. DeclsOK(Declared)'
      BY <2>8, <2>9, <2>12 DEF DeclsOK, Declared
    <2>14. NoImports(table)'
      BY <1>6, <2>4 DEF NoImports
    <2> QED
      BY <1>1, <2>13, <2>14 DEF DeclInv
  <1> QED
    BY <1>7, <1>8

(* Importing keeps the declarations. *)
LEMMA ImportsKeepDecls ==
    ASSUME TypeInv', DeclInv, ImportLeaf \/ ImportSelf \/ ImportGlob
    PROVE  DeclInv'
  <1>1. /\ crate' = crate /\ phase' = "imports"
        /\ visibility' = visibility /\ diags' = diags
    BY DEF ImportLeaf, ImportSelf, ImportGlob, ImportStep, Importing
  <1>2. TableOK(table) /\ crate \in Crates /\ DeclsOK(Declared)
    BY DEF DeclInv, DeclsOK, Declared, TypeInv
  <1>3. /\ TableOK(table')
        /\ \A k \in Key : table[k].source = "Def" \/ table'[k].source = "Def" =>
                             table'[k] = table[k]
    BY <1>2, ImportsCopy, CopiesKeepTable
  <1>4. \A d : Home(d)' = Home(d)
    BY <1>1 DEF Home, NameOf, NsOf
  <1>5. TableOK(table)'
    BY <1>1, <1>3, <1>4 DEF TableOK
  <1>6. \A k \in Key : table'[k].source = "Def" =>
           /\ table'[k].vis = visibility'[table'[k].def]
           /\ table'[k].vis # Undeclared
    BY <1>1, <1>2, <1>3 DEF DeclsOK, Declared
  <1>7. \A d \in DefId : d.item \in 1 .. Len(crate) => Home(d) \in Key
    BY <1>2, HomeType
  <1>8. \A d \in DefId : visibility'[d] # Undeclared =>
           /\ d.item \in 1 .. Len(crate')
           /\ table'[Home(d)'].source = "Def"
           /\ \/ table'[Home(d)'].def = d
              \/ Diag("DuplicateDef", d.item, 0) \in diags'
    BY <1>1, <1>2, <1>3, <1>4, <1>7 DEF DeclsOK, Declared
  <1>9. DeclsOK(Declared)'
    BY <1>5, <1>6, <1>8 DEF DeclsOK, Declared
  <1> QED
    BY <1>1, <1>9 DEF DeclInv

LEMMA DeclStep == DeclInv /\ [Next]_vars => DeclInv'
  <1> SUFFICES ASSUME DeclInv, [Next]_vars PROVE DeclInv'
    OBVIOUS
  <1>1. TypeInv /\ TypeInv'
    BY TypeStep DEF DeclInv
  <1>2. crate \in Crates /\ parent \in [ModuleId -> ModuleId \cup {NoModule}]
    BY <1>1 DEF TypeInv, TypeOK
  <1>3. Declared \in Collected
    BY <1>1, DeclaredType DEF TypeInv
  <1>4. CASE CollectItem
    <2> DEFINE d == Def(pos, "Item")
               s == Declare(Declared, d, NameOf(d), NsOf(d))
    <2>1. Collecting({"fn", "trait"})
      BY <1>4 DEF CollectItem
    <2>2. d \in DefId /\ d.item = pos /\ pos \in 1 .. Len(crate)
          /\ visibility[d] = Undeclared
      BY <2>1, NextItem
    <2>3. NameOf(d) = crate[pos].name /\ NsOf(d) = "Item"
      BY <2>1, <2>2 DEF Collecting, NameOf, NsOf, Def
    <2>4. Become(s)
      BY <1>4, <2>3 DEF CollectItem
    <2>5. s \in Collected
      BY <1>2, <1>3, <2>2, DeclareType, HomeType
    <2>6. DeclsOK(Declared) /\ NoImports(Declared.table)
          /\ Declared.visibility = visibility
      BY <2>1 DEF DeclInv, Collecting, Declared
    <2>7. /\ DeclsOK(s) /\ NoImports(s.table)
          /\ \A e \in DefId \ {d} : s.visibility[e] = visibility[e]
      BY <1>2, <1>3, <2>2, <2>6, DeclareOK
    <2>8. \A e \in DefId : s.visibility[e] # Undeclared =>
             e.item = pos \/ visibility[e] # Undeclared
      BY <2>2, <2>7
    <2> HIDE DEF s
    <2> QED
      BY <1>1, <2>1, <2>4, <2>5, <2>7, <2>8, CollectedOK DEF Become
  <1>5. CASE DeclareAdt
    <2> DEFINE d1 == Def(pos, "Item")
               d2 == Def(pos, "Ctor")
               s1 == Declare(Declared, d1, NameOf(d1), NsOf(d1))
               s2 == Declare(s1, d2, NameOf(d2), NsOf(d2))
    <2>1. Collecting({"adt"})
      BY <1>5 DEF DeclareAdt
    <2>2. /\ d1 \in DefId /\ d1.item = pos /\ visibility[d1] = Undeclared
          /\ d2 \in DefId /\ d2.item = pos /\ visibility[d2] = Undeclared
          /\ pos \in 1 .. Len(crate)
      BY <2>1, NextItem
    <2>3. d1 # d2
      BY DEF Def
    <2>4. /\ NameOf(d1) = crate[pos].name /\ NsOf(d1) = "Item"
          /\ NameOf(d2) = crate[pos].ctor /\ NsOf(d2) = "Item"
      BY <2>1, <2>2 DEF Collecting, NameOf, NsOf, Def
    <2>5. Become(s2)
      BY <1>5, <2>4 DEF DeclareAdt
    <2>6. DeclsOK(Declared) /\ NoImports(Declared.table)
          /\ Declared.visibility = visibility
      BY <2>1 DEF DeclInv, Collecting, Declared
    <2>7. s1 \in Collected
      BY <1>2, <1>3, <2>2, DeclareType, HomeType
    <2>8. /\ DeclsOK(s1) /\ NoImports(s1.table)
          /\ \A e \in DefId \ {d1} : s1.visibility[e] = visibility[e]
      BY <1>2, <1>3, <2>2, <2>6, DeclareOK
    <2> HIDE DEF s1, d1, d2
    <2>9. s1.visibility[d2] = Undeclared
      BY <2>2, <2>3, <2>8
    <2>10. s2 \in Collected
      BY <1>2, <2>2, <2>7, DeclareType, HomeType
    <2>11. /\ DeclsOK(s2) /\ NoImports(s2.table)
           /\ \A e \in DefId \ {d2} : s2.visibility[e] = s1.visibility[e]
      BY <1>2, <2>2, <2>7, <2>8, <2>9, DeclareOK
    <2> HIDE DEF s2
    <2>12. \A e \in DefId : s2.visibility[e] # Undeclared =>
              e.item = pos \/ visibility[e] # Undeclared
      BY <2>2, <2>8, <2>11
    <2> QED
      BY <1>1, <2>1, <2>5, <2>10, <2>11, <2>12, CollectedOK DEF Become
  <1>6. CASE CollectMod
    <2> DEFINE d == Def(pos, "Item")
               s == Declare(Declared, d, NameOf(d), NsOf(d))
               missing == IF crate[pos].found THEN {}
                          ELSE {Diag("UnresolvedModule", pos, 0)}
    <2>1. Collecting({"mod"})
      BY <1>6 DEF CollectMod
    <2>2. d \in DefId /\ d.item = pos /\ pos \in 1 .. Len(crate)
          /\ visibility[d] = Undeclared
      BY <2>1, NextItem
    <2>3. NameOf(d) = crate[pos].name /\ NsOf(d) = "Module"
      BY <2>1, <2>2 DEF Collecting, NameOf, NsOf, Def
    <2>4. Become([s EXCEPT !.diags = @ \cup missing])
      BY <1>6, <2>3 DEF CollectMod
    <2>5. s \in Collected
      BY <1>2, <1>3, <2>2, DeclareType, HomeType
    <2>6. DeclsOK(Declared) /\ NoImports(Declared.table)
          /\ Declared.visibility = visibility
      BY <2>1 DEF DeclInv, Collecting, Declared
    <2>7. /\ DeclsOK(s) /\ NoImports(s.table)
          /\ \A e \in DefId \ {d} : s.visibility[e] = visibility[e]
      BY <1>2, <1>3, <2>2, <2>6, DeclareOK
    <2>8. \A e \in DefId : s.visibility[e] # Undeclared =>
             e.item = pos \/ visibility[e] # Undeclared
      BY <2>2, <2>7
    <2> HIDE DEF s, missing
    <2>9. table' = s.table /\ visibility' = s.visibility /\ s.diags \subseteq diags'
      BY <2>4, <2>5 DEF Become, Collected
    <2> QED
      BY <1>1, <2>1, <2>5, <2>7, <2>8, <2>9, CollectedOK
  <1>7. CASE CollectUse
    <2>1. /\ UNCHANGED <<crate, table, visibility, diags>>
          /\ phase = "collect" /\ pos' = pos + 1
      BY <1>7 DEF CollectUse, Collecting
    <2>2. pos \in Nat
      BY <1>1 DEF TypeInv, TypeOK
    <2> QED
      BY <1>1, <2>1, <2>2, DeclUnchanged
  <1>8. CASE EndCollect
    <2>1. /\ UNCHANGED <<crate, table, visibility, diags>>
          /\ phase = "collect" /\ phase' = "pending"
      BY <1>8 DEF EndCollect
    <2> QED
      BY <1>1, <2>1, DeclUnchanged
  <1>9. CASE ResolvePending
    BY <1>1, <1>9, PendingKeepsDecls
  <1>10. CASE EndPending \/ BeginUse \/ EndUse \/ EndPass
    <2>1. /\ UNCHANGED <<crate, table, visibility, diags>>
          /\ phase' \in {"imports", "check"}
      BY <1>10 DEF EndPending, BeginUse, EndUse, EndPass, Importing
    <2> QED
      BY <1>1, <2>1, DeclUnchanged
  <1>11. CASE ImportLeaf \/ ImportSelf \/ ImportGlob
    BY <1>1, <1>11, ImportsKeepDecls
  <1>12. CASE CheckLeaf \/ EndCheckUse \/ EndCheck
    <2>1. /\ UNCHANGED <<crate, table, visibility>> /\ diags \subseteq diags'
          /\ phase' \in {"check", "done"}
      BY <1>12 DEF CheckLeaf, EndCheckUse, EndCheck
    <2> QED
      BY <1>1, <2>1, DeclUnchanged
  <1>13. CASE UNCHANGED vars
    <2>1. /\ UNCHANGED <<crate, table, visibility, diags, phase, pos>>
      BY <1>13 DEF vars
    <2>2. pos \in Nat
      BY <1>1 DEF TypeInv, TypeOK
    <2> QED
      BY <1>1, <2>1, <2>2, DeclUnchanged
  <1> QED
    BY <1>4, <1>5, <1>6, <1>7, <1>8, <1>9, <1>10, <1>11, <1>12, <1>13
    DEF Next, Terminated

LEMMA DeclAlways == Spec => []DeclInv
  BY DeclInit, DeclStep, PTL DEF Spec

(* Whatever chain of imports leads to a def, it is the def that won its    *)
(* own declaration, in the namespace it was asked for.                     *)
THEOREM BoundDefsWon == Spec => []BoundDefsWonTheirName
  <1>1. ASSUME DeclInv PROVE BoundDefsWonTheirName
    <2> SUFFICES ASSUME NEW k \in Key, table[k].source # "Absent"
                 PROVE  LET d == table[k].def
                        IN  /\ IsDeclared(d)
                            /\ Home(d)[3] = k[3]
                            /\ table[Home(d)].def = d
                            /\ table[Home(d)].source = "Def"
                            /\ table[k].source = "Def" => k = Home(d)
      BY DEF BoundDefsWonTheirName
    <2> DEFINE d == table[k].def
    <2>1. /\ d \in DefId /\ d.item \in 1 .. Len(crate)
          /\ Home(d)[3] = k[3]
          /\ table[Home(d)].def = d
          /\ table[Home(d)].source = "Def"
          /\ table[k].source = "Def" => k = Home(d)
      BY <1>1 DEF DeclInv, DeclsOK, TableOK, Declared
    <2>2. Home(d) \in Key
      BY <1>1, <2>1, HomeType DEF DeclInv, TypeInv
    <2>3. IsDeclared(d)
      BY <1>1, <2>1, <2>2 DEF DeclInv, DeclsOK, Declared, IsDeclared
    <2> QED
      BY <2>1, <2>3
  <1> QED
    BY <1>1, DeclAlways, PTL

(* The two copies of a def's visibility never disagree, through the        *)
(* refinement of `pub(in path)` and every import.                          *)
THEOREM VisibilitiesAgree == Spec => []VisibilityAgrees
  <1>1. DeclInv => VisibilityAgrees
    BY DEF DeclInv, DeclsOK, Declared, VisibilityAgrees
  <1> QED
    BY <1>1, DeclAlways, PTL

(* No declaration is lost silently, in any crate.                          *)
THEOREM LostReported == Spec => []LostDeclarationsReported
  <1>1. DeclInv => LostDeclarationsReported
    BY DEF DeclInv, DeclsOK, Declared, LostDeclarationsReported, IsDeclared
  <1> QED
    BY <1>1, DeclAlways, PTL

----------------------------------------------------------------------------
(* The Collector implements NameTable. *)

(* A step of phase 1 declares the defs of the item it collects. *)
LEMMA CollectDeclares ==
    ASSUME TypeInv', DeclInv, NEW kinds, Collecting(kinds),
           \A k \in Key : \/ table'[k] = table[k]
                          \/ /\ table[k].source = "Absent"
                             /\ table'[k].source = "Def"
                             /\ \E role \in {"Item", "Ctor"} :
                                   table'[k].def = Def(pos, role)
    PROVE  NT!Declare
  <1>1. phase = "collect" /\ phase' = "collect"
    BY DEF Collecting
  <1>2. stage = "declaring" /\ stage' = "declaring"
    BY <1>1 DEF stage
  <1>3. DOMAIN table' = Key
    BY DEF TypeInv, TypeOK
  <1>4. \A role \in {"Item", "Ctor"}, j \in Key :
           table[j].source # "Absent" => table[j].def # Def(pos, role)
    BY NextItem
  <1> QED
    BY <1>2, <1>3, <1>4 DEF NT!Declare, NT!Declares

(* Every step of the Collector is a step of NameTable, or changes neither  *)
(* the stage nor the table.                                                *)
LEMMA StepImplements == DeclInv /\ [Next]_vars => [NT!Next]_<<stage, table>>
  <1> SUFFICES ASSUME DeclInv, [Next]_vars
               PROVE  NT!Next \/ (stage' = stage /\ table' = table)
    OBVIOUS
  <1>1. TypeInv /\ TypeInv'
    BY TypeStep DEF DeclInv
  <1>2. /\ crate \in Crates
        /\ parent \in [ModuleId -> ModuleId \cup {NoModule}]
        /\ table \in [Key -> Binding] /\ table' \in [Key -> Binding]
    BY <1>1 DEF TypeInv, TypeOK
  <1>3. Declared \in Collected /\ Declared.table = table
    BY <1>1, DeclaredType DEF TypeInv, Declared
  <1>4. CASE CollectItem
    <2>1. Collecting({"fn", "trait"})
      BY <1>4 DEF CollectItem
    <2>2. table' = Declare(Declared, Def(pos, "Item"), crate[pos].name, "Item").table
      BY <1>4 DEF CollectItem, Become
    <2>3. NT!Declare
      BY <1>1, <1>3, <2>1, <2>2, DeclareTable, CollectDeclares
    <2> QED
      BY <2>3 DEF NT!Next
  <1>5. CASE DeclareAdt
    <2> DEFINE s1 == Declare(Declared, Def(pos, "Item"), crate[pos].name, "Item")
               s2 == Declare(s1, Def(pos, "Ctor"), crate[pos].ctor, "Item")
    <2>1. Collecting({"adt"})
      BY <1>5 DEF DeclareAdt
    <2>2. table' = s2.table
      BY <1>5 DEF DeclareAdt, Become
    <2>3. s1 \in Collected
      BY <1>1, <1>2, <1>3, <2>1, TypeCollect, DeclareType DEF NS
    <2>4. \A k \in Key :
             \/ s1.table[k] = table[k]
             \/ /\ table[k].source = "Absent"
                /\ s1.table[k].source = "Def"
                /\ s1.table[k].def = Def(pos, "Item")
      BY <1>3, DeclareTable
    <2> HIDE DEF s1
    <2>5. \A k \in Key :
             \/ s2.table[k] = s1.table[k]
             \/ /\ s1.table[k].source = "Absent"
                /\ s2.table[k].source = "Def"
                /\ s2.table[k].def = Def(pos, "Ctor")
      BY <2>3, DeclareTable
    <2> HIDE DEF s2
    <2>6. NT!Declare
      BY <1>1, <2>1, <2>2, <2>4, <2>5, CollectDeclares
    <2> QED
      BY <2>6 DEF NT!Next
  <1>6. CASE CollectMod
    <2> DEFINE s == Declare(Declared, Def(pos, "Item"), crate[pos].name, "Module")
               missing == IF crate[pos].found THEN {}
                          ELSE {Diag("UnresolvedModule", pos, 0)}
    <2>1. Collecting({"mod"})
      BY <1>6 DEF CollectMod
    <2>2. s \in Collected
      BY <1>1, <1>2, <1>3, <2>1, TypeCollect, DeclareType DEF NS
    <2>3. Become([s EXCEPT !.diags = @ \cup missing])
      BY <1>6 DEF CollectMod
    <2>4. \A k \in Key :
             \/ s.table[k] = table[k]
             \/ /\ table[k].source = "Absent"
                /\ s.table[k].source = "Def"
                /\ s.table[k].def = Def(pos, "Item")
      BY <1>3, DeclareTable
    <2> HIDE DEF s, missing
    <2>5. table' = s.table
      BY <2>2, <2>3 DEF Become, Collected
    <2>6. NT!Declare
      BY <1>1, <2>1, <2>4, <2>5, CollectDeclares
    <2> QED
      BY <2>6 DEF NT!Next
  <1>7. CASE CollectUse
    BY <1>7 DEF CollectUse, Collecting, stage
  <1>8. CASE EndCollect
    BY <1>8 DEF EndCollect, stage
  <1>9. CASE ResolvePending
    <2> DEFINE key == pending[pos].key
               r   == ResolvePathToModule(table, pending[pos].path, key[1])
               vis == IF r \in ModuleId THEN r ELSE key[1]
    <2>1. /\ phase = "pending" /\ phase' = phase
          /\ table' = [table EXCEPT ![key] = Refined(@, vis)]
      BY <1>9 DEF ResolvePending
    <2> HIDE DEF key, vis
    <2>2. \A k \in Key : table[k] \in Binding /\ table[k].source \in {"Absent", "Def"}
      BY <1>2, <2>1 DEF DeclInv, NoImports
    <2>3. \A k \in Key : \/ table'[k] = table[k]
                         \/ /\ table[k].source = "Def"
                            /\ table'[k].source = "Def"
                            /\ table'[k].def = table[k].def
      BY <1>2, <2>1, <2>2 DEF Refined, Binding
    <2>4. stage = "declaring" /\ stage' = "declaring"
      BY <2>1 DEF stage
    <2>5. NT!Declare
      BY <1>2, <2>3, <2>4 DEF NT!Declare, NT!Refines
    <2> QED
      BY <2>5 DEF NT!Next
  <1>10. CASE EndPending
    <2>1. stage = "declaring" /\ stage' = "importing" /\ table' = table
      BY <1>10 DEF EndPending, stage
    <2> QED
      BY <2>1 DEF NT!Next, NT!Advance
  <1>11. CASE BeginUse \/ EndUse
    BY <1>11 DEF BeginUse, EndUse, Importing, stage
  <1>12. CASE ImportLeaf \/ ImportSelf \/ ImportGlob
    <2>1. phase = "imports" /\ phase' = "imports"
      BY <1>12 DEF ImportLeaf, ImportSelf, ImportGlob, ImportStep, Importing
    <2>2. stage = "importing" /\ stage' = "importing"
      BY <2>1 DEF stage
    <2>3. \A k \in Key : table'[k] = table[k] \/ Copies(table, table[k], table'[k], k)
      BY <1>12, ImportsCopy
    <2>4. ASSUME NEW k \in Key, Copies(table, table[k], table'[k], k)
          PROVE  NT!Imports(table[k], table'[k], k)
      BY <2>4 DEF Copies, NT!Imports, NT!Strength
    <2>5. NT!Import
      BY <1>2, <2>2, <2>3, <2>4 DEF NT!Import
    <2> QED
      BY <2>5 DEF NT!Next
  <1>13. CASE EndPass
    <2>1. phase = "imports" /\ table' = table /\ (phase' = "imports" \/ phase' = "check")
      BY <1>13, Zenon DEF EndPass
    <2>2. CASE phase' = "imports"
      BY <2>1, <2>2 DEF stage
    <2>3. CASE phase' = "check"
      <3>1. stage = "importing" /\ stage' = "frozen"
        BY <2>1, <2>3 DEF stage
      <3> QED
        BY <2>1, <3>1 DEF NT!Next, NT!Advance
    <2> QED
      BY <2>1, <2>2, <2>3
  <1>14. CASE CheckLeaf \/ EndCheckUse \/ EndCheck
    BY <1>14 DEF CheckLeaf, EndCheckUse, EndCheck, stage
  <1>15. CASE UNCHANGED vars
    BY <1>15 DEF vars, stage
  <1> QED
    BY <1>4, <1>5, <1>6, <1>7, <1>8, <1>9, <1>10, <1>11, <1>12, <1>13, <1>14,
       <1>15 DEF Next, Terminated

(* The Collector implements NameTable, for every crate: names are declared *)
(* before any is imported, a binding only gives way to a stronger one, and *)
(* an import only ever copies a def the tables already bind.               *)
THEOREM ImplementsNameTable == Spec => NameTableSpec
  <1>1. Init => NT!Init
    BY DEF Init, NT!Init, stage
  <1> QED
    BY <1>1, DeclAlways, StepImplements, PTL DEF Spec, NameTableSpec, NT!Spec

----------------------------------------------------------------------------
(* The walk along a path. *)

LEMMA LeastNatural ==
    ASSUME NEW T, T \subseteq Nat, T # {}
    PROVE  \E m \in T : \A k \in T : m <= k
  <1> DEFINE R == {p \in Nat \X Nat : p[1] < p[2]}
  <1>1. IsWellFoundedOn(R, Nat)
    BY NatLessThanWellFounded DEF OpToRel
  <1>2. PICK m \in T : \A k \in T : <<k, m>> \notin R
    <2> HIDE DEF R
    <2> QED BY <1>1, WFMin
  <1>3. ASSUME NEW k \in T PROVE m <= k
    <2>1. k \in Nat /\ m \in Nat
      OBVIOUS
    <2>2. ~ k < m
      BY <1>2, <2>1
    <2> QED BY <2>1, <2>2
  <1> QED
    BY <1>3

(* A path has a first segment that is no `super`. *)
LEMMA SupersType ==
    ASSUME NEW segs \in Seq(Segment)
    PROVE  Supers(segs) \in Nat
  <1> DEFINE Stop(n) == n < Len(segs) => segs[n + 1] # "super"
             T == {n \in 0 .. Len(segs) : Stop(n)}
  <1>1. Len(segs) \in Nat /\ Len(segs) \in T
    OBVIOUS
  <1>2. PICK m \in T : \A k \in T : m <= k
    <2>1. T \subseteq Nat /\ T # {}
      BY <1>1
    <2> HIDE DEF T
    <2> QED BY <2>1, LeastNatural
  <1>3. ASSUME NEW i \in 1 .. m
        PROVE  segs[i] = "super"
    <2>1. i - 1 \in 0 .. Len(segs) /\ i - 1 < m /\ i - 1 \notin T
      BY <1>1, <1>2
    <2> QED
      BY <2>1
  <1>4. \E n \in 0 .. Len(segs) :
            /\ \A i \in 1 .. n : segs[i] = "super"
            /\ n < Len(segs) => segs[n + 1] # "super"
    BY <1>2, <1>3
  <1> QED
    BY <1>1, <1>4 DEF Supers

(* Where the named segments of a path begin. *)
LEMMA AnchorType ==
    ASSUME NEW segs \in Seq(Segment), NEW from
    PROVE  PathAnchor(segs, from).first \in Nat \ {0}
  BY SupersType DEF PathAnchor

Onward(t, m, seg) ==
    LET d == Lookup(t, m, seg, "Module").def
    IN  IF d \in DefId THEN moduleOf[d] ELSE NoModule

Along(g, t, segs, from, n) ==
    g = [i \in 1 .. n |-> IF i <= PathAnchor(segs, from).first THEN PathAnchor(segs, from).mod
                          ELSE Onward(t, g[i - 1], segs[i - 1])]

LEMMA WalkExists ==
    ASSUME NEW t, NEW segs \in Seq(Segment), NEW from, NEW n \in Nat
    PROVE  \E g : Along(g, t, segs, from, n)
  <1> DEFINE a == PathAnchor(segs, from)
             T == {m \in Nat : ~ \E g : Along(g, t, segs, from, m)}
  <1> SUFFICES ASSUME ~ \E g : Along(g, t, segs, from, n)
               PROVE  FALSE
    OBVIOUS
  <1>1. PICK m \in T : \A k \in T : m <= k
    <2>1. T \in SUBSET Nat /\ T # {}
      OBVIOUS
    <2> HIDE DEF T
    <2> QED BY <2>1, LeastNatural
  <1>2. m \in Nat /\ ~ \E g : Along(g, t, segs, from, m)
    OBVIOUS
  <1>3. a.first \in Nat \ {0}
    BY AnchorType
  <1>4. CASE m = 0
    <2> DEFINE g == [i \in 1 .. 0 |-> IF i <= a.first THEN a.mod ELSE NoModule]
    <2>1. \A i \in 1 .. 0 : FALSE
      OBVIOUS
    <2>2. g = [i \in 1 .. 0 |-> IF i <= a.first THEN a.mod ELSE Onward(t, g[i - 1], segs[i - 1])]
      <3> DEFINE e(i) == IF i <= a.first THEN a.mod ELSE NoModule
                 h(i) == IF i <= a.first THEN a.mod ELSE Onward(t, g[i - 1], segs[i - 1])
      <3>1. g = [i \in 1 .. 0 |-> e(i)]
        OBVIOUS
      <3> HIDE DEF g, e, h
      <3>2. g = [i \in 1 .. 0 |-> h(i)]
        BY <2>1, <3>1
      <3> QED
        BY <3>2 DEF h
    <2> HIDE DEF g
    <2> QED
      BY <1>2, <1>4, <2>2 DEF Along
  <1>5. CASE m # 0
    <2>1. m - 1 \in Nat /\ m - 1 \notin T
      BY <1>1, <1>2, <1>5
    <2>2. PICK g : Along(g, t, segs, from, m - 1)
      BY <2>1
    <2> DEFINE h == [i \in 1 .. m |-> IF i <= a.first THEN a.mod ELSE Onward(t, g[i - 1], segs[i - 1])]
    <2> HIDE DEF a
    <2>3. \A i \in 1 .. m - 1 : h[i] = g[i]
      <3>1. g = [i \in 1 .. m - 1 |-> IF i <= a.first THEN a.mod ELSE Onward(t, g[i - 1], segs[i - 1])]
        BY <2>2 DEF Along, a
      <3> QED
        BY <2>1, <3>1
    <2>4. \A i \in 1 .. m : ~ i <= a.first => g[i - 1] = h[i - 1]
      <3>1. \A i \in 1 .. m : ~ i <= a.first => i - 1 \in 1 .. m - 1
        BY <1>2, <1>3 DEF a
      <3> HIDE DEF h
      <3> QED BY <2>3, <3>1
    <2>5. h = [i \in 1 .. m |-> IF i <= a.first THEN a.mod ELSE Onward(t, h[i - 1], segs[i - 1])]
      <3> DEFINE e(i) == IF i <= a.first THEN a.mod ELSE Onward(t, g[i - 1], segs[i - 1])
                 f(i) == IF i <= a.first THEN a.mod ELSE Onward(t, h[i - 1], segs[i - 1])
      <3>1. \A i \in 1 .. m : e(i) = f(i)
        <4> HIDE DEF h
        <4> QED BY <2>4
      <3>2. h = [i \in 1 .. m |-> e(i)]
        OBVIOUS
      <3> HIDE DEF h, e, f
      <3>3. h = [i \in 1 .. m |-> f(i)]
        BY <3>1, <3>2
      <3> QED
        BY <3>3 DEF f
    <2> HIDE DEF h
    <2> QED
      BY <1>2, <2>5 DEF Along, a
  <1> QED
    BY <1>4, <1>5

(* The module a segment of a path is looked up in is the anchor, or what   *)
(* the segment before it names.                                            *)
LEMMA WalkIs ==
    ASSUME NEW t, NEW segs \in Seq(Segment), NEW from, NEW i \in 1 .. Len(segs)
    PROVE  Walk(t, segs, from)[i] =
              IF i <= PathAnchor(segs, from).first THEN PathAnchor(segs, from).mod
              ELSE Onward(t, Walk(t, segs, from)[i - 1], segs[i - 1])
  <1> DEFINE W == Walk(t, segs, from)
             a == PathAnchor(segs, from)
             e(j) == IF j <= a.first THEN a.mod ELSE Onward(t, W[j - 1], segs[j - 1])
  <1>1. W = CHOOSE g : Along(g, t, segs, from, Len(segs))
    BY DEF Walk, Along, Onward
  <1>2. Along(W, t, segs, from, Len(segs))
    <2> HIDE DEF W
    <2>1. PICK n \in Nat : n = Len(segs)
      OBVIOUS
    <2>2. \E g : Along(g, t, segs, from, n)
      BY WalkExists
    <2> QED
      BY <1>1, <2>1, <2>2
  <1> HIDE DEF W
  <1>3. W = [j \in 1 .. Len(segs) |-> e(j)]
    BY <1>2 DEF Along
  <1>4. W[i] = e(i)
    <2> HIDE DEF e
    <2> QED BY <1>3
  <1> QED
    BY <1>4 DEF W
(* Nothing is below what is no module. *)
LEMMA NowhereIsAbsent ==
    ASSUME NEW t, NEW name, NEW ns
    PROVE  Lookup(t, NoModule, name, ns) = Absent
  <1>1. NoModule \notin ModuleId
    BY BoundsAssumption DEF ModuleId
  <1> QED
    BY <1>1 DEF Lookup, Key

LEMMA DeadEnd ==
    ASSUME NEW t, NEW segs \in Seq(Segment), NEW from, NEW i \in 1 .. Len(segs),
           PathAnchor(segs, from).first < i, Walk(t, segs, from)[i] = NoModule
    PROVE  Walk(t, segs, from)[Len(segs)] = NoModule
  <1> DEFINE W(j) == Walk(t, segs, from)[j]
             T == {j \in i .. Len(segs) : W(j) # NoModule}
  <1>1. Len(segs) \in Nat /\ PathAnchor(segs, from).first \in Nat \ {0}
    BY AnchorType
  <1>2. SUFFICES ASSUME T # {} PROVE FALSE
    BY <1>1
  <1>3. PICK j \in T : \A k \in T : j <= k
    <2>1. T \subseteq Nat
      BY <1>1
    <2> HIDE DEF T
    <2> QED BY <1>2, <2>1, LeastNatural
  <1>4. j \in i .. Len(segs) /\ W(j) # NoModule
    OBVIOUS
  <1>5. j # i /\ j - 1 \in i .. Len(segs) /\ j - 1 \notin T /\ j \in 1 .. Len(segs)
    BY <1>1, <1>3, <1>4
  <1>6. W(j - 1) = NoModule
    BY <1>5
  <1>7. W(j) = Onward(t, W(j - 1), segs[j - 1])
    BY <1>1, <1>4, <1>5, WalkIs
  <1>8. Lookup(t, NoModule, segs[j - 1], "Module") = Absent
    BY NowhereIsAbsent
  <1> QED
    BY <1>4, <1>6, <1>7, <1>8, NoDefIsNoDef DEF Onward, Absent

(* What is bound to nothing has no visibility either. *)
AbsentsBlank == \A k \in Key : table[k].source = "Absent" => table[k] = Absent

(* A path that is not diagnosed resolves in some namespace. *)
LEMMA OkResolves ==
    ASSUME TableOK(table), AbsentsBlank, NEW segs \in Seq(Segment), NEW from,
           PathAnchor(segs, from).first <= Len(segs), PathAccess(segs, from) = "ok"
    PROVE  \E ns \in NS : ResolvePath(table, segs, from, ns) \in DefId
  <1> DEFINE m == Walk(table, segs, from)[Len(segs)]
             name == segs[Len(segs)]
  <1>1. ~ PathAnchor(segs, from).first > Len(segs)
    BY AnchorType
  <1>2. Final(m, name) # {}
    BY <1>1 DEF PathAccess
  <1>3. PICK ns \in NS : Lookup(table, m, name, ns) # Absent
    BY <1>2 DEF Final
  <1>4. ResolvePath(table, segs, from, ns) = Lookup(table, m, name, ns).def
    BY <1>1 DEF ResolvePath
  <1> HIDE DEF m, name
  <1>5. <<m, name, ns>> \in Key /\ table[<<m, name, ns>>] # Absent
    BY <1>3 DEF Lookup
  <1>6. table[<<m, name, ns>>].def \in DefId
    BY <1>5 DEF TableOK, AbsentsBlank
  <1> QED
    BY <1>4, <1>5, <1>6 DEF Lookup

(* A path that is called unresolved is bound to nothing. *)
LEMMA UnresolvedNamesNothing ==
    ASSUME TableOK(table), NEW segs \in Seq(Segment), NEW from,
           PathAnchor(segs, from).first <= Len(segs),
           PathAccess(segs, from) = "UnresolvedImport", NEW ns \in NS
    PROVE  ResolvePath(table, segs, from, ns) \notin DefId
  <1> DEFINE first == PathAnchor(segs, from).first
             last  == Len(segs)
             at    == Walk(table, segs, from)
             open(i, b) == i = 1 \/ VisAccessible(b.vis, from)
             inner(i) == Lookup(table, at[i], segs[i], "Module")
             reached(i) == \A j \in first .. (i - 1) :
                              inner(j).source # "Absent" /\ open(j, inner(j))
             stops == {i \in first .. (last - 1) :
                         /\ reached(i)
                         /\ inner(i).source = "Absent" \/ ~open(i, inner(i))}
             final == Final(at[last], segs[last])
  <1>1. first \in Nat \ {0} /\ last \in Nat /\ ~ first > last
    BY AnchorType
  <1>2. PathAccess(segs, from) =
           IF first > last THEN "ok"
           ELSE IF \E i \in stops : inner(i).source = "Absent" THEN "UnresolvedImport"
           ELSE IF stops # {} THEN "PrivateImport"
           ELSE IF final = {} THEN "UnresolvedImport"
           ELSE IF \E b \in final : open(last, b) THEN "ok"
           ELSE "PrivateImport"
    BY DEF PathAccess
  <1>3. ResolvePath(table, segs, from, ns) = Lookup(table, at[last], segs[last], ns).def
    BY <1>1 DEF ResolvePath
  <1>4. CASE \E i \in stops : inner(i).source = "Absent"
    <2>1. PICK i \in first .. last - 1 : inner(i).source = "Absent"
      BY <1>4
    <2>2. inner(i).def = NoDef
      <3>1. inner(i) = Absent \/ \E k \in Key : inner(i) = table[k]
        BY DEF Lookup
      <3> HIDE DEF inner
      <3> QED
        BY <2>1, <3>1 DEF TableOK, Absent
    <2>3. i + 1 \in 1 .. Len(segs) /\ first < i + 1
      BY <1>1
    <2>4. PICK n \in 1 .. Len(segs) : n = i + 1 /\ first < n
      BY <2>3
    <2>5. at[n] = NoModule
      <3>1. at[n] = Onward(table, at[n - 1], segs[n - 1])
        <4>1. ~ n <= first
          BY <1>1, <2>4
        <4>2. at[n] = IF n <= first THEN PathAnchor(segs, from).mod
                      ELSE Onward(table, at[n - 1], segs[n - 1])
          BY WalkIs
        <4> QED
          BY <4>1, <4>2
      <3>2. n - 1 = i
        BY <1>1, <2>4
      <3> QED
        BY <2>2, <3>1, <3>2, NoDefIsNoDef DEF Onward
    <2>6. at[last] = NoModule
      BY <2>4, <2>5, DeadEnd
    <2>7. Lookup(table, NoModule, segs[last], ns) = Absent
      BY NowhereIsAbsent
    <2> QED
      BY <1>3, <2>6, <2>7, NoDefIsNoDef DEF Absent
  <1>5. CASE ~ \E i \in stops : inner(i).source = "Absent"
    <2>1. final = {}
      <3> HIDE DEF stops, inner, first, last, final, open
      <3> QED BY <1>1, <1>2, <1>5
    <2>2. Lookup(table, at[last], segs[last], ns) = Absent
      BY <2>1 DEF Final
    <2> QED
      BY <1>3, <2>2, NoDefIsNoDef DEF Absent
  <1> QED
    BY <1>4, <1>5
----------------------------------------------------------------------------
(* The invariant: which `use`s are listed, which leaves this pass has      *)
(* found nothing to insert for, and which are checked.                     *)

(* The fixpoint at leaf u: nothing is left to be imported.                 *)
Settled(u) ==
    LET m == ModOf(u)
        name == LeafAt(u).name
        segs == LeafAt(u).segs
        target == ResolvePathToModule(table, segs, m)
    IN  /\ IsPath(u) =>
             \A ns \in NS : Resolves(u, ns) =>
                 table[<<m, name, ns>>].source \in {"Import", "Def"}
        /\ LeafAt(u).glob /\ target \in ModuleId =>
             \A k \in Key :
                 /\ k[1] = target
                 /\ table[k].source # "Absent"
                 /\ VisAccessible(table[k].vis, m)
                 => table[<<m, k[2], k[3]>>].source # "Absent"

UsesListed ==
    \A i \in 1 .. Len(crate) :
        crate[i].kind = "use" /\ (phase = "collect" => i < pos) =>
            \E n \in DOMAIN uses : uses[n] = i

AtRest == phase \in {"collect", "pending"} \/ pos > Len(uses) => leaf = 0

LeavesOf(i) == 1 .. Len(crate[i].leaves)

SettledSoFar ==
    /\ phase = "imports" /\ ~changed =>
          \A n \in DOMAIN uses : \A i, l : i = uses[n] /\ l \in LeavesOf(i) =>
              (n < pos \/ (n = pos /\ l < leaf) => Settled(<<i, l>>))
    /\ ImportsOver =>
          \A n \in DOMAIN uses : \A i, l : i = uses[n] /\ l \in LeavesOf(i) =>
              Settled(<<i, l>>)

Verdict(i, l) == PathAccess(Checked(crate[i].leaves[l]), crate[i].mod)
Refusals == {"UnresolvedImport", "PrivateImport"}

CheckedSoFar ==
    /\ \A x \in diags : x.kind \in Refusals =>
          ImportsOver /\ \A i, l : i = x.item /\ l = x.leaf => Verdict(i, l) = x.kind
    /\ ImportsOver =>
          \A n \in DOMAIN uses : \A i, l : i = uses[n] /\ l \in LeavesOf(i) =>
              (phase = "done" \/ n < pos \/ (n = pos /\ l <= leaf) =>
                  Verdict(i, l) = "ok" \/ Diag(Verdict(i, l), i, l) \in diags)

LEMMA BlankStep ==
    ASSUME DeclInv, AbsentsBlank, [Next]_vars
    PROVE  AbsentsBlank'
  <1>1. NT!Next \/ table' = table
    BY StepImplements
  <1>2. \A k \in Key : table'[k] = table[k] \/ table'[k].source # "Absent"
    BY <1>1 DEF NT!Next, NT!Declare, NT!Import, NT!Advance, NT!Declares, NT!Refines, NT!Imports
  <1> QED
    BY <1>2 DEF AbsentsBlank

(* A step of Next leaves the crate alone, and the tree after phase 1.      *)
LEMMA CrateStays ==
    ASSUME [Next]_vars
    PROVE  crate' = crate /\ (phase # "collect" => UNCHANGED <<tree, uses>>)
  BY DEF Next, CollectItem, DeclareAdt, CollectMod, CollectUse, Collecting, EndCollect,
         ResolvePending, EndPending, BeginUse, ImportLeaf, ImportSelf, ImportGlob, ImportStep,
         Importing, EndUse, EndPass, CheckLeaf, EndCheckUse, EndCheck, Terminated, vars

LEMMA ListedStep ==
    ASSUME DeclInv, UsesListed, [Next]_vars
    PROVE  UsesListed'
  <1>1. crate' = crate
    BY CrateStays
  <1>2. uses \in Seq(1 .. Len(crate)) /\ pos \in Nat \ {0} /\ Len(crate) \in Nat
    BY CrateItems DEF DeclInv, TypeInv, TypeOK
  <1>3. CASE phase # "collect"
    <2>1. uses' = uses
      BY <1>3, CrateStays
    <2> QED
      BY <1>1, <1>3, <2>1 DEF UsesListed
  <1>4. CASE CollectUse
    <2>1. uses' = Append(uses, pos) /\ pos' = pos + 1 /\ phase = "collect" /\ pos <= Len(crate)
      BY <1>4 DEF CollectUse, Collecting
    <2>2. /\ DOMAIN uses' = DOMAIN uses \union {Len(uses) + 1} /\ uses'[Len(uses) + 1] = pos
          /\ \A n \in DOMAIN uses : uses'[n] = uses[n]
      BY <1>2, <2>1
    <2>3. ASSUME NEW i \in 1 .. Len(crate), crate[i].kind = "use", i < pos'
          PROVE  \E n \in DOMAIN uses' : uses'[n] = i
      <3>1. i = pos \/ i < pos
        BY <1>2, <2>1, <2>3
      <3>2. CASE i < pos
        BY <2>1, <2>2, <2>3, <3>2 DEF UsesListed
      <3> QED
        BY <2>2, <3>1, <3>2
    <2>4. phase' = "collect"
      BY <1>4 DEF CollectUse, Collecting
    <2> QED
      BY <1>1, <2>3, <2>4 DEF UsesListed
  <1>5. CASE CollectItem \/ DeclareAdt \/ CollectMod
    <2>1. /\ uses' = uses /\ pos' = pos + 1 /\ phase = "collect" /\ pos <= Len(crate)
          /\ phase' = "collect" /\ crate[pos].kind # "use"
      BY <1>5 DEF CollectItem, DeclareAdt, CollectMod, Collecting
    <2>2. \A i \in 1 .. Len(crate) : i < pos' => i = pos \/ i < pos
      BY <1>2, <2>1
    <2> QED
      BY <1>1, <2>1, <2>2 DEF UsesListed
  <1>6. CASE EndCollect
    <2>1. uses' = uses /\ pos > Len(crate) /\ phase = "collect"
      BY <1>6 DEF EndCollect
    <2>2. \A i \in 1 .. Len(crate) : i < pos
      BY <1>2, <2>1
    <2> QED
      BY <1>1, <2>1, <2>2 DEF UsesListed
  <1>7. CASE UNCHANGED vars
    BY <1>7 DEF UsesListed, vars
  <1> QED
    BY <1>3, <1>4, <1>5, <1>6, <1>7
    DEF Next, ResolvePending, EndPending, BeginUse, ImportLeaf, ImportSelf, ImportGlob,
        ImportStep, Importing, EndUse, EndPass, CheckLeaf, EndCheckUse, EndCheck, Terminated

LEMMA RestStep ==
    ASSUME DeclInv, AtRest, [Next]_vars
    PROVE  AtRest'
  <1>1. uses \in Seq(1 .. Len(crate)) /\ pos \in Nat \ {0} /\ leaf \in Nat
    BY DEF DeclInv, TypeInv, TypeOK
  <1>2. CASE CollectItem \/ DeclareAdt \/ CollectMod \/ CollectUse \/ EndCollect
             \/ ResolvePending \/ EndPending
    <2>1. phase \in {"collect", "pending"} /\ leaf' = leaf
      BY <1>2 DEF CollectItem, DeclareAdt, CollectMod, CollectUse, Collecting, EndCollect,
                  ResolvePending, EndPending
    <2> QED
      BY <2>1 DEF AtRest
  <1>3. CASE BeginUse \/ ImportLeaf \/ ImportSelf \/ ImportGlob
    <2>1. phase' = "imports" /\ pos' = pos /\ uses' = uses /\ pos <= Len(uses)
      BY <1>3 DEF BeginUse, ImportLeaf, ImportSelf, ImportGlob, ImportStep, Importing
    <2> QED
      BY <1>1, <2>1 DEF AtRest
  <1>4. CASE EndUse \/ EndCheckUse
    BY <1>4 DEF EndUse, EndCheckUse, AtRest
  <1>5. CASE EndPass
    <2>1. pos > Len(uses) /\ leaf' = leaf
      BY <1>5, Zenon DEF EndPass
    <2> QED
      BY <2>1 DEF AtRest
  <1>6. CASE CheckLeaf
    <2>1. phase = "check" /\ phase' = phase /\ pos <= Len(uses) /\ pos' = pos /\ uses' = uses
      BY <1>6 DEF CheckLeaf
    <2> QED
      BY <1>1, <2>1 DEF AtRest
  <1>7. CASE EndCheck \/ UNCHANGED vars
    BY <1>7 DEF EndCheck, AtRest, vars
  <1> QED
    BY <1>2, <1>3, <1>4, <1>5, <1>6, <1>7 DEF Next, Terminated
(* What is settled is so while the tables stay as they are.                *)
LEMMA SettledKept ==
    ASSUME UNCHANGED <<crate, table, tree>>
    PROVE  \A u : Settled(u)' <=> Settled(u)
  <1>1. crate' = crate /\ table' = table /\ parent' = parent /\ moduleOf' = moduleOf
    BY DEF tree
  <1>2. \A u : LeafAt(u)' = LeafAt(u) /\ ModOf(u)' = ModOf(u)
    BY <1>1 DEF LeafAt, ModOf
  <1>3. \A t, segs, from, ns : ResolvePath(t, segs, from, ns)' = ResolvePath(t, segs, from, ns)
    BY <1>1 DEF ResolvePath, PathAnchor, Walk, Up, ParentOr
  <1>4. \A t, segs, from : ResolvePathToModule(t, segs, from)' = ResolvePathToModule(t, segs, from)
    BY <1>1, <1>3 DEF ResolvePathToModule
  <1>5. \A vis, m : VisAccessible(vis, m)' <=> VisAccessible(vis, m)
    BY <1>1 DEF VisAccessible, IsWithin, Up, ParentOr
  <1>6. \A u, ns : (Resolves(u, ns)' <=> Resolves(u, ns)) /\ (IsPath(u)' <=> IsPath(u))
    BY <1>1, <1>2, <1>3 DEF Resolves, IsPath
  <1> QED
    BY <1>1, <1>2, <1>4, <1>5, <1>6 DEF Settled

(* Inserting changes nothing only where a stronger binding is already.     *)
LEMMA InsertedSame ==
    ASSUME NEW b, NEW d \in DefId, NEW source, Inserted(b, d, source) = b
    PROVE  /\ source = "Import" => b.source \notin {"Absent", "Glob"}
           /\ source \in {"Import", "Glob"} => b.source # "Absent"
  BY DEF Inserted

(* A leaf that inserts nothing is settled.                                 *)
LEMMA LeafSettled ==
    ASSUME DeclInv, ImportLeaf \/ ImportSelf \/ ImportGlob, table' = table,
           NEW i, NEW l, i = uses[pos], l = leaf
    PROVE  Settled(<<i, l>>)
  <1>1. /\ TypeInv /\ table \in [Key -> Binding] /\ TableOK(table)
        /\ pos \in 1 .. Len(uses) /\ leaf \in 1 .. Len(CurrentUse.leaves)
    BY DEF DeclInv, TypeInv, TypeOK, DeclsOK, Declared, ImportLeaf, ImportSelf, ImportGlob,
           ImportStep, Importing
  <1>2. PICK u : u = <<i, l>>
    OBVIOUS
  <1>3. LeafAt(u) = CurrentLeaf /\ ModOf(u) = CurrentUse.mod
    BY <1>2 DEF LeafAt, ModOf, CurrentLeaf, CurrentUse
  <1>4. CurrentUse.mod \in ModuleId /\ CurrentLeaf.name \in Names
    BY <1>1, CurrentUseType, CurrentLeafType
  <1>5. PICK m, name, segs : m = CurrentUse.mod /\ name = CurrentLeaf.name /\ segs = CurrentLeaf.segs
    OBVIOUS
  <1>6. CASE ImportLeaf
    <2> DEFINE Import(t, ns) == [t EXCEPT ![<<m, name, ns>>] =
                                     Inserted(@, ResolvePath(t, segs, m, ns), "Import")]
    <2>1. table = Import(Import(table, "Module"), "Item") /\ ~CurrentLeaf.glob
      BY <1>5, <1>6 DEF ImportLeaf, Apply
    <2>2. PICK t1 : t1 = Import(table, "Module")
      OBVIOUS
    <2>3. PICK d1, k1, k2 : d1 = ResolvePath(table, segs, m, "Module")
                           /\ k1 = <<m, name, "Module">> /\ k2 = <<m, name, "Item">>
      OBVIOUS
    <2>4. k1 \in Key /\ k2 \in Key /\ k1 # k2
      <3>1. k1 \in Key /\ k2 \in Key
        BY <1>4, <1>5, <2>3 DEF Key, NS
      <3>2. k1[3] # k2[3]
        BY <2>3
      <3> QED BY <3>1, <3>2
    <2>5. t1 = [table EXCEPT ![k1] = Inserted(@, d1, "Import")]
      BY <2>2, <2>3
    <2>6. PICK d2 : d2 = ResolvePath(t1, segs, m, "Item")
      OBVIOUS
    <2>7. table = [t1 EXCEPT ![k2] = Inserted(@, d2, "Import")]
      BY <2>1, <2>2, <2>3, <2>6
    <2>8. /\ t1[k1] = Inserted(table[k1], d1, "Import")
          /\ \A k \in Key : k # k1 => t1[k] = table[k]
          /\ DOMAIN t1 = Key
      BY <1>1, <2>4, <2>5
    <2>9. table[k1] = t1[k1]
      <3>1. table[k1] = [t1 EXCEPT ![k2] = Inserted(@, d2, "Import")][k1]
        BY <2>7
      <3> QED
        BY <2>4, <2>8, <3>1
    <2>10. t1 = table
      <3>1. \A k \in Key : t1[k] = table[k]
        BY <2>8, <2>9
      <3>2. t1 = [k \in Key |-> t1[k]] /\ table = [k \in Key |-> table[k]]
        BY <1>1, <2>5
      <3> QED BY <3>1, <3>2
    <2>11. table[k2] = Inserted(table[k2], d2, "Import")
      BY <1>1, <2>4, <2>7, <2>10
    <2>12. d1 \in DefId => table[k1].source \notin {"Absent", "Glob"}
      BY <2>8, <2>9, InsertedSame
    <2>13. d2 \in DefId => table[k2].source \notin {"Absent", "Glob"}
      BY <2>11, InsertedSame
    <2>14. \A k \in Key : table[k].source \in {"Absent", "Glob", "Import", "Def"}
      BY <1>1 DEF Binding
    <2>15. ASSUME NEW ns \in NS, Resolves(u, ns)
           PROVE  table[<<m, name, ns>>].source \in {"Import", "Def"}
      <3>1. ResolvePath(table, segs, m, ns) \in DefId
        BY <1>3, <1>5, <2>15 DEF Resolves
      <3>2. CASE ns = "Module"
        BY <2>3, <2>4, <2>12, <2>14, <3>1, <3>2
      <3>3. CASE ns = "Item"
        BY <2>3, <2>4, <2>6, <2>10, <2>13, <2>14, <3>1, <3>3
      <3> QED
        BY <2>15, <3>2, <3>3 DEF NS
    <2> QED
      BY <1>2, <1>3, <1>5, <2>1, <2>15 DEF Settled
  <1>7. CASE ImportSelf
    <2>1. ~CurrentLeaf.glob /\ TrailingSelf(CurrentLeaf.segs)
      BY <1>7 DEF ImportSelf
    <2> QED
      BY <1>2, <1>3, <2>1 DEF Settled, IsPath
  <1>8. CASE ImportGlob
    <2>1. PICK target : target = ResolvePathToModule(table, segs, m)
      OBVIOUS
    <2>2. /\ CurrentLeaf.glob
          /\ \A k \in Key : GlobBrings(target, m, k) =>
                table[k] = Inserted(table[k], table[<<target, k[2], k[3]>>].def, "Glob")
      <3>1. table = [k \in Key |-> IF GlobBrings(target, m, k)
                                   THEN Inserted(table[k], table[<<target, k[2], k[3]>>].def, "Glob")
                                   ELSE table[k]]
        BY <1>5, <1>8, <2>1 DEF ImportGlob, Apply
      <3> DEFINE e(k) == IF GlobBrings(target, m, k)
                         THEN Inserted(table[k], table[<<target, k[2], k[3]>>].def, "Glob")
                         ELSE table[k]
      <3>2. table = [k \in Key |-> e(k)]
        BY <3>1
      <3>3. \A k \in Key : table[k] = e(k)
        <4> HIDE DEF e
        <4>1. PICK t : t = table
          OBVIOUS
        <4>2. \A k \in Key : t[k] = e(k)
          BY <3>2, <4>1
        <4> QED
          BY <4>1, <4>2
      <3> QED
        BY <1>8, <3>3 DEF ImportGlob
    <2>3. ASSUME target \in ModuleId, NEW k \in Key, k[1] = target,
                 table[k].source # "Absent", VisAccessible(table[k].vis, m)
          PROVE  table[<<m, k[2], k[3]>>].source # "Absent"
      <3>1. PICK a \in ModuleId, b \in Names, c \in NS : k = <<a, b, c>>
        BY DEF Key
      <3>2. k[2] = b /\ k[3] = c /\ a = target
        BY <2>3, <3>1
      <3>3. CASE target = m
        BY <2>3, <3>1, <3>2, <3>3
      <3>4. CASE target # m
        <4>1. PICK kk : kk = <<m, b, c>> /\ kk \in Key /\ kk[1] = m /\ kk[2] = b /\ kk[3] = c
          <5>1. m \in ModuleId
            BY <1>4, <1>5
          <5>2. <<m, b, c>> \in Key
            BY <5>1 DEF Key
          <5> QED
            BY <5>2
        <4>2. k = <<target, kk[2], kk[3]>>
          BY <3>1, <3>2, <4>1
        <4>3. GlobBrings(target, m, kk)
          BY <2>3, <3>4, <4>1, <4>2 DEF GlobBrings
        <4>4. table[kk] = Inserted(table[kk], table[k].def, "Glob")
          BY <2>2, <4>1, <4>2, <4>3
        <4>5. table[k].def \in DefId
          BY <1>1, <2>3 DEF TableOK
        <4>6. table[kk].source # "Absent"
          BY <4>4, <4>5, InsertedSame
        <4> QED
          BY <3>2, <4>1, <4>6
      <3> QED
        BY <3>3, <3>4
    <2> QED
      BY <1>2, <1>3, <1>5, <2>1, <2>2, <2>3 DEF Settled, IsPath
  <1> QED
    BY <1>6, <1>7, <1>8

LEMMA SettledStep ==
    ASSUME DeclInv, AtRest, SettledSoFar, [Next]_vars
    PROVE  SettledSoFar'
  <1>1. /\ uses \in Seq(1 .. Len(crate)) /\ pos \in Nat \ {0} /\ leaf \in Nat /\ crate' = crate
        /\ Len(uses) \in Nat /\ DOMAIN uses = 1 .. Len(uses)
    BY CrateStays DEF DeclInv, TypeInv, TypeOK
  <1>2. \A i : LeavesOf(i)' = LeavesOf(i)
    BY <1>1 DEF LeavesOf
  <1>3. CASE CollectItem \/ DeclareAdt \/ CollectMod \/ CollectUse \/ EndCollect \/ ResolvePending
    <2>1. phase' \in {"collect", "pending"}
      BY <1>3 DEF CollectItem, DeclareAdt, CollectMod, CollectUse, Collecting, EndCollect,
                  ResolvePending
    <2> QED
      BY <2>1 DEF SettledSoFar, ImportsOver
  <1>4. CASE EndPending
    <2>1. phase' = "imports" /\ pos' = 1 /\ leaf' = 0 /\ uses' = uses
      BY <1>4 DEF EndPending, AtRest
    <2>2. \A n \in DOMAIN uses : ~ n < 1
      BY <1>1
    <2>3. \A i, l : l \in LeavesOf(i) => ~ l < 0
      BY DEF LeavesOf
    <2> QED
      BY <1>2, <2>1, <2>2, <2>3 DEF SettledSoFar, ImportsOver
  <1>5. CASE BeginUse
    <2>1. /\ phase = "imports" /\ phase' = "imports" /\ uses' = uses /\ leaf = 0 /\ leaf' = 1
          /\ pos' = pos /\ UNCHANGED <<crate, table, tree, changed>>
      BY <1>5 DEF BeginUse, Importing
    <2>2. \A i, l : l \in LeavesOf(i) => ~ l < 1
      BY DEF LeavesOf
    <2> QED
      BY <1>2, <2>1, <2>2, SettledKept DEF SettledSoFar, ImportsOver
  <1>6. CASE ImportLeaf \/ ImportSelf \/ ImportGlob
    <2>1. /\ phase = "imports" /\ phase' = "imports" /\ uses' = uses /\ leaf' = leaf + 1
          /\ pos' = pos /\ UNCHANGED <<crate, tree>>
          /\ ~changed' => ~changed /\ table' = table
      BY <1>6, Zenon DEF ImportLeaf, ImportSelf, ImportGlob, ImportStep, Importing, Apply
    <2>2. ASSUME ~changed', NEW n \in DOMAIN uses, NEW i, NEW l, i = uses[n], l \in LeavesOf(i),
                 n < pos \/ (n = pos /\ l < leaf')
          PROVE  Settled(<<i, l>>)'
      <3>1. CASE n < pos \/ (n = pos /\ l < leaf)
        <4>1. Settled(<<i, l>>)
          BY <2>1, <2>2, <3>1 DEF SettledSoFar
        <4> QED
          BY <2>1, <2>2, <4>1, SettledKept
      <3>2. CASE n = pos /\ l = leaf
        <4>1. Settled(<<i, l>>)
          BY <1>6, <2>1, <2>2, <3>2, LeafSettled
        <4> QED
          BY <2>1, <2>2, <4>1, SettledKept
      <3>3. l \in Nat
        BY <2>2 DEF LeavesOf
      <3> QED
        BY <1>1, <2>1, <2>2, <3>1, <3>2, <3>3
    <2> QED
      BY <1>2, <2>1, <2>2 DEF SettledSoFar, ImportsOver
  <1>7. CASE EndUse
    <2>1. /\ phase = "imports" /\ phase' = "imports" /\ uses' = uses /\ leaf' = 0
          /\ pos' = pos + 1 /\ UNCHANGED <<crate, table, tree, changed>> /\ pos \in 1 .. Len(uses)
          /\ leaf > Len(CurrentUse.leaves)
      BY <1>1, <1>7 DEF EndUse, Importing
    <2>2. ASSUME ~changed', NEW n \in DOMAIN uses, NEW i, NEW l, i = uses[n], l \in LeavesOf(i),
                 n < pos' \/ (n = pos' /\ l < leaf')
          PROVE  Settled(<<i, l>>)'
      <3>1. n < pos \/ (n = pos /\ l < leaf)
        <4>1. l \in 1 .. Len(crate[i].leaves)
          BY <2>2 DEF LeavesOf
        <4>2. n = pos => l < leaf
          <5>1. Len(CurrentUse.leaves) \in Nat
            BY <2>1, CurrentUseType DEF DeclInv
          <5> QED
            BY <1>1, <2>1, <2>2, <4>1, <5>1 DEF CurrentUse
        <4> QED
          BY <1>1, <2>1, <2>2, <4>1, <4>2
      <3>2. Settled(<<i, l>>)
        BY <2>1, <2>2, <3>1 DEF SettledSoFar
      <3> QED
        BY <2>1, <3>2, SettledKept
    <2> QED
      BY <1>2, <2>1, <2>2 DEF SettledSoFar, ImportsOver
  <1>8. CASE EndPass
    <2>1. /\ phase = "imports" /\ uses' = uses /\ pos > Len(uses) /\ leaf' = leaf /\ pos' = 1
          /\ UNCHANGED <<crate, table, tree>>
          /\ \/ changed /\ phase' = "imports"
             \/ ~changed /\ phase' = "check"
      BY <1>8, Zenon DEF EndPass
    <2>2. leaf' = 0
      BY <2>1 DEF AtRest
    <2>3. \A n \in DOMAIN uses : ~ n < 1 /\ n < pos
      BY <1>1, <2>1
    <2>4. \A i, l : l \in LeavesOf(i) => ~ l < 0
      BY DEF LeavesOf
    <2>5. CASE phase' = "imports"
      BY <1>2, <2>1, <2>2, <2>3, <2>4, <2>5 DEF SettledSoFar, ImportsOver
    <2>6. CASE ~changed /\ phase' = "check"
      BY <1>2, <2>1, <2>3, <2>6, SettledKept DEF SettledSoFar, ImportsOver
    <2> QED
      BY <2>1, <2>5, <2>6
  <1>9. CASE CheckLeaf \/ EndCheckUse \/ EndCheck
    <2>1. /\ phase \in {"check", "done"} /\ phase' \in {"check", "done"} /\ uses' = uses
          /\ UNCHANGED <<crate, table, tree>>
      BY <1>9 DEF CheckLeaf, EndCheckUse, EndCheck
    <2> QED
      BY <1>2, <2>1, SettledKept DEF SettledSoFar, ImportsOver
  <1>10. CASE UNCHANGED vars
    BY <1>2, <1>10, SettledKept DEF SettledSoFar, ImportsOver, vars
  <1> QED
    BY <1>3, <1>4, <1>5, <1>6, <1>7, <1>8, <1>9, <1>10 DEF Next, Terminated
LEMMA VerdictKept ==
    ASSUME UNCHANGED <<crate, table, tree>>
    PROVE  \A i, l : Verdict(i, l)' = Verdict(i, l)
  <1>1. crate' = crate /\ table' = table /\ parent' = parent /\ moduleOf' = moduleOf
    BY DEF tree
  <1>2. \A vis, m : VisAccessible(vis, m)' <=> VisAccessible(vis, m)
    BY <1>1 DEF VisAccessible, IsWithin, Up, ParentOr
  <1>3. \A t, segs, from : /\ Walk(t, segs, from)' = Walk(t, segs, from)
                           /\ PathAnchor(segs, from)' = PathAnchor(segs, from)
    BY <1>1 DEF PathAnchor, Walk, Up, ParentOr
  <1>4. \A m, name : Final(m, name)' = Final(m, name)
    BY <1>1 DEF Final
  <1>5. ASSUME NEW segs, NEW from
        PROVE  PathAccess(segs, from)' = PathAccess(segs, from)
    <2>1. PICK first, at, last : /\ first = PathAnchor(segs, from).first
                                 /\ at = Walk(table, segs, from)
                                 /\ last = Len(segs)
      OBVIOUS
    <2>2. PathAnchor(segs, from).first' = first /\ Walk(table, segs, from)' = at
      BY <1>1, <1>3, <2>1
    <2>3. PICK final : final = Final(at[last], segs[last])
      OBVIOUS
    <2>4. Final(at[last], segs[last])' = final
      BY <1>4, <2>3
    <2> DEFINE inner(i)    == Lookup(table, at[i], segs[i], "Module")
               open(i, b)  == i = 1 \/ VisAccessible(b.vis, from)
               openN(i, b) == i = 1 \/ VisAccessible(b.vis, from)'
               stops  == {i \in first .. last - 1 :
                             /\ \A j \in first .. i - 1 : inner(j).source # "Absent" /\ open(j, inner(j))
                             /\ inner(i).source = "Absent" \/ ~open(i, inner(i))}
               stopsN == {i \in first .. last - 1 :
                             /\ \A j \in first .. i - 1 : inner(j).source # "Absent" /\ openN(j, inner(j))
                             /\ inner(i).source = "Absent" \/ ~openN(i, inner(i))}
    <2>5. \A i, b : openN(i, b) <=> open(i, b)
      BY <1>2
    <2>6. stopsN = stops
      BY <2>5
    <2>7. (\E b \in final : openN(last, b)) <=> (\E b \in final : open(last, b))
      BY <2>5
    <2>8. PathAccess(segs, from) =
            IF first > last THEN "ok"
            ELSE IF \E i \in stops : inner(i).source = "Absent" THEN "UnresolvedImport"
            ELSE IF stops # {} THEN "PrivateImport"
            ELSE IF final = {} THEN "UnresolvedImport"
            ELSE IF \E b \in final : open(last, b) THEN "ok" ELSE "PrivateImport"
      BY <2>1, <2>3 DEF PathAccess
    <2>9. PathAccess(segs, from)' =
            IF first > last THEN "ok"
            ELSE IF \E i \in stopsN : inner(i).source = "Absent" THEN "UnresolvedImport"
            ELSE IF stopsN # {} THEN "PrivateImport"
            ELSE IF final = {} THEN "UnresolvedImport"
            ELSE IF \E b \in final : openN(last, b) THEN "ok" ELSE "PrivateImport"
      BY <1>1, <2>1, <2>2, <2>4 DEF PathAccess
    <2> HIDE DEF stops, stopsN, open, openN, inner
    <2> QED
      BY <2>6, <2>7, <2>8, <2>9
  <1> QED
    BY <1>1, <1>5 DEF Verdict

LEMMA DeclareDiags ==
    ASSUME NEW s, NEW d, NEW name, NEW ns
    PROVE  \A x \in Declare(s, d, name, ns).diags : x \in s.diags \/ x.kind = "DuplicateDef"
  <1>1. \A x : x = Diag("DuplicateDef", d.item, 0) => x.kind = "DuplicateDef"
    BY DEF Diag
  <1> QED
    BY <1>1 DEF Declare

(* Before the check no `use` is diagnosed. *)
LEMMA CollectDiags ==
    ASSUME TypeInv, CollectItem \/ DeclareAdt \/ CollectMod
    PROVE  \A x \in diags' : x \in diags \/ x.kind \notin Refusals
  <1> USE DEF Refusals
  <1>1. Declared.diags = diags /\ Declared \in Collected
    BY DeclaredType DEF Declared, TypeInv
  <1>2. CASE CollectItem
    BY <1>1, <1>2, DeclareDiags DEF CollectItem, Become
  <1>3. CASE DeclareAdt
    <2>1. PICK s : s = Declare(Declared, Def(pos, "Item"), crate[pos].name, "Item")
      OBVIOUS
    <2>2. diags' = Declare(s, Def(pos, "Ctor"), crate[pos].ctor, "Item").diags
      BY <1>3, <2>1 DEF DeclareAdt, Become
    <2>3. \A x \in s.diags : x \in diags \/ x.kind = "DuplicateDef"
      BY <1>1, <2>1, DeclareDiags
    <2> QED
      BY <2>2, <2>3, DeclareDiags
  <1>4. CASE CollectMod
    <2>1. PICK s, missing :
              /\ s = Declare(Declared, Def(pos, "Item"), crate[pos].name, "Module")
              /\ missing = IF crate[pos].found THEN {} ELSE {Diag("UnresolvedModule", pos, 0)}
      OBVIOUS
    <2>2. diags' = [s EXCEPT !.diags = @ \cup missing].diags
      BY <1>4, <2>1 DEF CollectMod, Become
    <2>3. "diags" \in DOMAIN s
      BY <2>1 DEF Declare
    <2>4. diags' = s.diags \cup missing
      BY <2>2, <2>3
    <2>5. \A x \in s.diags : x \in diags \/ x.kind = "DuplicateDef"
      BY <1>1, <2>1, DeclareDiags
    <2>6. \A x \in missing : x.kind = "UnresolvedModule"
      BY <2>1 DEF Diag
    <2> QED
      BY <2>4, <2>5, <2>6
  <1> QED
    BY <1>2, <1>3, <1>4

LEMMA CheckedStep ==
    ASSUME DeclInv, AtRest, CheckedSoFar, [Next]_vars
    PROVE  CheckedSoFar'
  <1>1. /\ uses \in Seq(1 .. Len(crate)) /\ pos \in Nat \ {0} /\ leaf \in Nat /\ crate' = crate
        /\ Len(uses) \in Nat /\ DOMAIN uses = 1 .. Len(uses) /\ TypeInv
    BY CrateStays DEF DeclInv, TypeInv, TypeOK
  <1>2. \A i : LeavesOf(i)' = LeavesOf(i)
    BY <1>1 DEF LeavesOf
  <1>3. CASE CollectItem \/ DeclareAdt \/ CollectMod
    <2>1. ~ImportsOver /\ ~ImportsOver'
      BY <1>3 DEF CollectItem, DeclareAdt, CollectMod, Collecting, ImportsOver
    <2>2. \A x \in diags' : x \in diags \/ x.kind \notin Refusals
      BY <1>1, <1>3, CollectDiags
    <2> QED
      BY <2>1, <2>2 DEF CheckedSoFar
  <1>4. CASE CollectUse \/ EndCollect \/ ResolvePending \/ EndPending \/ BeginUse \/ ImportLeaf
             \/ ImportSelf \/ ImportGlob \/ EndUse
    <2>1. diags' = diags /\ ~ImportsOver /\ ~ImportsOver'
      BY <1>4 DEF CollectUse, Collecting, EndCollect, ResolvePending, EndPending, BeginUse,
                  ImportLeaf, ImportSelf, ImportGlob, ImportStep, Importing, EndUse, ImportsOver
    <2> QED
      BY <2>1 DEF CheckedSoFar
  <1>5. CASE EndPass
    <2>1. /\ diags' = diags /\ phase = "imports" /\ phase' \in {"imports", "check"}
          /\ pos' = 1 /\ leaf' = leaf /\ uses' = uses /\ pos > Len(uses)
      BY <1>5, Zenon DEF EndPass
    <2>2. leaf' = 0
      BY <2>1 DEF AtRest
    <2>3. \A x \in diags' : x.kind \notin Refusals
      BY <2>1 DEF CheckedSoFar, ImportsOver
    <2>4. \A n \in DOMAIN uses : ~ n < 1
      BY <1>1
    <2>5. \A i, l : l \in LeavesOf(i) => ~ l <= 0
      BY DEF LeavesOf
    <2>6. phase' # "done"
      BY <2>1
    <2> QED
      BY <1>2, <2>1, <2>2, <2>3, <2>4, <2>5, <2>6 DEF CheckedSoFar
  <1>6. CASE CheckLeaf
    <2>1. PICK i, l, v : i = uses[pos] /\ l = leaf + 1 /\ v = Verdict(i, l)
      OBVIOUS
    <2>2. /\ phase = "check" /\ phase' = "check" /\ pos' = pos /\ leaf' = leaf + 1 /\ uses' = uses
          /\ UNCHANGED <<crate, table, tree>>
          /\ diags' = IF v = "ok" THEN diags ELSE diags \cup {Diag(v, i, l)}
      BY <1>6, <2>1 DEF CheckLeaf, CurrentUse, Verdict
    <2>3. ImportsOver /\ ImportsOver' /\ \A j, k : Verdict(j, k)' = Verdict(j, k)
      BY <2>2, VerdictKept DEF ImportsOver
    <2>4. ASSUME NEW x \in diags', x.kind \in Refusals, NEW j, NEW k, j = x.item, k = x.leaf
          PROVE  Verdict(j, k) = x.kind
      <3>1. CASE x \in diags
        BY <2>4, <3>1 DEF CheckedSoFar
      <3>2. CASE x = Diag(v, i, l)
        BY <2>1, <2>4, <3>2 DEF Diag
      <3> QED
        BY <2>2, <2>4, <3>1, <3>2
    <2>5. ASSUME NEW n \in DOMAIN uses, NEW j, NEW k, j = uses[n], k \in LeavesOf(j),
                 n < pos \/ (n = pos /\ k <= leaf')
          PROVE  Verdict(j, k) = "ok" \/ Diag(Verdict(j, k), j, k) \in diags'
      <3>1. CASE n < pos \/ (n = pos /\ k <= leaf)
        BY <2>2, <2>3, <2>5, <3>1 DEF CheckedSoFar
      <3>2. CASE n = pos /\ k = l
        BY <2>1, <2>2, <2>5, <3>2
      <3>3. k \in Nat
        BY <2>5 DEF LeavesOf
      <3> QED
        BY <1>1, <2>1, <2>2, <2>5, <3>1, <3>2, <3>3
    <2> QED
      BY <1>2, <2>2, <2>3, <2>4, <2>5 DEF CheckedSoFar
  <1>7. CASE EndCheckUse
    <2>1. /\ phase = "check" /\ phase' = "check" /\ pos' = pos + 1 /\ leaf' = 0 /\ uses' = uses
          /\ UNCHANGED <<crate, table, tree>> /\ diags' = diags /\ pos \in 1 .. Len(uses)
          /\ leaf = Len(CurrentUse.leaves)
      BY <1>1, <1>7 DEF EndCheckUse
    <2>2. ImportsOver /\ ImportsOver' /\ \A j, k : Verdict(j, k)' = Verdict(j, k)
      BY <2>1, VerdictKept DEF ImportsOver
    <2>3. ASSUME NEW n \in DOMAIN uses, NEW j, NEW k, j = uses[n], k \in LeavesOf(j),
                 n < pos' \/ (n = pos' /\ k <= leaf')
          PROVE  Verdict(j, k) = "ok" \/ Diag(Verdict(j, k), j, k) \in diags
      <3>1. k \in 1 .. Len(crate[j].leaves)
        BY <2>3 DEF LeavesOf
      <3>2. n < pos \/ (n = pos /\ k <= leaf)
        BY <1>1, <2>1, <2>3, <3>1 DEF CurrentUse
      <3> QED
        BY <2>1, <2>2, <2>3, <3>2 DEF CheckedSoFar
    <2> QED
      BY <1>2, <2>1, <2>2, <2>3 DEF CheckedSoFar
  <1>8. CASE EndCheck
    <2>1. /\ phase = "check" /\ phase' = "done" /\ uses' = uses
          /\ UNCHANGED <<crate, table, tree>> /\ diags' = diags /\ pos > Len(uses)
      BY <1>8 DEF EndCheck
    <2>2. ImportsOver /\ ImportsOver' /\ \A j, k : Verdict(j, k)' = Verdict(j, k)
      BY <2>1, VerdictKept DEF ImportsOver
    <2>3. \A n \in DOMAIN uses : n < pos
      BY <1>1, <2>1
    <2> QED
      BY <1>2, <2>1, <2>2, <2>3 DEF CheckedSoFar
  <1>9. CASE UNCHANGED vars
    <2>1. UNCHANGED <<crate, table, tree>> /\ UNCHANGED <<phase, pos, leaf, uses, diags>>
      BY <1>9 DEF vars, tree
    <2>2. ImportsOver' <=> ImportsOver
      BY <2>1 DEF ImportsOver
    <2> QED
      BY <1>2, <2>1, <2>2, VerdictKept DEF CheckedSoFar
  <1> QED
    BY <1>3, <1>4, <1>5, <1>6, <1>7, <1>8, <1>9 DEF Next, Terminated

----------------------------------------------------------------------------
(* Every use is answered. *)

LEMMA UsesInit == Init => AbsentsBlank /\ UsesListed /\ AtRest /\ SettledSoFar /\ CheckedSoFar
  <1> SUFFICES ASSUME Init
               PROVE  AbsentsBlank /\ UsesListed /\ AtRest /\ SettledSoFar /\ CheckedSoFar
    OBVIOUS
  <1>1. \A i \in 1 .. Len(crate) : ~ i < pos
    BY DEF Init
  <1> QED
    BY <1>1 DEF Init, AbsentsBlank, UsesListed, AtRest, SettledSoFar, CheckedSoFar, ImportsOver

LEMMA UsesAlways ==
    Spec => [](DeclInv /\ AbsentsBlank /\ UsesListed /\ SettledSoFar /\ CheckedSoFar)
  <1> DEFINE Inv == /\ DeclInv /\ AbsentsBlank /\ UsesListed /\ AtRest
                    /\ SettledSoFar /\ CheckedSoFar
  <1>1. Init => Inv
    BY DeclInit, UsesInit
  <1>2. Inv /\ [Next]_vars => Inv'
    BY DeclStep, BlankStep, ListedStep, RestStep, SettledStep, CheckedStep
  <1>3. Inv => DeclInv /\ AbsentsBlank /\ UsesListed /\ SettledSoFar /\ CheckedSoFar
    OBVIOUS
  <1> QED
    BY <1>1, <1>2, <1>3, PTL DEF Spec

(* A leaf of the crate is one of a listed `use`. *)
LEMMA LeafListed ==
    ASSUME TypeInv, UsesListed, phase # "collect", NEW u \in UseLeaves
    PROVE  \E n \in DOMAIN uses : \E i, l :
              /\ u = <<i, l>> /\ u[1] = i /\ u[2] = l /\ i = uses[n] /\ l \in LeavesOf(i)
              /\ i \in 1 .. Len(crate) /\ crate[i].leaves \in Seq(Leaf)
  <1>1. PICK i \in 1 .. Len(crate) : crate[i].kind = "use" /\ u \in {i} \X (1 .. Len(crate[i].leaves))
    BY DEF UseLeaves
  <1>2. PICK l \in 1 .. Len(crate[i].leaves) : u = <<i, l>>
    BY <1>1
  <1>3. \E n \in DOMAIN uses : uses[n] = i
    BY <1>1 DEF UsesListed
  <1>4. crate[i].leaves \in Seq(Leaf)
    BY CrateItems DEF TypeInv, Item
  <1> QED
    BY <1>2, <1>3, <1>4 DEF LeavesOf

(* Every `use` is answered once and for all, in any crate: when the passes *)
(* stop there is nothing left that one of them would bind, and when the    *)
(* check is over what resolves to nothing is diagnosed, and what is called *)
(* unresolved resolves to nothing, though imports and check walk the paths *)
(* in two different ways.                                                  *)
THEOREM EveryUseAnswered == Spec => []UsesAnswered
  <1>1. ASSUME DeclInv, UsesListed, SettledSoFar, ImportsOver, NEW u \in UseLeaves
        PROVE  Settled(u)
    <2>1. phase # "collect"
      BY <1>1 DEF ImportsOver
    <2>2. PICK n \in DOMAIN uses : \E i, l : u = <<i, l>> /\ i = uses[n] /\ l \in LeavesOf(i)
      BY <1>1, <2>1, LeafListed DEF DeclInv
    <2> QED
      BY <1>1, <2>2 DEF SettledSoFar
  <1>2. ASSUME DeclInv, AbsentsBlank, UsesListed, CheckedSoFar, phase = "done",
               NEW u \in UseLeaves, IsPath(u),
               PathAnchor(LeafAt(u).segs, ModOf(u)).first <= Len(LeafAt(u).segs)
        PROVE  /\ (\A ns \in NS : ~Resolves(u, ns)) =>
                      Reported(u, {"UnresolvedImport", "PrivateImport"})
               /\ Reported(u, {"UnresolvedImport"}) => \A ns \in NS : ~Resolves(u, ns)
    <2>1. PICK n \in DOMAIN uses : \E i, l :
              /\ u = <<i, l>> /\ u[1] = i /\ u[2] = l /\ i = uses[n] /\ l \in LeavesOf(i)
              /\ i \in 1 .. Len(crate) /\ crate[i].leaves \in Seq(Leaf)
      BY <1>2, LeafListed DEF DeclInv
    <2>2. PICK i, l : /\ u = <<i, l>> /\ u[1] = i /\ u[2] = l /\ i = uses[n] /\ l \in LeavesOf(i)
                     /\ i \in 1 .. Len(crate) /\ crate[i].leaves \in Seq(Leaf)
      BY <2>1
    <2>3. PICK segs, m : segs = LeafAt(u).segs /\ m = ModOf(u)
      OBVIOUS
    <2>4. segs \in Seq(Segment) /\ TableOK(table)
      <3>1. crate[i].leaves[l] \in Leaf
        BY <2>2 DEF LeavesOf
      <3> QED
        BY <1>2, <2>2, <2>3, <3>1 DEF Leaf, LeafAt, DeclInv, DeclsOK, Declared
    <2>5. Verdict(i, l) = PathAccess(segs, m)
      BY <1>2, <2>2, <2>3 DEF Verdict, Checked, IsPath, LeafAt, ModOf
    <2>6. \A ns \in NS : Resolves(u, ns) <=> ResolvePath(table, segs, m, ns) \in DefId
      BY <2>3 DEF Resolves
    <2>7. PathAccess(segs, m) \in {"ok", "UnresolvedImport", "PrivateImport"}
      BY DEF PathAccess
    <2>8. ASSUME \A ns \in NS : ~Resolves(u, ns)
          PROVE  Reported(u, {"UnresolvedImport", "PrivateImport"})
      <3>1. PathAccess(segs, m) # "ok"
        BY <1>2, <2>3, <2>4, <2>6, <2>8, OkResolves
      <3>2. Diag(Verdict(i, l), i, l) \in diags
        BY <1>2, <2>2, <2>5, <3>1 DEF CheckedSoFar, ImportsOver
      <3> QED
        BY <2>2, <2>5, <2>7, <3>1, <3>2 DEF Reported
    <2>9. ASSUME Reported(u, {"UnresolvedImport"}), NEW ns \in NS
          PROVE  ~Resolves(u, ns)
      <3>1. PICK x : x = Diag("UnresolvedImport", i, l) /\ x \in diags
        BY <2>2, <2>9 DEF Reported
      <3>2. x.kind = "UnresolvedImport" /\ x.item = i /\ x.leaf = l
        BY <3>1 DEF Diag
      <3>3. Verdict(i, l) = "UnresolvedImport"
        BY <1>2, <3>1, <3>2 DEF CheckedSoFar, Refusals
      <3>4. ResolvePath(table, segs, m, ns) \notin DefId
        BY <1>2, <2>3, <2>4, <2>5, <3>3, UnresolvedNamesNothing
      <3> QED
        BY <2>6, <3>4
    <2> QED
      BY <2>8, <2>9
  <1>3. DeclInv /\ AbsentsBlank /\ UsesListed /\ SettledSoFar /\ CheckedSoFar => UsesAnswered
    BY <1>1, <1>2 DEF UsesAnswered, UsesSettled, UnresolvedReported, Settled
  <1> QED
    BY <1>3, UsesAlways, PTL
----------------------------------------------------------------------------
(* A `pub(in path)` lands on its def. *)

(* Paths see the defs of the bindings only. *)
LEMMA SameDefsResolveAlike ==
    ASSUME NEW t, NEW t2, NEW segs \in Seq(Segment), NEW from,
           \A m, name, ns : Lookup(t, m, name, ns).def = Lookup(t2, m, name, ns).def
    PROVE  ResolvePathToModule(t, segs, from) = ResolvePathToModule(t2, segs, from)
  <1> DEFINE W == Walk(t, segs, from)
             X == Walk(t2, segs, from)
             T == {i \in 1 .. Len(segs) : W[i] # X[i]}
  <1>1. Len(segs) \in Nat /\ PathAnchor(segs, from).first \in Nat \ {0}
    BY AnchorType
  <1>2. ASSUME NEW i \in T
        PROVE  \E k \in T : k < i
    <2>1. PICK first : first = PathAnchor(segs, from).first /\ first \in Nat \ {0}
      BY <1>1
    <2> i \in 1 .. Len(segs)
      BY <1>2
    <2>2. /\ W[i] = IF i <= first THEN PathAnchor(segs, from).mod
                    ELSE Onward(t, W[i - 1], segs[i - 1])
          /\ X[i] = IF i <= first THEN PathAnchor(segs, from).mod
                    ELSE Onward(t2, X[i - 1], segs[i - 1])
      <3> HIDE DEF T
      <3>1. W[i] = IF i <= first THEN PathAnchor(segs, from).mod
                    ELSE Onward(t, W[i - 1], segs[i - 1])
        BY <2>1, WalkIs
      <3>2. X[i] = IF i <= first THEN PathAnchor(segs, from).mod
                    ELSE Onward(t2, X[i - 1], segs[i - 1])
        BY <2>1, WalkIs
      <3> QED
        BY <3>1, <3>2
    <2>3. i > first /\ i - 1 \in 1 .. Len(segs)
      BY <1>1, <1>2, <2>1, <2>2
    <2>4. \A m, seg : Onward(t, m, seg) = Onward(t2, m, seg)
      BY DEF Onward
    <2>5. PICK w, x, seg : w = W[i - 1] /\ x = X[i - 1] /\ seg = segs[i - 1]
      OBVIOUS
    <2>6. W[i] = Onward(t, w, seg) /\ X[i] = Onward(t2, x, seg)
      BY <1>1, <2>1, <2>2, <2>3, <2>5
    <2>7. w # x
      BY <1>2, <2>4, <2>6
    <2>8. i - 1 \in T /\ i - 1 < i
      BY <1>1, <2>3, <2>5, <2>7
    <2> QED
      BY <2>8
  <1>3. T = {}
    <2>1. T \subseteq Nat
      BY <1>1
    <2>2. ASSUME T # {} PROVE FALSE
      <3>1. PICK i \in T : \A k \in T : i <= k
        <4> HIDE DEF T
        <4> QED BY <2>1, <2>2, LeastNatural
      <3>2. PICK k \in T : k < i
        <4> HIDE DEF T
        <4> QED BY <1>2
      <3> QED
        BY <1>1, <3>1, <3>2
    <2> QED BY <2>2
  <1>4. ResolvePath(t, segs, from, "Module") = ResolvePath(t2, segs, from, "Module")
    <2>1. CASE PathAnchor(segs, from).first > Len(segs)
      BY <2>1 DEF ResolvePath
    <2>2. CASE PathAnchor(segs, from).first <= Len(segs)
      <3>1. Len(segs) \in 1 .. Len(segs)
        BY <1>1, <2>2
      <3>2. W[Len(segs)] = X[Len(segs)]
        BY <1>3, <3>1
      <3> QED
        BY <3>2 DEF ResolvePath
    <2> QED
      BY <1>1, <2>1, <2>2
  <1> QED
    BY <1>4 DEF ResolvePathToModule

(* The def d of a `pub(in path)`, which no other def contends with, and    *)
(* the module it is for; an entry of the queue that is d's.                *)
Restricted(d) == IsDeclared(d) /\ crate[d.item].vis.kind = "in"
Unrivalled(d) == \A e \in DefId \ {d} : IsDeclared(e) => Home(e) # Home(d)
Target(t, d)  == LET it == crate[d.item]
                     r  == ResolvePathToModule(t, it.vis.path, it.mod)
                 IN  IF r \in ModuleId THEN r ELSE it.mod
EntryOf(e, d) == e.key = Home(d) /\ e.path = crate[d.item].vis.path

(* While the crate is collected, its restricted defs and the entries of    *)
(* the queue are each other's.                                             *)
Queued(s) ==
    /\ \A i \in DOMAIN s.pending : \E d \in DefId :
           /\ s.visibility[d] # Undeclared
           /\ crate[d.item].vis.kind = "in"
           /\ EntryOf(s.pending[i], d)
    /\ \A d \in DefId : s.visibility[d] # Undeclared /\ crate[d.item].vis.kind = "in" =>
           \E i \in DOMAIN s.pending : EntryOf(s.pending[i], d)

(* While the queue is worked off, an unrivalled def has its visibility or  *)
(* an entry ahead; after that it has its visibility.                       *)
Owed ==
    /\ phase = "collect" => Queued(Declared)
    /\ phase = "pending" =>
         /\ \A i \in DOMAIN pending : \E d \in DefId : Restricted(d) /\ EntryOf(pending[i], d)
         /\ \A d \in DefId : Restricted(d) /\ Unrivalled(d) =>
               \/ visibility[d] = Target(Declarations, d)
               \/ \E i \in DOMAIN pending : pos <= i /\ EntryOf(pending[i], d)
    /\ phase \notin {"collect", "pending"} =>
         \A d \in DefId : Restricted(d) /\ Unrivalled(d) =>
             visibility[d] = Target(Declarations, d)

LEMMA DeclareQueues ==
    ASSUME crate \in Crates, NEW s \in Collected, Queued(s),
           NEW d \in DefId, d.item \in 1 .. Len(crate), NEW name, NEW ns,
           name = NameOf(d), ns = NsOf(d)
    PROVE  Queued(Declare(s, d, name, ns))
  <1>1. PICK r : r = Declare(s, d, name, ns)
    OBVIOUS
  <1>2. PICK vis, key, path :
            /\ key = Home(d) /\ path = crate[d.item].vis.path
            /\ vis = IF crate[d.item].vis.kind = "in" THEN crate[d.item].mod
                     ELSE ResolveVisibility(crate[d.item].vis, crate[d.item].mod)
    OBVIOUS
  <1>3. /\ r.visibility = [s.visibility EXCEPT ![d] = vis]
        /\ r.pending = IF crate[d.item].vis.kind = "in"
                       THEN Append(s.pending, [key |-> key, path |-> path])
                       ELSE s.pending
    BY <1>1, <1>2 DEF Declare, Deferred, Home
  <1>4. s.pending \in Seq(PendingEntry) /\ s.visibility \in [DefId -> Scope \cup {Undeclared}]
    BY DEF Collected
  <1>5. PICK e : e = [key |-> key, path |-> path]
    OBVIOUS
  <1>6. EntryOf(e, d)
    BY <1>2, <1>5 DEF EntryOf
  <1>7. CASE crate[d.item].vis.kind = "in"
    <2>1. crate[d.item].mod \in ModuleId
      BY CrateItems DEF Item
    <2>2. vis # Undeclared
      BY <1>2, <1>7, <2>1, BoundsAssumption DEF ModuleId
    <2>3. /\ DOMAIN r.pending = 1 .. (Len(s.pending) + 1)
          /\ DOMAIN s.pending = 1 .. Len(s.pending) /\ Len(s.pending) \in Nat
          /\ \A i \in 1 .. Len(s.pending) : r.pending[i] = s.pending[i]
          /\ r.pending[Len(s.pending) + 1] = e
      <3>1. r.pending = Append(s.pending, e)
        BY <1>3, <1>5, <1>7
      <3> QED
        BY <1>4, <3>1
    <2>4. /\ r.visibility[d] # Undeclared
          /\ \A c \in DefId \ {d} : r.visibility[c] = s.visibility[c]
      BY <1>3, <1>4, <2>2
    <2>5. ASSUME NEW i \in DOMAIN r.pending
          PROVE  \E c \in DefId : /\ r.visibility[c] # Undeclared
                                  /\ crate[c.item].vis.kind = "in"
                                  /\ EntryOf(r.pending[i], c)
      <3>1. CASE i \in DOMAIN s.pending
        BY <1>7, <2>3, <2>4, <3>1 DEF Queued
      <3>2. CASE i = Len(s.pending) + 1
        BY <1>6, <1>7, <2>3, <2>4, <3>2
      <3> QED
        BY <2>3, <3>1, <3>2
    <2>6. ASSUME NEW c \in DefId, r.visibility[c] # Undeclared, crate[c.item].vis.kind = "in"
          PROVE  \E i \in DOMAIN r.pending : EntryOf(r.pending[i], c)
      <3>1. CASE c = d
        BY <1>6, <2>3, <3>1
      <3>2. CASE c # d
        <4>1. PICK i \in DOMAIN s.pending : EntryOf(s.pending[i], c)
          BY <2>4, <2>6, <3>2 DEF Queued
        <4>2. i \in DOMAIN r.pending /\ r.pending[i] = s.pending[i]
          BY <2>3
        <4> QED
          BY <4>1, <4>2
      <3> QED
        BY <3>1, <3>2
    <2> QED
      BY <1>1, <2>5, <2>6 DEF Queued
  <1>8. CASE crate[d.item].vis.kind # "in"
    <2>1. /\ r.pending = s.pending
          /\ \A c \in DefId : crate[c.item].vis.kind = "in" => r.visibility[c] = s.visibility[c]
      BY <1>3, <1>4, <1>8
    <2> QED
      BY <1>1, <2>1 DEF Queued
  <1> QED
    BY <1>7, <1>8
(* Before the imports every binding is a declaration. *)
LEMMA NothingImportedYet ==
    DeclInv /\ AbsentsBlank /\ phase \in {"collect", "pending"} => Declarations = table
  <1> SUFFICES ASSUME DeclInv, AbsentsBlank, phase \in {"collect", "pending"}
               PROVE  Declarations = table
    OBVIOUS
  <1>1. table \in [Key -> Binding] /\ NoImports(table)
    BY DEF DeclInv, TypeInv, TypeOK
  <1>2. \A k \in Key : table[k] = IF table[k].source = "Def" THEN table[k] ELSE Absent
    BY <1>1 DEF NoImports, AbsentsBlank
  <1> QED
    BY <1>1, <1>2 DEF Declarations

(* The module a `pub(in path)` is for depends on the defs of t only. *)
LEMMA TargetKept ==
    ASSUME UNCHANGED <<crate, tree>>, NEW t, NEW t2, NEW d,
           crate[d.item].vis.path \in Seq(Segment),
           \A m, name, ns : Lookup(t, m, name, ns).def = Lookup(t2, m, name, ns).def
    PROVE  Target(t2, d)' = Target(t, d)
  <1>1. crate' = crate /\ parent' = parent /\ moduleOf' = moduleOf
    BY DEF tree
  <1>2. \A segs, from : /\ Walk(t2, segs, from)' = Walk(t2, segs, from)
                        /\ PathAnchor(segs, from)' = PathAnchor(segs, from)
    BY <1>1 DEF PathAnchor, Walk, Up, ParentOr
  <1>3. \A segs, from : ResolvePath(t2, segs, from, "Module")' = ResolvePath(t2, segs, from, "Module")
    BY <1>2 DEF ResolvePath
  <1>4. \A segs, from : ResolvePathToModule(t2, segs, from)' = ResolvePathToModule(t2, segs, from)
    BY <1>1, <1>3 DEF ResolvePathToModule
  <1>5. PICK path, m : path = crate[d.item].vis.path /\ m = crate[d.item].mod /\ path \in Seq(Segment)
    OBVIOUS
  <1>6. ResolvePathToModule(t2, path, m) = ResolvePathToModule(t, path, m)
    BY <1>5, SameDefsResolveAlike
  <1> QED
    BY <1>1, <1>4, <1>5, <1>6 DEF Target

LEMMA QueuedKept ==
    ASSUME NEW s, NEW t, Queued(s), t.pending = s.pending, t.visibility = s.visibility
    PROVE  Queued(t)
  BY DEF Queued

LEMMA CollectQueues ==
    ASSUME DeclInv, Owed, CollectItem \/ DeclareAdt \/ CollectMod \/ CollectUse
    PROVE  Queued(Declared)'
  <1>1. /\ crate' = crate /\ phase = "collect" /\ crate \in Crates
        /\ Declared \in Collected /\ Queued(Declared)
    BY DeclaredType DEF CollectItem, DeclareAdt, CollectMod, CollectUse, Collecting, DeclInv,
       TypeInv, Owed
  <1>2. ASSUME NEW s, Queued(s), pending' = s.pending, visibility' = s.visibility
        PROVE  Queued(Declared)'
    <2>1. \A d : Home(d)' = Home(d)
      BY <1>1 DEF Home, NameOf, NsOf
    <2>2. \A e, d : EntryOf(e, d)' <=> EntryOf(e, d)
      BY <1>1, <2>1 DEF EntryOf
    <2>3. Declared.pending' = s.pending /\ Declared.visibility' = s.visibility
      BY <1>2 DEF Declared
    <2> QED
      BY <1>1, <1>2, <2>2, <2>3 DEF Queued
  <1>3. CASE CollectItem
    <2>1. /\ Def(pos, "Item") \in DefId /\ Def(pos, "Item").item = pos
          /\ pos \in 1 .. Len(crate) /\ crate[pos].kind # "mod"
      BY <1>3, NextItem DEF CollectItem, Collecting
    <2>2. NameOf(Def(pos, "Item")) = crate[pos].name /\ NsOf(Def(pos, "Item")) = "Item"
      BY <2>1 DEF NameOf, NsOf, Def
    <2>3. PICK d, s : /\ d = Def(pos, "Item")
                      /\ s = Declare(Declared, d, crate[pos].name, "Item")
      OBVIOUS
    <2>4. Queued(s)
      BY <1>1, <2>1, <2>2, <2>3, DeclareQueues
    <2> QED
      BY <1>2, <1>3, <2>3, <2>4 DEF CollectItem, Become
  <1>4. CASE DeclareAdt
    <2>1. /\ Def(pos, "Item") \in DefId /\ Def(pos, "Item").item = pos
          /\ Def(pos, "Ctor") \in DefId /\ Def(pos, "Ctor").item = pos
          /\ pos \in 1 .. Len(crate) /\ crate[pos].kind # "mod" /\ crate[pos].name \in Names
      BY <1>4, NextItem, TypeCollect DEF DeclareAdt, Collecting, DeclInv
    <2>2. /\ NameOf(Def(pos, "Item")) = crate[pos].name /\ NsOf(Def(pos, "Item")) = "Item"
          /\ NameOf(Def(pos, "Ctor")) = crate[pos].ctor /\ NsOf(Def(pos, "Ctor")) = "Item"
      BY <2>1 DEF NameOf, NsOf, Def
    <2>3. PICK d, c, s, r : /\ d = Def(pos, "Item") /\ c = Def(pos, "Ctor")
                            /\ s = Declare(Declared, d, crate[pos].name, "Item")
                            /\ r = Declare(s, c, crate[pos].ctor, "Item")
      OBVIOUS
    <2>4. Queued(s)
      BY <1>1, <2>1, <2>2, <2>3, DeclareQueues
    <2>5. s \in Collected
      <3>1. parent \in [ModuleId -> ModuleId \cup {NoModule}]
        BY DEF DeclInv, TypeInv, TypeOK
      <3> QED
        BY <1>1, <2>1, <2>3, <3>1, DeclareType DEF NS
    <2>6. Queued(r)
      BY <1>1, <2>1, <2>2, <2>3, <2>4, <2>5, DeclareQueues
    <2> QED
      BY <1>2, <1>4, <2>3, <2>6 DEF DeclareAdt, Become
  <1>5. CASE CollectMod
    <2>1. /\ Def(pos, "Item") \in DefId /\ Def(pos, "Item").item = pos
          /\ pos \in 1 .. Len(crate) /\ crate[pos].kind = "mod"
      BY <1>5, NextItem DEF CollectMod, Collecting
    <2>2. NameOf(Def(pos, "Item")) = crate[pos].name /\ NsOf(Def(pos, "Item")) = "Module"
      BY <2>1 DEF NameOf, NsOf, Def
    <2>3. PICK d, s : /\ d = Def(pos, "Item")
                      /\ s = Declare(Declared, d, crate[pos].name, "Module")
      OBVIOUS
    <2>4. Queued(s)
      BY <1>1, <2>1, <2>2, <2>3, DeclareQueues
    <2>5. pending' = s.pending /\ visibility' = s.visibility
      BY <1>5, <2>3 DEF CollectMod, Become, Declare
    <2> QED
      BY <1>2, <2>4, <2>5
  <1>6. CASE CollectUse
    <2>1. pending' = Declared.pending /\ visibility' = Declared.visibility
      BY <1>6 DEF CollectUse, Declared
    <2> QED
      BY <1>1, <1>2, <2>1
  <1> QED
    BY <1>3, <1>4, <1>5, <1>6
(* The entry at `pos` refines the visibility of the def its name is bound  *)
(* to, and of no other.                                                    *)
LEMMA PendingPays ==
    ASSUME DeclInv, AbsentsBlank, Owed, ResolvePending
    PROVE  Owed'
  <1>1. PICK key, path, vis :
            /\ key = pending[pos].key /\ path = pending[pos].path
            /\ vis = IF ResolvePathToModule(table, path, key[1]) \in ModuleId
                     THEN ResolvePathToModule(table, path, key[1]) ELSE key[1]
    OBVIOUS
  <1>2. /\ crate' = crate /\ phase = "pending" /\ phase' = phase /\ pos' = pos + 1
        /\ pending' = pending /\ UNCHANGED tree /\ pos \in DOMAIN pending
        /\ table' = [table EXCEPT ![key] = Refined(@, vis)]
        /\ visibility' = IF table[key].source = "Absent" THEN visibility
                         ELSE [visibility EXCEPT ![table[key].def] = vis]
    BY <1>1 DEF ResolvePending, DeclInv, TypeInv, TypeOK
  <1>3. /\ crate \in Crates /\ table \in [Key -> Binding] /\ NoImports(table)
        /\ visibility \in [DefId -> Scope \cup {Undeclared}]
        /\ DeclsOK(Declared) /\ TableOK(table) /\ pos \in Nat /\ DOMAIN pending = 1 .. Len(pending)
    BY <1>2 DEF DeclInv, TypeInv, TypeOK, DeclsOK, Declared
  <1>4. PICK d \in DefId : Restricted(d) /\ key = Home(d) /\ path = crate[d.item].vis.path
    BY <1>1, <1>2 DEF Owed, EntryOf
  <1>5. /\ d.item \in 1 .. Len(crate) /\ key \in Key /\ table[key].source = "Def"
        /\ key[1] = crate[d.item].mod /\ key[1] \in ModuleId
    <2>1. d.item \in 1 .. Len(crate) /\ table[key].source = "Def"
      BY <1>3, <1>4 DEF DeclsOK, Declared, Restricted, IsDeclared
    <2> QED
      BY <1>3, <1>4, <2>1, HomeType DEF Home, Key
  <1>6. PICK w : w = table[key].def
    OBVIOUS
  <1>7. w \in DefId /\ Home(w) = key /\ visibility[w] # Undeclared
    BY <1>3, <1>5, <1>6 DEF TableOK, DeclsOK, Declared
  <1>8. vis \in ModuleId /\ vis # Undeclared
    BY <1>1, <1>5, BoundsAssumption DEF ModuleId
  <1>9. visibility' = [visibility EXCEPT ![w] = vis]
    BY <1>2, <1>5, <1>6
  <1>10. /\ visibility'[w] = vis
         /\ \A c \in DefId \ {w} : visibility'[c] = visibility[c]
    BY <1>3, <1>7, <1>9
  <1>11. /\ \A c : Home(c)' = Home(c)
         /\ \A c \in DefId : IsDeclared(c)' <=> IsDeclared(c)
    BY <1>2, <1>7, <1>8, <1>10 DEF Home, NameOf, NsOf, IsDeclared
  <1>12. /\ \A e, c : EntryOf(e, c)' <=> EntryOf(e, c)
         /\ \A c \in DefId : Restricted(c)' <=> Restricted(c)
         /\ \A c \in DefId : Unrivalled(c)' <=> Unrivalled(c)
    BY <1>2, <1>11 DEF EntryOf, Restricted, Unrivalled
  <1>13. Declarations = table /\ Declarations' = table'
    <2>1. DeclInv' /\ AbsentsBlank'
      <3>1. [Next]_vars
        BY DEF Next
      <3> QED
        BY <3>1, DeclStep, BlankStep
    <2>2. (DeclInv /\ AbsentsBlank /\ phase \in {"collect", "pending"} => Declarations = table)'
      BY NothingImportedYet, PTL
    <2> QED
      BY <1>2, <2>1, <2>2, NothingImportedYet
  <1>14. \A m, name, ns : Lookup(table, m, name, ns).def = Lookup(table', m, name, ns).def
    BY <1>2, <1>3, <1>5 DEF Lookup, Refined, Binding
  <1>15. ASSUME NEW c \in DefId, Restricted(c)
         PROVE  Target(Declarations, c)' = Target(Declarations, c)
    <2>1. c.item \in 1 .. Len(crate)
      BY <1>3, <1>15 DEF DeclsOK, Declared, Restricted, IsDeclared
    <2>2. crate[c.item].vis.path \in Seq(Segment)
      BY <1>3, <2>1, CrateItems DEF Item, SurfaceVis
    <2>3. PICK t, t2 : t = table /\ t2 = table'
      OBVIOUS
    <2>4. \A m, name, ns : Lookup(t, m, name, ns).def = Lookup(t2, m, name, ns).def
      BY <1>14, <2>3
    <2>5. Target(t2, c)' = Target(t, c)
      BY <1>2, <2>2, <2>4, TargetKept
    <2> QED
      BY <1>13, <2>3, <2>5
  <1>16. vis = Target(Declarations, d)
    BY <1>1, <1>4, <1>5, <1>13 DEF Target
  <1>17. ASSUME NEW c \in DefId, Restricted(c), Unrivalled(c)
         PROVE  \/ visibility'[c] = Target(Declarations, c)
                \/ \E i \in DOMAIN pending : pos + 1 <= i /\ EntryOf(pending[i], c)
    <2>1. ASSUME Home(c) = key PROVE w = c /\ d = c
      BY <1>4, <1>7, <1>17, <2>1 DEF Unrivalled, Restricted, IsDeclared
    <2>2. CASE Home(c) = key
      BY <1>10, <1>16, <2>1, <2>2
    <2>3. CASE Home(c) # key
      <3>1. visibility'[c] = visibility[c]
        BY <1>7, <1>10, <2>3
      <3>2. \A i \in DOMAIN pending : pos <= i /\ EntryOf(pending[i], c) => pos + 1 <= i
        BY <1>1, <1>3, <2>3 DEF EntryOf
      <3> QED
        BY <1>2, <1>17, <3>1, <3>2 DEF Owed
    <2> QED
      BY <2>2, <2>3
  <1>18. \A i \in DOMAIN pending : \E c \in DefId : Restricted(c) /\ EntryOf(pending[i], c)
    BY <1>2 DEF Owed
  <1> QED
    BY <1>2, <1>12, <1>15, <1>17, <1>18 DEF Owed

LEMMA OwedStep ==
    ASSUME DeclInv, AbsentsBlank, Owed, [Next]_vars
    PROVE  Owed'
  <1>1. CASE CollectItem \/ DeclareAdt \/ CollectMod \/ CollectUse
    <2>1. phase' = "collect"
      BY <1>1 DEF CollectItem, DeclareAdt, CollectMod, CollectUse, Collecting
    <2> QED
      BY <1>1, <2>1, CollectQueues DEF Owed
  <1>2. CASE ResolvePending
    BY <1>2, PendingPays
  <1>3. CASE EndCollect
    <2>1. /\ phase = "collect" /\ phase' = "pending" /\ pos' = 1
          /\ UNCHANGED <<crate, pending, visibility>>
      BY <1>3 DEF EndCollect
    <2>2. /\ \A c : Home(c)' = Home(c)
          /\ \A c : IsDeclared(c)' <=> IsDeclared(c)
      BY <2>1 DEF Home, NameOf, NsOf, IsDeclared
    <2>3. /\ \A e, c : EntryOf(e, c)' <=> EntryOf(e, c)
          /\ \A c : Restricted(c)' <=> Restricted(c)
      BY <2>1, <2>2 DEF EntryOf, Restricted
    <2>4. /\ \A i \in DOMAIN pending : \E d \in DefId : Restricted(d) /\ EntryOf(pending[i], d)
          /\ \A d \in DefId : Restricted(d) =>
                \E i \in DOMAIN pending : EntryOf(pending[i], d)
      BY <2>1 DEF Owed, Queued, Declared, Restricted, IsDeclared
    <2>5. \A i \in DOMAIN pending : 1 <= i
      BY DEF DeclInv, TypeInv, TypeOK
    <2> QED
      BY <2>1, <2>3, <2>4, <2>5 DEF Owed
  <1>4. CASE EndPending
    <2>1. /\ phase = "pending" /\ phase' = "imports"
          /\ UNCHANGED <<crate, table, tree, visibility>>
      BY <1>4 DEF EndPending
    <2>2. \A i \in DOMAIN pending : ~ pos <= i
      BY <1>4 DEF EndPending, DeclInv, TypeInv, TypeOK
    <2>3. \A d \in DefId : Restricted(d) /\ Unrivalled(d) =>
              visibility[d] = Target(Declarations, d)
      BY <2>1, <2>2 DEF Owed
    <2>4. \A d : Target(Declarations, d)' = Target(Declarations, d)
      BY <2>1 DEF Target, Declarations, ResolvePathToModule, ResolvePath, Walk, PathAnchor, Up,
                  ParentOr, tree
    <2>5. \A d : /\ Restricted(d)' <=> Restricted(d)
                 /\ Unrivalled(d)' <=> Unrivalled(d)
      BY <2>1 DEF Restricted, Unrivalled, IsDeclared, Home, NameOf, NsOf
    <2> QED
      BY <2>1, <2>3, <2>4, <2>5 DEF Owed
  <1>5. CASE phase \notin {"collect", "pending"}
    <2>1. UNCHANGED <<crate, tree, visibility>> /\ phase' \notin {"collect", "pending"}
      BY <1>5, CrateStays, Zenon DEF Next, CollectItem, DeclareAdt, CollectMod, CollectUse,
         Collecting, EndCollect, ResolvePending, EndPending, BeginUse, ImportLeaf, ImportSelf,
         ImportGlob, ImportStep, Importing, EndUse, EndPass, CheckLeaf, EndCheckUse, EndCheck,
         Terminated, vars
    <2>2. Declarations' = Declarations
      <3>1. CASE ImportLeaf \/ ImportSelf \/ ImportGlob
        <4>1. crate \in Crates /\ TableOK(table)
          BY DEF DeclInv, TypeInv, DeclsOK, Declared
        <4>2. PICK t, t2 : t = table /\ t2 = table'
          OBVIOUS
        <4>3. \A k \in Key : t2[k] = t[k] \/ Copies(t, t[k], t2[k], k)
          BY <3>1, <4>2, ImportsCopy
        <4>4. \A k \in Key : t[k].source = "Def" \/ t2[k].source = "Def" => t2[k] = t[k]
          BY <4>1, <4>2, <4>3, CopiesKeepTable
        <4> QED
          BY <4>2, <4>4 DEF Declarations
      <3>2. CASE ~(ImportLeaf \/ ImportSelf \/ ImportGlob)
        <4>1. table' = table
          BY <1>5, <3>2 DEF Next, CollectItem, DeclareAdt, CollectMod, CollectUse,
             Collecting, EndCollect, ResolvePending, EndPending, BeginUse, EndUse, EndPass,
             CheckLeaf, EndCheckUse, EndCheck, Terminated, vars
        <4> QED
          BY <4>1 DEF Declarations
      <3> QED
        BY <3>1, <3>2
    <2>3. \A d : Target(Declarations, d)' = Target(Declarations, d)
      <3>1. PICK t : t = Declarations
        OBVIOUS
      <3>2. \A d : Target(t, d)' = Target(t, d)
        BY <2>1 DEF Target, ResolvePathToModule, ResolvePath, Walk, PathAnchor, Up,
                    ParentOr, tree
      <3> QED
        BY <2>2, <3>1, <3>2
    <2>4. \A d : /\ Restricted(d)' <=> Restricted(d)
                 /\ Unrivalled(d)' <=> Unrivalled(d)
      BY <2>1 DEF Restricted, Unrivalled, IsDeclared, Home, NameOf, NsOf
    <2> QED
      BY <1>5, <2>1, <2>3, <2>4 DEF Owed
  <1>6. CASE UNCHANGED vars /\ phase \in {"collect", "pending"}
    <2>1. UNCHANGED <<crate, phase, pos, table, tree, visibility, pending, diags>>
      BY <1>6 DEF vars
    <2>2. \A d : /\ Restricted(d)' <=> Restricted(d)
                 /\ Unrivalled(d)' <=> Unrivalled(d)
      BY <2>1 DEF Restricted, Unrivalled, IsDeclared, Home, NameOf, NsOf
    <2>3. \A e, d : EntryOf(e, d)' <=> EntryOf(e, d)
      BY <2>1 DEF EntryOf, Home, NameOf, NsOf
    <2>4. Queued(Declared) => Queued(Declared)'
      BY <2>1, <2>3 DEF Queued, Declared
    <2>5. \A d : Target(Declarations, d)' = Target(Declarations, d)
      BY <2>1 DEF Target, Declarations, ResolvePathToModule, ResolvePath, Walk, PathAnchor, Up,
                  ParentOr, tree
    <2> QED
      BY <2>1, <2>2, <2>3, <2>4, <2>5 DEF Owed
  <1>7. phase \in {"collect", "pending"} =>
            \/ CollectItem \/ DeclareAdt \/ CollectMod \/ CollectUse \/ ResolvePending
            \/ EndCollect \/ EndPending \/ UNCHANGED vars
    BY DEF Next, BeginUse, ImportLeaf, ImportSelf, ImportGlob, ImportStep, Importing, EndUse,
       EndPass, CheckLeaf, EndCheckUse, EndCheck, Terminated
  <1> QED
    BY <1>1, <1>2, <1>3, <1>4, <1>5, <1>6, <1>7

(* In any crate, a `pub(in path)` on a name declared once restricts it to  *)
(* the module the path names among the declarations, also when that module *)
(* is declared later, and no import changes that.                          *)
THEOREM RestrictionsLand == Spec => []PubInLands
  <1>1. Init => Owed
    BY DEF Init, Owed, Queued, Declared
  <1>2. DeclInv /\ AbsentsBlank /\ Owed /\ [Next]_vars => DeclInv' /\ AbsentsBlank' /\ Owed'
    BY DeclStep, BlankStep, OwedStep
  <1>3. Owed => PubInLands
    BY DEF Owed, PubInLands, Restricted, Unrivalled, Target
  <1> QED
    BY <1>1, <1>2, <1>3, DeclInit, UsesInit, PTL DEF Spec
=============================================================================
