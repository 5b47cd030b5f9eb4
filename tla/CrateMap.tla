------------------------------ MODULE CrateMap ------------------------------
(***************************************************************************)
(* The whole of `crate_def_map`: DefMap's phases, with the two that write  *)
(* maps of their own added in their places.                                *)
(*   phase 3, resolve_impls: between the imports and the use checks, every *)
(*     `impl` is resolved in the tables, its items get defs, and it enters *)
(*     the index that method calls or trait selection read;                *)
(*   phase 5, build_def_paths: at the end, every def gets its path.        *)
(* The prelude is the scope behind every module: its types and traits are  *)
(* constants, and its impls are the first of the queue, written in the     *)
(* module PreludeModule.  Left out: visibility and `inline` of methods,    *)
(* and the hash of a path.                                                 *)
(***************************************************************************)
EXTENDS DefMap

CONSTANTS
    Sources,      \* the crates with what is written in their traits and impls
    Prelude       \* what the prelude binds: [kind, methods, consts] by name

PreludeModule == -4

(* A source is a crate, the methods and consts of each of its traits, and  *)
(* its impls: where each is, the head of the type it is for, whether that  *)
(* has arguments, the trait ("" if inherent), the names of its items.      *)
ASSUME SourcesAssumption ==
    \A s \in Sources :
        /\ s.crate \in Crates
        /\ s.members \in [1 .. Len(s.crate) -> [methods : Seq(Names), consts : Seq(Names)]]
        /\ s.impls \in Seq([mod : ModuleId \cup {PreludeModule}, owner : STRING, applied : BOOLEAN,
                            trait : STRING, methods : Seq(Names), consts : Seq(Names)])

VARIABLES
    members,      \* the methods and consts of each `trait` item
    impls,        \* Collector.impls
    nextImpl,     \* the one of them that resolve_impls takes next
    order,        \* Collector.def_order
    inherent,     \* impl_methods: <<owner, name>> to a method
    dispatch,     \* the entries of trait_dispatch, in the order they came
    traitImpls,   \* the entries of trait_impls, in the order they came
    paths,        \* def_paths, in the order of `order`
    implDiags     \* the diagnostics of phase 3

written == <<members, impls>>
indexed == <<nextImpl, inherent, dispatch, traitImpls, implDiags>>
mapVars == <<vars, written, indexed, order, paths>>

----------------------------------------------------------------------------
(* Defs.  Those of the items are DefMap's; the members of a trait, an impl *)
(* and its members have defs that no name table holds.                     *)

TraitItem(i, kind, j) == [trait |-> i, kind |-> kind, nr |-> j]
ImplItem(b, kind, j)  == [impl |-> b, kind |-> kind, nr |-> j]
ImplDef(b)            == ImplItem(b, "impl", 0)
Builtin(n)            == [prelude |-> n]

(* The name `n` as module m sees it: its own table, then the prelude. *)
InScope(m, n) ==
    LET d == Lookup(table, m, n, "Item").def
    IN  IF d \in DefId THEN d ELSE IF n \in DOMAIN Prelude THEN Builtin(n) ELSE NoDef

KindOf(d) ==
    CASE d \in DefId /\ d.role = "Item" -> crate[d.item].kind
      [] d \in DefId /\ d.role = "Ctor" -> "ctor"
      [] d = NoDef                      -> "none"
      [] d \notin DefId /\ d # NoDef    -> Prelude[d.prelude].kind

(* The keys trait_methods or trait_consts holds for a trait. *)
Listed(names)  == {names[j] : j \in 1 .. Len(names)}
MembersOf(t)   == IF t \in DefId THEN members[t.item] ELSE Prelude[t.prelude]
Keyed(x)       == (Listed(x.methods) \X {"method"}) \cup (Listed(x.consts) \X {"const"})
DeclaredBy(t)  == Keyed(MembersOf(t))
GivenBy(b)     == Keyed(impls[b])

(* What declare, declare_adt and declare_trait push on def_order. *)
DefsOf(i) ==
    LET own   == Def(i, "Item")
        its(names, kind) == [j \in 1 .. Len(names) |-> TraitItem(i, kind, j)]
    IN  CASE crate[i].kind \in {"fn", "mod"} -> <<own>>
          [] crate[i].kind = "adt"   -> <<own, Def(i, "Ctor")>>
          [] crate[i].kind = "trait" -> <<own>> \o its(members[i].methods, "method")
                                                \o its(members[i].consts, "const")
          [] crate[i].kind = "use"   -> <<>>

----------------------------------------------------------------------------
(* Phase 3: resolve_impls. *)

OwnerOf(b) == InScope(impls[b].mod, impls[b].owner)
TraitOf(b) == InScope(impls[b].mod, impls[b].trait)

ForTrait(b) == impls[b].trait # ""

(* A struct, a port or a builtin type. *)
HasOwner(b) == KindOf(OwnerOf(b)) \in {"adt", "type"}
HasTrait(b) == KindOf(TraitOf(b)) = "trait"

ImplDiag(kind, b, name) == [kind |-> kind, impl |-> b, name |-> name]

(* Mutant: the impls are resolved as soon as the imports begin. *)
IndexingEarly ==
    /\ phase \in {"imports", "check"} /\ pos = 1 /\ leaf = 0
    /\ nextImpl <= Len(impls)
    /\ nextImpl' = nextImpl + 1
    /\ UNCHANGED <<vars, written, paths>>

Indexing ==
    /\ phase = "check" /\ pos = 1 /\ leaf = 0
    /\ nextImpl <= Len(impls)
    /\ nextImpl' = nextImpl + 1
    /\ UNCHANGED <<vars, written, paths>>

(* An impl whose type or trait is not one is dropped with all its items. *)
SkipImpl ==
    /\ Indexing
    /\ ~HasOwner(nextImpl) \/ (ForTrait(nextImpl) /\ ~HasTrait(nextImpl))
    /\ implDiags' = implDiags \cup
           {IF HasOwner(nextImpl) THEN ImplDiag("UnresolvedTrait", nextImpl, impls[nextImpl].trait)
            ELSE ImplDiag("UnresolvedImplOwner", nextImpl, impls[nextImpl].owner)}
    /\ UNCHANGED <<order, inherent, dispatch, traitImpls>>

MethodsOf(b) == [j \in 1 .. Len(impls[b].methods) |-> ImplItem(b, "method", j)]
ConstsOf(b)  == [j \in 1 .. Len(impls[b].consts) |-> ImplItem(b, "const", j)]

(* The last method of a name in the impl: it overwrites the others. *)
LastMethod(b, n) ==
    ImplItem(b, "method",
             CHOOSE j \in 1 .. Len(impls[b].methods) :
                 /\ impls[b].methods[j] = n
                 /\ \A l \in (j + 1) .. Len(impls[b].methods) : impls[b].methods[l] # n)

(* The methods of an inherent impl take the names over from those before;  *)
(* consts in it have no def.                                               *)
IndexInherent ==
    /\ Indexing
    /\ HasOwner(nextImpl) /\ ~ForTrait(nextImpl)
    /\ order' = order \o MethodsOf(nextImpl) \o <<ImplDef(nextImpl)>>
    /\ LET keys == {OwnerOf(nextImpl)} \X Listed(impls[nextImpl].methods)
       IN  inherent' = [k \in DOMAIN inherent \cup keys |->
                            IF k \in keys THEN LastMethod(nextImpl, k[2]) ELSE inherent[k]]
    /\ UNCHANGED <<dispatch, traitImpls, implDiags>>

(* Conformance, by name and kind. *)
ConformanceDiags(b) ==
    LET declared == DeclaredBy(TraitOf(b))
    IN  {ImplDiag("MissingTraitItem", b, m[1]) : m \in declared \ GivenBy(b)}
            \cup {ImplDiag("ExtraTraitItem", b, m[1]) : m \in GivenBy(b) \ declared}

Entry(b) == [impl |-> b, trait |-> TraitOf(b), owner |-> OwnerOf(b), applied |-> impls[b].applied]

(* Mutant: any earlier impl of the trait for the type overlaps. *)
OverlapsAny(b) ==
    \E e \in 1 .. Len(traitImpls) : /\ traitImpls[e].trait = TraitOf(b)
                                    /\ traitImpls[e].owner = OwnerOf(b)

(* Coherence: two impls of a trait for one type without arguments. *)
Overlaps(b) ==
    /\ ~impls[b].applied
    /\ \E e \in 1 .. Len(traitImpls) : /\ traitImpls[e].trait = TraitOf(b)
                                       /\ traitImpls[e].owner = OwnerOf(b)
                                       /\ ~traitImpls[e].applied

IndexTraitImpl ==
    /\ Indexing
    /\ HasOwner(nextImpl) /\ ForTrait(nextImpl) /\ HasTrait(nextImpl)
    /\ order' = order \o ConstsOf(nextImpl) \o MethodsOf(nextImpl) \o <<ImplDef(nextImpl)>>
    /\ dispatch' = dispatch \o
           [j \in 1 .. Len(impls[nextImpl].methods) |->
               [owner |-> OwnerOf(nextImpl), name |-> impls[nextImpl].methods[j],
                trait |-> TraitOf(nextImpl), method |-> ImplItem(nextImpl, "method", j)]]
    /\ traitImpls' = Append(traitImpls, Entry(nextImpl))
    /\ implDiags' = implDiags \cup ConformanceDiags(nextImpl) \cup
           (IF Overlaps(nextImpl) THEN {ImplDiag("OverlappingImpls", nextImpl, impls[nextImpl].owner)} ELSE {})
    /\ UNCHANGED inherent

----------------------------------------------------------------------------
(* Phase 5: build_def_paths. *)

ModuleName(m) == crate[CHOOSE i \in 1 .. Len(crate) : moduleOf[Def(i, "Item")] = m].name

(* The names of the modules from the root to m: path_prefix. *)
Prefix(m) ==
    LET to[n \in ModuleId] == IF n = Root THEN <<>> ELSE Append(to[parent[n]], ModuleName(n))
    IN  IF m \in ModuleId THEN to[m] ELSE <<"$prelude">>

(* The path of a def, still to be told from equal ones.  An impl is named  *)
(* for its trait and its type.                                             *)
PathOf(d) ==
    CASE d \in DefId -> Append(Prefix(crate[d.item].mod), NameOf(d))
      [] "trait" \in DOMAIN d ->
             Append(Prefix(crate[d.trait].mod),
                    IF d.kind = "method" THEN members[d.trait].methods[d.nr]
                    ELSE members[d.trait].consts[d.nr])
      [] "impl" \in DOMAIN d ->
             Append(Prefix(impls[d.impl].mod),
                    CASE d.kind = "impl"   -> "impl_" \o impls[d.impl].trait \o "_" \o impls[d.impl].owner
                      [] d.kind = "method" -> impls[d.impl].methods[d.nr]
                      [] d.kind = "const"  -> impls[d.impl].consts[d.nr])

(* Mutant: it counts only within one def kind. *)
EarlierImplItems(names) ==
    Cardinality({q \in 1 .. Len(paths) : paths[q].names = names /\ "impl" \in DOMAIN paths[q].def})

(* How many earlier defs have the path. *)
Earlier(names) == Cardinality({q \in 1 .. Len(paths) : paths[q].names = names})

DefPath(d, names) == [def |-> d, names |-> names, nr |-> Earlier(names)]

BuildDefPath ==
    /\ phase = "done"
    /\ Len(paths) < Len(order)
    /\ LET d == order[Len(paths) + 1] IN paths' = Append(paths, DefPath(d, PathOf(d)))
    /\ UNCHANGED <<vars, written, indexed, order>>

----------------------------------------------------------------------------
(* The query. *)

CrateInit ==
    /\ \E s \in Sources : crate = s.crate /\ members = s.members /\ impls = s.impls
    /\ Init
    /\ nextImpl = 1
    /\ order = <<>>
    /\ inherent = [k \in {} |-> NoDef]
    /\ dispatch = <<>>
    /\ traitImpls = <<>>
    /\ paths = <<>>
    /\ implDiags = {}

(* A step of phase 1: what it declares is ordered. *)
Ordering ==
    /\ order' = order \o DefsOf(pos)
    /\ UNCHANGED <<written, indexed, paths>>

(* A step that resolves names, or ends a phase. *)
Resolving == UNCHANGED <<written, indexed, order, paths>>

(* A step of phase 4, which follows phase 3. *)
Checking == nextImpl > Len(impls) /\ Resolving

CrateNext ==
    \/ (CollectItem \/ DeclareAdt \/ CollectMod \/ CollectUse) /\ Ordering
    \/ (EndCollect \/ ResolvePending \/ EndPending) /\ Resolving
    \/ (BeginUse \/ ImportLeaf \/ ImportSelf \/ ImportGlob \/ EndUse \/ EndPass) /\ Resolving
    \/ SkipImpl \/ IndexInherent \/ IndexTraitImpl
    \/ (CheckLeaf \/ EndCheckUse \/ EndCheck) /\ Checking
    \/ BuildDefPath
    \/ Terminated /\ Len(paths) = Len(order) /\ Resolving

(* The query is one call: it runs to its end unless a step blocks. *)
CrateSpec == CrateInit /\ [][CrateNext]_mapVars /\ WF_mapVars(CrateNext)

----------------------------------------------------------------------------
(* Properties. *)

Indexed == phase \in {"check", "done"} /\ nextImpl > Len(impls)

Accepted(b) == HasOwner(b) /\ (ForTrait(b) => HasTrait(b))
Inherents   == {b \in 1 .. Len(impls) : Accepted(b) /\ ~ForTrait(b)}
TraitImpls  == {b \in 1 .. Len(impls) : Accepted(b) /\ ForTrait(b)}

Refused(b, kinds) == \E d \in implDiags : d.impl = b /\ d.kind \in kinds

(* Method calls reach what is written: judged by the tables as the imports *)
(* left them, an impl is dropped exactly when it is reported, the methods  *)
(* of a type are those of its inherent impls, the last impl of a name      *)
(* being the one that answers, and the candidates of a name under traits   *)
(* are the methods of its trait impls.                                     *)
MethodsAreReached ==
    Indexed =>
        /\ \A b \in 1 .. Len(impls) :
             Accepted(b) <=> ~Refused(b, {"UnresolvedImplOwner", "UnresolvedTrait"})
        /\ DOMAIN inherent = UNION {{OwnerOf(b)} \X Listed(impls[b].methods) : b \in Inherents}
        /\ \A k \in DOMAIN inherent :
             \E b \in Inherents :
                /\ OwnerOf(b) = k[1] /\ k[2] \in Listed(impls[b].methods)
                /\ inherent[k] = LastMethod(b, k[2])
                /\ \A c \in Inherents : OwnerOf(c) = k[1] /\ k[2] \in Listed(impls[c].methods) => c <= b
        /\ Listed(dispatch) =
             UNION {{[owner |-> OwnerOf(b), name |-> impls[b].methods[j], trait |-> TraitOf(b),
                      method |-> ImplItem(b, "method", j)] : j \in 1 .. Len(impls[b].methods)} :
                      b \in TraitImpls}

Candidates(o, t, n) == {e \in Listed(dispatch) : e.owner = o /\ e.trait = t /\ e.name = n}

(* Trait selection may rely on what was not reported: an impl without a    *)
(* diagnostic offers a candidate for each method its trait declares and    *)
(* for no other, and two impls of a trait for a type without arguments     *)
(* are never both unreported.                                              *)
ImplsAreJudged ==
    Indexed =>
        \A b \in TraitImpls :
            /\ ~Refused(b, {"MissingTraitItem", "ExtraTraitItem"}) =>
                 \A n \in Names :
                    (<<n, "method">> \in DeclaredBy(TraitOf(b))) <=>
                        (\E e \in Candidates(OwnerOf(b), TraitOf(b), n) : e.method.impl = b)
            /\ Refused(b, {"OverlappingImpls"}) <=>
                 \E c \in TraitImpls : /\ c < b
                                       /\ Entry(c) = [Entry(b) EXCEPT !.impl = c]
                                       /\ ~impls[b].applied

(* A path identifies a def: whatever a name or a method call can resolve   *)
(* to in this crate has a path in the end, and no two defs share one.      *)
PathsIdentify ==
    phase = "done" /\ Len(paths) = Len(order) =>
        LET Pathed == {paths[q].def : q \in 1 .. Len(paths)}
        IN  /\ \A p, q \in 1 .. Len(paths) :
                 p # q => /\ paths[p].def # paths[q].def
                          /\ <<paths[p].names, paths[p].nr>> # <<paths[q].names, paths[q].nr>>
            /\ \A k \in Key : table[k].source # "Absent" => table[k].def \in Pathed
            /\ \A k \in DOMAIN inherent : inherent[k] \in Pathed
            /\ \A e \in Listed(dispatch) : e.method \in Pathed

============================================================================
