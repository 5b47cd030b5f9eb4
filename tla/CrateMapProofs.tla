--------------------------- MODULE CrateMapProofs ---------------------------
(***************************************************************************)
(* The index of the impls and the def paths of a crate of any size.        *)
(***************************************************************************)
EXTENDS CrateMap, DefMapPrivacyProofs, SequenceTheorems

----------------------------------------------------------------------------
(* Sequences and what they list.                                           *)

IsSeq(s) == s \in Seq(Listed(s))

Distinct(s) == \A p, q \in 1 .. Len(s) : s[p] = s[q] => p = q

LEMMA SeqIsSeq ==
    ASSUME NEW S, NEW s \in Seq(S)
    PROVE  IsSeq(s) /\ Len(s) \in Nat /\ Listed(s) \subseteq S
  <1>1. Len(s) \in Nat /\ s \in [1 .. Len(s) -> S]
    OBVIOUS
  <1>2. \A j \in 1 .. Len(s) : s[j] \in Listed(s)
    BY DEF Listed
  <1> HIDE DEF Listed
  <1>3. s \in [1 .. Len(s) -> Listed(s)]
    BY <1>1, <1>2
  <1>4. s \in Seq(Listed(s))
    BY <1>1, <1>3
  <1>5. Listed(s) \subseteq S
    BY <1>1 DEF Listed
  <1> QED
    BY <1>1, <1>4, <1>5 DEF IsSeq

LEMMA ListedJoin ==
    ASSUME NEW s, NEW t, IsSeq(s), IsSeq(t)
    PROVE  /\ IsSeq(s \o t)
           /\ Listed(s \o t) = Listed(s) \cup Listed(t)
           /\ Distinct(s) /\ Distinct(t) /\ Listed(s) \cap Listed(t) = {}
                => Distinct(s \o t)
  <1> DEFINE S == Listed(s) \cup Listed(t)
             r == s \o t
  <1>1. s \in Seq(S) /\ t \in Seq(S)
    <2>1. ASSUME NEW A, NEW B, NEW x \in Seq(A), A \subseteq B PROVE x \in Seq(B)
      BY <2>1
    <2> HIDE DEF S
    <2>2. Listed(s) \subseteq S /\ Listed(t) \subseteq S
      BY DEF S
    <2> QED
      BY <2>1, <2>2 DEF IsSeq
  <1>2. /\ Len(s) \in Nat /\ Len(t) \in Nat
        /\ \A j \in 1 .. Len(s) : s[j] \in Listed(s)
        /\ \A j \in 1 .. Len(t) : t[j] \in Listed(t)
    BY <1>1 DEF Listed
  <1> HIDE DEF S
  <1>3. /\ r \in Seq(S) /\ Len(r) = Len(s) + Len(t)
        /\ \A j \in 1 .. Len(s) : r[j] = s[j]
        /\ \A j \in (Len(s) + 1) .. Len(r) : r[j] = t[j - Len(s)]
    BY <1>1
  <1> HIDE DEF r
  <1>4. \A j \in 1 .. Len(t) : j + Len(s) \in (Len(s) + 1) .. Len(r) /\ r[j + Len(s)] = t[j]
    <2> SUFFICES ASSUME NEW j \in 1 .. Len(t)
                 PROVE  j + Len(s) \in (Len(s) + 1) .. Len(r) /\ r[j + Len(s)] = t[j]
      OBVIOUS
    <2>1. j + Len(s) \in (Len(s) + 1) .. Len(r) /\ (j + Len(s)) - Len(s) = j
      BY <1>2, <1>3
    <2> QED
      BY <1>3, <2>1
  <1>5. \A j \in 1 .. Len(r) : \/ j \in 1 .. Len(s)
                               \/ j \in (Len(s) + 1) .. Len(r) /\ j - Len(s) \in 1 .. Len(t)
    BY <1>2, <1>3
  <1>6. Listed(r) \subseteq S
    <2> SUFFICES ASSUME NEW j \in 1 .. Len(r) PROVE r[j] \in S
      BY DEF Listed
    <2> QED
      BY <1>2, <1>3, <1>5 DEF S
  <1>7. S \subseteq Listed(r)
    <2>1. ASSUME NEW j \in 1 .. Len(s) PROVE s[j] \in Listed(r)
      <3>1. j \in 1 .. Len(r) /\ r[j] = s[j]
        BY <1>2, <1>3
      <3> QED
        BY <3>1 DEF Listed
    <2>2. ASSUME NEW j \in 1 .. Len(t) PROVE t[j] \in Listed(r)
      <3>1. j + Len(s) \in 1 .. Len(r) /\ r[j + Len(s)] = t[j]
        BY <1>2, <1>4
      <3> QED
        BY <3>1 DEF Listed
    <2> QED
      BY <2>1, <2>2 DEF S, Listed
  <1>8. ASSUME Distinct(s), Distinct(t), Listed(s) \cap Listed(t) = {}
        PROVE  Distinct(r)
    <2> SUFFICES ASSUME NEW p \in 1 .. Len(r), NEW q \in 1 .. Len(r), r[p] = r[q]
                 PROVE  p = q
      BY DEF Distinct
    <2>1. CASE p \in 1 .. Len(s) /\ q \in 1 .. Len(s)
      BY <1>3, <1>8, <2>1 DEF Distinct
    <2>2. CASE p \in 1 .. Len(s) /\ q \notin 1 .. Len(s)
      BY <1>2, <1>3, <1>5, <1>8, <2>2
    <2>3. CASE p \notin 1 .. Len(s) /\ q \in 1 .. Len(s)
      BY <1>2, <1>3, <1>5, <1>8, <2>3
    <2>4. CASE p \notin 1 .. Len(s) /\ q \notin 1 .. Len(s)
      <3>1. /\ p - Len(s) \in 1 .. Len(t) /\ q - Len(s) \in 1 .. Len(t)
            /\ t[p - Len(s)] = t[q - Len(s)]
        BY <1>3, <1>5, <2>4
      <3>2. p - Len(s) = q - Len(s)
        BY <1>8, <3>1 DEF Distinct
      <3> QED
        BY <1>2, <3>2
    <2> QED
      BY <2>1, <2>2, <2>3, <2>4
  <1>9. Listed(r) = S
    BY <1>6, <1>7
  <1>10. IsSeq(r)
    BY <1>3, <1>9 DEF IsSeq
  <1> QED
    BY <1>8, <1>9, <1>10 DEF S, r

LEMMA ListedAppend ==
    ASSUME NEW s, NEW x, IsSeq(s)
    PROVE  /\ IsSeq(Append(s, x))
           /\ Listed(Append(s, x)) = Listed(s) \cup {x}
           /\ Len(Append(s, x)) = Len(s) + 1
           /\ Append(s, x)[Len(s) + 1] = x
           /\ \A j \in 1 .. Len(s) : Append(s, x)[j] = s[j]
  <1> DEFINE S == Listed(s) \cup {x}
             r == Append(s, x)
  <1>1. s \in Seq(S) /\ x \in S
    BY DEF IsSeq
  <1>2. Len(s) \in Nat /\ \A j \in 1 .. Len(s) : s[j] \in Listed(s)
    BY <1>1 DEF Listed
  <1> HIDE DEF S
  <1>3. /\ r \in Seq(S) /\ Len(r) = Len(s) + 1 /\ r[Len(s) + 1] = x
        /\ \A j \in 1 .. Len(s) : r[j] = s[j]
    BY <1>1
  <1> HIDE DEF r
  <1>4. Listed(r) = S
    <2>1. \A j \in 1 .. Len(r) : j \in 1 .. Len(s) \/ j = Len(s) + 1
      BY <1>2, <1>3
    <2>2. \A j \in 1 .. Len(s) : j \in 1 .. Len(r)
      BY <1>2, <1>3
    <2>3. Len(s) + 1 \in 1 .. Len(r)
      BY <1>2, <1>3
    <2> QED
      BY <1>2, <1>3, <2>1, <2>2, <2>3 DEF S, Listed
  <1> QED
    BY <1>3, <1>4 DEF IsSeq, S, r

----------------------------------------------------------------------------
(* The defs of an item and those of an impl.                               *)

Kinds == {"method", "const", "impl"}

OfItem(d, i) == \/ d = Def(i, "Item")
                \/ d = Def(i, "Ctor")
                \/ \E kind \in Kinds, j \in Nat : d = TraitItem(i, kind, j)

OfImpl(d, b) == \E kind \in Kinds, j \in Nat : d = ImplItem(b, kind, j)

LEMMA RecordsApart ==
    /\ \A i, r, j, s : Def(i, r) = Def(j, s) => i = j /\ r = s
    /\ \A i, k, m, j, l, n : TraitItem(i, k, m) = TraitItem(j, l, n) => i = j /\ k = l /\ m = n
    /\ \A i, k, m, j, l, n : ImplItem(i, k, m) = ImplItem(j, l, n) => i = j /\ k = l /\ m = n
    /\ \A i, r, j, l, n : Def(i, r) # TraitItem(j, l, n)
    /\ \A i, r, j, l, n : Def(i, r) # ImplItem(j, l, n)
    /\ \A i, k, m, j, l, n : TraitItem(i, k, m) # ImplItem(j, l, n)
  <1>1. \A i, r : /\ Def(i, r).item = i /\ Def(i, r).role = r
                  /\ DOMAIN Def(i, r) = {"item", "role"}
    BY DEF Def
  <1>2. \A i, k, m : /\ TraitItem(i, k, m).trait = i /\ TraitItem(i, k, m).kind = k
                     /\ TraitItem(i, k, m).nr = m
                     /\ DOMAIN TraitItem(i, k, m) = {"trait", "kind", "nr"}
    BY DEF TraitItem
  <1>3. \A i, k, m : /\ ImplItem(i, k, m).impl = i /\ ImplItem(i, k, m).kind = k
                     /\ ImplItem(i, k, m).nr = m
                     /\ DOMAIN ImplItem(i, k, m) = {"impl", "kind", "nr"}
    BY DEF ImplItem
  <1>4. /\ {"item", "role"} # {"trait", "kind", "nr"}
        /\ {"item", "role"} # {"impl", "kind", "nr"}
        /\ {"trait", "kind", "nr"} # {"impl", "kind", "nr"}
    <2>1. /\ "item" \in {"item", "role"} /\ "item" \notin {"trait", "kind", "nr"}
          /\ "item" \notin {"impl", "kind", "nr"}
          /\ "trait" \in {"trait", "kind", "nr"} /\ "trait" \notin {"impl", "kind", "nr"}
      OBVIOUS
    <2> QED
      BY <2>1, Zenon
  <1>5. \A i, r, j, s : Def(i, r) = Def(j, s) => i = j /\ r = s
    BY <1>1
  <1>6. \A i, k, m, j, l, n : TraitItem(i, k, m) = TraitItem(j, l, n) => i = j /\ k = l /\ m = n
    BY <1>2
  <1>7. \A i, k, m, j, l, n : ImplItem(i, k, m) = ImplItem(j, l, n) => i = j /\ k = l /\ m = n
    BY <1>3
  <1>8. \A i, r, j, l, n : Def(i, r) # TraitItem(j, l, n)
    BY <1>1, <1>2, <1>4, Zenon
  <1>9. \A i, r, j, l, n : Def(i, r) # ImplItem(j, l, n)
    BY <1>1, <1>3, <1>4, Zenon
  <1>10. \A i, k, m, j, l, n : TraitItem(i, k, m) # ImplItem(j, l, n)
    BY <1>2, <1>3, <1>4, Zenon
  <1> QED
    BY <1>5, <1>6, <1>7, <1>8, <1>9, <1>10, Zenon

(* A def belongs to one item or to one impl. *)
LEMMA OneOrigin ==
    ASSUME NEW d
    PROVE  /\ \A i, j : OfItem(d, i) /\ OfItem(d, j) => i = j
           /\ \A i, b : OfItem(d, i) => ~OfImpl(d, b)
           /\ \A a, b : OfImpl(d, a) /\ OfImpl(d, b) => a = b
  <1>1. ASSUME NEW i, NEW j, OfItem(d, i), OfItem(d, j) PROVE i = j
    <2>1. d \in {Def(i, "Item"), Def(i, "Ctor")} \/ \E k, n : d = TraitItem(i, k, n)
      BY <1>1 DEF OfItem
    <2>2. d \in {Def(j, "Item"), Def(j, "Ctor")} \/ \E k, n : d = TraitItem(j, k, n)
      BY <1>1 DEF OfItem
    <2> QED
      BY <2>1, <2>2, RecordsApart
  <1>2. ASSUME NEW i, NEW b, OfItem(d, i), OfImpl(d, b) PROVE FALSE
    <2>1. d \in {Def(i, "Item"), Def(i, "Ctor")} \/ \E k, n : d = TraitItem(i, k, n)
      BY <1>2 DEF OfItem
    <2>2. \E k, n : d = ImplItem(b, k, n)
      BY <1>2 DEF OfImpl
    <2> QED
      BY <2>1, <2>2, RecordsApart
  <1>3. ASSUME NEW a, NEW b, OfImpl(d, a), OfImpl(d, b) PROVE a = b
    <2>1. PICK k, n : d = ImplItem(a, k, n)
      BY <1>3 DEF OfImpl
    <2>2. PICK l, m : d = ImplItem(b, l, m)
      BY <1>3 DEF OfImpl
    <2>3. ImplItem(a, k, n) = ImplItem(b, l, m)
      BY <2>1, <2>2
    <2> QED
      BY <2>3, RecordsApart
  <1> QED
    BY <1>1, <1>2, <1>3

(* A row of n elements. *)
LEMMA ARow ==
    ASSUME NEW n \in Nat, NEW s, s = [j \in 1 .. n |-> s[j]]
    PROVE  IsSeq(s) /\ Len(s) = n /\ Listed(s) = {s[j] : j \in 1 .. n}
  <1> DEFINE S == {s[j] : j \in 1 .. n}
  <1>1. \A j \in 1 .. n : s[j] \in S
    OBVIOUS
  <1>2. S = {s[j] : j \in 1 .. n}
    OBVIOUS
  <1> HIDE DEF S
  <1>3. s \in [1 .. n -> S]
    BY <1>1
  <1>4. s \in Seq(S) /\ Len(s) = n
    BY <1>3
  <1>5. Listed(s) = S
    BY <1>2, <1>4 DEF Listed
  <1>6. IsSeq(s)
    BY <1>4, <1>5 DEF IsSeq
  <1> QED
    BY <1>4, <1>5, <1>6 DEF S

(* The members of an item or impl are told apart by their places. *)
LEMMA InARow ==
    ASSUME NEW n \in Nat, NEW s, s = [j \in 1 .. n |-> s[j]],
           \A j, k \in 1 .. n : s[j] = s[k] => j = k
    PROVE  /\ IsSeq(s) /\ Distinct(s) /\ Len(s) = n
           /\ Listed(s) = {s[j] : j \in 1 .. n}
  BY ARow DEF Distinct

(* A list of one. *)
LEMMA Single ==
    ASSUME NEW x
    PROVE  IsSeq(<<x>>) /\ Distinct(<<x>>) /\ Listed(<<x>>) = {x}
  <1>1. <<x>> \in Seq({x}) /\ Len(<<x>>) = 1 /\ <<x>>[1] = x
    OBVIOUS
  <1>2. Listed(<<x>>) = {x}
    BY <1>1 DEF Listed
  <1> QED
    BY <1>1, <1>2 DEF IsSeq, Distinct

----------------------------------------------------------------------------
(* What is written never changes: it is one of the sources.                *)

IsWritten == \E s \in Sources : crate = s.crate /\ members = s.members /\ impls = s.impls

LEMMA WrittenType ==
    ASSUME IsWritten
    PROVE  /\ crate \in Crates
           /\ Len(impls) \in Nat
           /\ \A b \in 1 .. Len(impls) :
                 /\ impls[b].methods \in Seq(Names) /\ Len(impls[b].methods) \in Nat
                 /\ impls[b].consts \in Seq(Names) /\ Len(impls[b].consts) \in Nat
           /\ \A i \in 1 .. Len(crate) :
                 /\ members[i].methods \in Seq(Names) /\ Len(members[i].methods) \in Nat
                 /\ members[i].consts \in Seq(Names) /\ Len(members[i].consts) \in Nat
  <1>1. PICK s \in Sources : crate = s.crate /\ members = s.members /\ impls = s.impls
    BY DEF IsWritten
  <1>2. /\ crate \in Crates
        /\ members \in [1 .. Len(crate) -> [methods : Seq(Names), consts : Seq(Names)]]
        /\ impls \in Seq([mod : ModuleId \cup {PreludeModule}, owner : STRING, applied : BOOLEAN,
                           trait : STRING, methods : Seq(Names), consts : Seq(Names)])
    BY <1>1, SourcesAssumption
  <1> DEFINE M == [methods : Seq(Names), consts : Seq(Names)]
             I == [mod : ModuleId \cup {PreludeModule}, owner : STRING, applied : BOOLEAN,
                   trait : STRING, methods : Seq(Names), consts : Seq(Names)]
  <1>3. \A x \in M : x.methods \in Seq(Names) /\ x.consts \in Seq(Names)
    OBVIOUS
  <1>4. \A x \in I : x.methods \in Seq(Names) /\ x.consts \in Seq(Names)
    OBVIOUS
  <1>5. members \in [1 .. Len(crate) -> M] /\ impls \in Seq(I)
    BY <1>2
  <1> HIDE DEF M, I
  <1>6. /\ Len(impls) \in Nat
        /\ \A b \in 1 .. Len(impls) : impls[b] \in I
        /\ \A i \in 1 .. Len(crate) : members[i] \in M
    BY <1>5
  <1>7. \A x \in Seq(Names) : Len(x) \in Nat
    OBVIOUS
  <1> QED
    BY <1>2, <1>3, <1>4, <1>6, <1>7

LEMMA WrittenApplied ==
    ASSUME IsWritten, NEW b \in 1 .. Len(impls)
    PROVE  impls[b].applied \in BOOLEAN
  <1> DEFINE I == [mod : ModuleId \cup {PreludeModule}, owner : STRING, applied : BOOLEAN,
                   trait : STRING, methods : Seq(Names), consts : Seq(Names)]
  <1>1. impls \in Seq(I)
    BY SourcesAssumption DEF IsWritten
  <1>2. \A x \in I : x.applied \in BOOLEAN
    OBVIOUS
  <1> HIDE DEF I
  <1>3. impls[b] \in I
    BY <1>1
  <1> QED
    BY <1>2, <1>3

(* The steps of the query are those of the Collector, or leave its state.  *)
LEMMA CrateStepIsNext == [CrateNext]_mapVars => [Next]_vars
  BY DEF CrateNext, mapVars, Next, SkipImpl, IndexInherent, IndexTraitImpl, Indexing, BuildDefPath

LEMMA CrateInitIsInit == CrateInit => Init
  BY DEF CrateInit

LEMMA WrittenInit == CrateInit => IsWritten
  BY DEF CrateInit, IsWritten

LEMMA WrittenStep == [CrateNext]_mapVars => UNCHANGED <<crate, written>>
  <1> SUFFICES ASSUME [CrateNext]_mapVars PROVE UNCHANGED <<crate, written>>
    OBVIOUS
  <1>1. crate' = crate
    BY CrateStepIsNext, CrateStays
  <1>2. UNCHANGED written
    BY DEF CrateNext, mapVars, SkipImpl, IndexInherent, IndexTraitImpl, Indexing, BuildDefPath,
           Ordering, Resolving, Checking
  <1> QED
    BY <1>1, <1>2

----------------------------------------------------------------------------
(* The steps, as the indexes see them.                                     *)

Over == phase \in {"check", "done"}

(* A step that writes none of the maps of this module. *)
QuietStep ==
    /\ UNCHANGED <<written, indexed, order, paths>>
    /\ phase' = "collect" => phase = "collect" /\ pos' = pos
    /\ phase = "collect" /\ phase' # "collect" => pos > Len(crate)
    /\ Over => Over' /\ UNCHANGED <<crate, table>>
    /\ phase = "done" => phase' = "done"
    /\ phase' = "done" => phase = "done" \/ (phase = "check" /\ nextImpl > Len(impls))

OrderStep ==
    /\ phase = "collect" /\ phase' = "collect"
    /\ pos \in 1 .. Len(crate) /\ pos' = pos + 1
    /\ UNCHANGED crate
    /\ Ordering

LEMMA CrateStepCases ==
    ASSUME TypeInv, [CrateNext]_mapVars
    PROVE  OrderStep \/ QuietStep \/ SkipImpl \/ IndexInherent \/ IndexTraitImpl \/ BuildDefPath
  <1>1. CASE (CollectItem \/ DeclareAdt \/ CollectMod \/ CollectUse) /\ Ordering
    <2>1. \E kinds : Collecting(kinds)
      BY <1>1 DEF CollectItem, DeclareAdt, CollectMod, CollectUse
    <2>2. pos \in Nat \ {0} /\ Len(crate) \in Nat
      BY CrateItems DEF TypeInv, TypeOK
    <2> QED
      BY <1>1, <2>1, <2>2 DEF OrderStep, Collecting
  <1>2. CASE (EndCollect \/ ResolvePending \/ EndPending) /\ Resolving
    BY <1>2 DEF QuietStep, EndCollect, ResolvePending, EndPending, Resolving, Over
  <1>3. CASE (BeginUse \/ ImportLeaf \/ ImportSelf \/ ImportGlob \/ EndUse \/ EndPass) /\ Resolving
    BY <1>3 DEF QuietStep, BeginUse, ImportLeaf, ImportSelf, ImportGlob, ImportStep, Importing,
                EndUse, EndPass, Resolving, Over
  <1>4. CASE (CheckLeaf \/ EndCheckUse \/ EndCheck) /\ Checking
    BY <1>4 DEF QuietStep, CheckLeaf, EndCheckUse, EndCheck, Checking, Resolving, Over
  <1>5. CASE Terminated /\ Len(paths) = Len(order) /\ Resolving
    BY <1>5 DEF QuietStep, Terminated, Resolving, Over, vars
  <1>6. CASE UNCHANGED mapVars
    BY <1>6 DEF QuietStep, mapVars, vars, Over
  <1> QED
    BY <1>1, <1>2, <1>3, <1>4, <1>5, <1>6 DEF CrateNext

----------------------------------------------------------------------------
(* Which defs are declared: one role of an item, or the two of a struct.   *)

RolesFit ==
    \A d \in DefId : IsDeclared(d) =>
        \/ d.role = "Item" /\ crate[d.item].kind # "use"
        \/ d.role = "Ctor" /\ crate[d.item].kind = "adt"

LEMMA DeclareVisibility ==
    ASSUME NEW s \in Collected, NEW d \in DefId, NEW name, NEW ns, NEW e \in DefId, e # d
    PROVE  Declare(s, d, name, ns).visibility[e] = s.visibility[e]
  <1>1. s.visibility \in [DefId -> Scope \cup {Undeclared}]
    BY DEF Collected
  <1> QED
    BY <1>1 DEF Declare

LEMMA RolesInit == Init => RolesFit
  BY DEF Init, RolesFit, IsDeclared

LEMMA RolesStep ==
    ASSUME DeclInv, RolesFit, [Next]_vars
    PROVE  RolesFit'
  <1>1. /\ TypeInv /\ crate \in Crates /\ crate' = crate
        /\ parent \in [ModuleId -> ModuleId \cup {NoModule}]
        /\ table \in [Key -> Binding]
        /\ visibility \in [DefId -> Scope \cup {Undeclared}]
        /\ Declared \in Collected /\ Declared.visibility = visibility
    BY CrateStays, DeclaredType DEF DeclInv, TypeInv, TypeOK, Declared
  <1>2. ASSUME \A d \in DefId : IsDeclared(d)' => IsDeclared(d)
        PROVE  RolesFit'
    BY <1>1, <1>2 DEF RolesFit
  <1>3. CASE CollectItem
    <2> DEFINE d == Def(pos, "Item")
    <2>1. d \in DefId /\ d.item = pos /\ d.role = "Item" /\ crate[pos].kind # "use"
      BY <1>1, <1>3, TypeCollect DEF CollectItem, Collecting, Def
    <2>2. visibility' = Declare(Declared, d, crate[pos].name, "Item").visibility
      BY <1>3 DEF CollectItem, Become
    <2> HIDE DEF d
    <2>3. \A e \in DefId \ {d} : visibility'[e] = visibility[e]
      BY <1>1, <2>1, <2>2, DeclareVisibility
    <2> QED
      BY <1>1, <2>1, <2>3 DEF RolesFit, IsDeclared
  <1>4. CASE DeclareAdt
    <2> DEFINE d == Def(pos, "Item")
               c == Def(pos, "Ctor")
               s == Declare(Declared, d, crate[pos].name, "Item")
    <2>1. /\ d \in DefId /\ d.item = pos /\ d.role = "Item"
          /\ c \in DefId /\ c.item = pos /\ c.role = "Ctor" /\ crate[pos].kind = "adt"
      <3>1. pos \in 1 .. Len(crate) /\ crate[pos].kind = "adt"
        BY <1>1, <1>4, TypeCollect DEF DeclareAdt, Collecting
      <3> QED
        BY <1>1, <3>1, CrateItems DEF Def
    <2>2. visibility' = Declare(s, c, crate[pos].ctor, "Item").visibility
      BY <1>4 DEF DeclareAdt, Become
    <2>3. s \in Collected
      BY <1>1, <1>4, TypeCollect, DeclareType DEF NS, DeclareAdt
    <2>4. \A e \in DefId \ {d} : s.visibility[e] = visibility[e]
      BY <1>1, <2>1, DeclareVisibility
    <2> HIDE DEF d, c, s
    <2>5. \A e \in DefId \ {c} : visibility'[e] = s.visibility[e]
      BY <2>1, <2>2, <2>3, DeclareVisibility
    <2> QED
      BY <1>1, <2>1, <2>4, <2>5 DEF RolesFit, IsDeclared
  <1>5. CASE CollectMod
    <2> DEFINE d == Def(pos, "Item")
    <2>1. d \in DefId /\ d.item = pos /\ d.role = "Item" /\ crate[pos].kind # "use"
      BY <1>1, <1>5, TypeCollect DEF CollectMod, Collecting, Def
    <2>2. visibility' = Declare(Declared, d, crate[pos].name, "Module").visibility
      BY <1>5 DEF CollectMod, Become, Declare
    <2> HIDE DEF d
    <2>3. \A e \in DefId \ {d} : visibility'[e] = visibility[e]
      BY <1>1, <2>1, <2>2, DeclareVisibility
    <2> QED
      BY <1>1, <2>1, <2>3 DEF RolesFit, IsDeclared
  <1>6. CASE ResolvePending
    <2> DEFINE key == pending[pos].key
    <2>1. key \in Key
      <3>1. pending \in Seq(PendingEntry) /\ pos \in Nat \ {0} /\ pos <= Len(pending)
        BY <1>1, <1>6 DEF ResolvePending, TypeInv, TypeOK
      <3>2. pending[pos] \in PendingEntry
        BY <3>1
      <3> QED
        BY <3>2 DEF PendingEntry
    <2> HIDE DEF key
    <2>2. \/ visibility' = visibility
          \/ /\ table[key].source # "Absent"
             /\ \E v : visibility' = [visibility EXCEPT ![table[key].def] = v]
      BY <1>6 DEF ResolvePending, key
    <2>3. table[key].source # "Absent" =>
             table[key].def \in DefId /\ IsDeclared(table[key].def)
      <3>1. table[key].source \in {"Absent", "Def"}
        BY <1>6, <2>1 DEF DeclInv, NoImports, ResolvePending
      <3> QED
        BY <2>1, <3>1 DEF DeclInv, DeclsOK, TableOK, Declared, IsDeclared
    <2>4. \A d \in DefId : IsDeclared(d)' => IsDeclared(d)
      BY <1>1, <2>2, <2>3 DEF IsDeclared
    <2> QED
      BY <1>2, <2>4
  <1>7. CASE CollectUse \/ EndCollect \/ EndPending \/ BeginUse \/ ImportLeaf \/ ImportSelf
               \/ ImportGlob \/ EndUse \/ EndPass \/ CheckLeaf \/ EndCheckUse \/ EndCheck
               \/ Terminated \/ UNCHANGED vars
    <2>1. visibility' = visibility
      BY <1>7 DEF CollectUse, EndCollect, EndPending, BeginUse, ImportLeaf, ImportSelf, ImportGlob,
                  ImportStep, Importing, EndUse, EndPass, CheckLeaf, EndCheckUse, EndCheck,
                  Terminated, vars
    <2> QED
      BY <1>2, <2>1 DEF IsDeclared
  <1> QED
    BY <1>3, <1>4, <1>5, <1>6, <1>7 DEF Next

----------------------------------------------------------------------------
(* The order of the defs.                                                  *)

(* What the declaration of an item pushes. *)
LEMMA DefsOfItem ==
    ASSUME IsWritten, NEW i \in 1 .. Len(crate)
    PROVE  /\ IsSeq(DefsOf(i)) /\ Distinct(DefsOf(i))
           /\ \A d \in Listed(DefsOf(i)) : OfItem(d, i)
           /\ crate[i].kind # "use" => Def(i, "Item") \in Listed(DefsOf(i))
           /\ crate[i].kind = "adt" => Def(i, "Ctor") \in Listed(DefsOf(i))
  <1> DEFINE own == Def(i, "Item")
             its(names, kind) == [j \in 1 .. Len(names) |-> TraitItem(i, kind, j)]
             ms == its(members[i].methods, "method")
             cs == its(members[i].consts, "const")
  <1>1. crate[i].kind \in ItemKind
    BY WrittenType, CrateItems DEF Item
  <1>2. IsSeq(<<own>>) /\ Distinct(<<own>>) /\ Listed(<<own>>) = {own}
    BY Single
  <1>3. CASE crate[i].kind \in {"fn", "mod"}
    <2>1. DefsOf(i) = <<own>>
      BY <1>3 DEF DefsOf
    <2> QED
      BY <1>2, <1>3, <2>1 DEF OfItem
  <1>4. CASE crate[i].kind = "adt"
    <2> DEFINE c == Def(i, "Ctor")
    <2>1. DefsOf(i) = <<own, c>>
      BY <1>4 DEF DefsOf
    <2>2. own # c
      BY RecordsApart
    <2>3. /\ <<own, c>> \in Seq({own, c}) /\ Len(<<own, c>>) = 2
          /\ <<own, c>>[1] = own /\ <<own, c>>[2] = c
      OBVIOUS
    <2> HIDE DEF own, c
    <2>4. 1 .. 2 = {1, 2}
      OBVIOUS
    <2>5. Listed(<<own, c>>) = {own, c}
      BY <2>3, <2>4 DEF Listed
    <2>6. Distinct(<<own, c>>)
      BY <2>2, <2>3, <2>4 DEF Distinct
    <2>7. IsSeq(<<own, c>>)
      BY <2>3, <2>5 DEF IsSeq
    <2> QED
      BY <2>1, <2>5, <2>6, <2>7 DEF OfItem, own, c
  <1>5. CASE crate[i].kind = "trait"
    <2>1. ASSUME NEW names \in Seq(Names), NEW kind \in {"method", "const"}
          PROVE  /\ IsSeq(its(names, kind)) /\ Distinct(its(names, kind))
                 /\ \A d \in Listed(its(names, kind)) : \E j \in Nat : d = TraitItem(i, kind, j)
      <3> DEFINE s == its(names, kind)
      <3>1. Len(names) \in Nat
        OBVIOUS
      <3>2. \A j \in 1 .. Len(names) : s[j] = TraitItem(i, kind, j)
        OBVIOUS
      <3>3. s = [j \in 1 .. Len(names) |-> s[j]]
        OBVIOUS
      <3> HIDE DEF s
      <3>4. \A j, k \in 1 .. Len(names) : s[j] = s[k] => j = k
        BY <3>2, RecordsApart
      <3>5. /\ IsSeq(s) /\ Distinct(s)
            /\ Listed(s) = {s[j] : j \in 1 .. Len(names)}
        BY <3>1, <3>3, <3>4, InARow
      <3> QED
        BY <3>1, <3>2, <3>5 DEF s
    <2>2. members[i].methods \in Seq(Names) /\ members[i].consts \in Seq(Names)
      BY WrittenType
    <2>3. /\ IsSeq(ms) /\ Distinct(ms)
          /\ \A d \in Listed(ms) : \E j \in Nat : d = TraitItem(i, "method", j)
      BY <2>1, <2>2
    <2>4. /\ IsSeq(cs) /\ Distinct(cs)
          /\ \A d \in Listed(cs) : \E j \in Nat : d = TraitItem(i, "const", j)
      BY <2>1, <2>2
    <2>5. DefsOf(i) = (<<own>> \o ms) \o cs
      BY <1>5 DEF DefsOf
    <2> HIDE DEF its, ms, cs
    <2>6. Listed(<<own>>) \cap Listed(ms) = {}
      BY <1>2, <2>3, RecordsApart
    <2>7. /\ IsSeq(<<own>> \o ms) /\ Distinct(<<own>> \o ms)
          /\ Listed(<<own>> \o ms) = {own} \cup Listed(ms)
      BY <1>2, <2>3, <2>6, ListedJoin
    <2>8. Listed(<<own>> \o ms) \cap Listed(cs) = {}
      <3>1. ASSUME NEW d, d \in {own} \cup Listed(ms), d \in Listed(cs) PROVE FALSE
        <4>1. PICK j : d = TraitItem(i, "const", j)
          BY <2>4, <3>1
        <4>2. CASE d = own
          BY <4>1, <4>2, RecordsApart
        <4>3. CASE d \in Listed(ms)
          <5>1. PICK k : d = TraitItem(i, "method", k)
            BY <2>3, <4>3
          <5>2. TraitItem(i, "method", k) = TraitItem(i, "const", j)
            BY <4>1, <5>1
          <5> QED
            BY <5>2, RecordsApart
        <4> QED
          BY <3>1, <4>2, <4>3
      <3> QED
        BY <2>7, <3>1
    <2>9. /\ IsSeq(DefsOf(i)) /\ Distinct(DefsOf(i))
          /\ Listed(DefsOf(i)) = ({own} \cup Listed(ms)) \cup Listed(cs)
      BY <2>4, <2>5, <2>7, <2>8, ListedJoin
    <2> QED
      BY <1>5, <2>3, <2>4, <2>9 DEF OfItem, Kinds
  <1>6. CASE crate[i].kind = "use"
    <2>1. DefsOf(i) = <<>>
      BY <1>6 DEF DefsOf
    <2>2. <<>> \in Seq({}) /\ Len(<<>>) = 0
      OBVIOUS
    <2>3. Listed(<<>>) = {} /\ IsSeq(<<>>) /\ Distinct(<<>>)
      BY <2>2 DEF Listed, IsSeq, Distinct
    <2> QED
      BY <1>6, <2>1, <2>3
  <1> QED
    BY <1>1, <1>3, <1>4, <1>5, <1>6 DEF ItemKind

(* What an impl pushes, inherent or of a trait. *)
Pushes(b) == {MethodsOf(b) \o <<ImplDef(b)>>, ConstsOf(b) \o MethodsOf(b) \o <<ImplDef(b)>>}

LEMMA DefsOfImpl ==
    ASSUME IsWritten, NEW b \in 1 .. Len(impls), NEW s \in Pushes(b)
    PROVE  /\ IsSeq(s) /\ Distinct(s)
           /\ \A d \in Listed(s) : OfImpl(d, b)
           /\ \A j \in 1 .. Len(impls[b].methods) : ImplItem(b, "method", j) \in Listed(s)
  <1> DEFINE ms == MethodsOf(b)
             cs == ConstsOf(b)
             own == ImplDef(b)
  <1>1. ASSUME NEW n \in Nat, NEW kind \in Kinds,
               NEW r, r = [j \in 1 .. n |-> ImplItem(b, kind, j)]
        PROVE  IsSeq(r) /\ Distinct(r) /\ Listed(r) = {ImplItem(b, kind, j) : j \in 1 .. n}
    <2>1. \A j \in 1 .. n : r[j] = ImplItem(b, kind, j)
      BY <1>1
    <2>2. r = [j \in 1 .. n |-> r[j]]
      BY <1>1
    <2>3. \A j, k \in 1 .. n : r[j] = r[k] => j = k
      BY <2>1, RecordsApart
    <2>4. IsSeq(r) /\ Distinct(r) /\ Listed(r) = {r[j] : j \in 1 .. n}
      BY <2>2, <2>3, InARow
    <2> QED
      BY <2>1, <2>4
  <1>2. Len(impls[b].methods) \in Nat /\ Len(impls[b].consts) \in Nat
    BY WrittenType
  <1>3. /\ IsSeq(ms) /\ Distinct(ms)
        /\ Listed(ms) = {ImplItem(b, "method", j) : j \in 1 .. Len(impls[b].methods)}
    BY <1>1, <1>2 DEF MethodsOf, Kinds
  <1>4. /\ IsSeq(cs) /\ Distinct(cs)
        /\ Listed(cs) = {ImplItem(b, "const", j) : j \in 1 .. Len(impls[b].consts)}
    BY <1>1, <1>2 DEF ConstsOf, Kinds
  <1>5. IsSeq(<<own>>) /\ Distinct(<<own>>) /\ Listed(<<own>>) = {own}
    BY Single
  <1>6. own = ImplItem(b, "impl", 0)
    BY DEF ImplDef
  <1> HIDE DEF ms, cs, own
  <1>7. Listed(ms) \cap Listed(<<own>>) = {} /\ Listed(cs) \cap Listed(ms) = {}
    BY <1>3, <1>4, <1>5, <1>6, RecordsApart
  <1>8. /\ IsSeq(ms \o <<own>>) /\ Distinct(ms \o <<own>>)
        /\ Listed(ms \o <<own>>) = Listed(ms) \cup {own}
    BY <1>3, <1>5, <1>7, ListedJoin
  <1>9. CASE s = ms \o <<own>>
    BY <1>2, <1>3, <1>6, <1>8, <1>9 DEF OfImpl, Kinds
  <1>10. CASE s = cs \o ms \o <<own>>
    <2>1. IsSeq(cs \o ms) /\ Distinct(cs \o ms) /\ Listed(cs \o ms) = Listed(cs) \cup Listed(ms)
      BY <1>3, <1>4, <1>7, ListedJoin
    <2>2. Listed(cs \o ms) \cap Listed(<<own>>) = {}
      BY <1>3, <1>4, <1>5, <1>6, <2>1, RecordsApart
    <2>3. IsSeq(s) /\ Distinct(s) /\ Listed(s) = (Listed(cs) \cup Listed(ms)) \cup {own}
      BY <1>5, <1>10, <2>1, <2>2, ListedJoin
    <2> QED
      BY <1>2, <1>3, <1>4, <1>6, <2>3 DEF OfImpl, Kinds
  <1> QED
    BY <1>9, <1>10 DEF Pushes, ms, cs, own

Past(i) == phase = "collect" => i < pos

(* Every def in the order is of an item collected or of an impl resolved,  *)
(* no def is there twice, and all defs of the items collected are.         *)
OrderInv ==
    /\ IsSeq(order) /\ Distinct(order)
    /\ \A d \in Listed(order) :
         \/ \E i \in 1 .. Len(crate) : OfItem(d, i) /\ Past(i)
         \/ \E b \in 1 .. (nextImpl - 1) : OfImpl(d, b)
    /\ \A i \in 1 .. Len(crate) : Past(i) => Listed(DefsOf(i)) \subseteq Listed(order)

LEMMA OrderInit == CrateInit => OrderInv
  <1> SUFFICES ASSUME CrateInit PROVE OrderInv
    OBVIOUS
  <1>1. order = <<>> /\ pos = 1 /\ phase = "collect"
    BY DEF CrateInit, Init
  <1>2. <<>> \in Seq({}) /\ Len(<<>>) = 0
    OBVIOUS
  <1>3. Listed(<<>>) = {} /\ IsSeq(<<>>) /\ Distinct(<<>>)
    BY <1>2 DEF Listed, IsSeq, Distinct
  <1>4. \A i \in 1 .. Len(crate) : ~Past(i)
    BY <1>1 DEF Past
  <1> QED
    BY <1>1, <1>3, <1>4 DEF OrderInv

(* An impl is pushed after those before it. *)
LEMMA PushKeepsOrder ==
    ASSUME IsWritten, OrderInv, Indexing, nextImpl \in Nat \ {0},
           NEW s \in Pushes(nextImpl), order' = order \o s
    PROVE  OrderInv' /\ Listed(order') = Listed(order) \cup Listed(s)
  <1>1. nextImpl \in 1 .. Len(impls) /\ nextImpl' = nextImpl + 1 /\ UNCHANGED <<vars, written>>
    BY WrittenType DEF Indexing
  <1>2. /\ IsSeq(s) /\ Distinct(s) /\ \A d \in Listed(s) : OfImpl(d, nextImpl)
    BY <1>1, DefsOfImpl
  <1>3. Listed(order) \cap Listed(s) = {}
    <2> SUFFICES ASSUME NEW d \in Listed(order), d \in Listed(s) PROVE FALSE
      OBVIOUS
    <2>1. OfImpl(d, nextImpl)
      BY <1>2
    <2>2. ASSUME NEW i, OfItem(d, i) PROVE FALSE
      BY <2>1, <2>2, OneOrigin
    <2>3. ASSUME NEW b \in 1 .. (nextImpl - 1), OfImpl(d, b) PROVE FALSE
      <3>1. b = nextImpl
        BY <2>1, <2>3, OneOrigin
      <3> QED
        BY <3>1
    <2> QED
      BY <2>2, <2>3 DEF OrderInv
  <1>4. /\ IsSeq(order') /\ Distinct(order') /\ Listed(order') = Listed(order) \cup Listed(s)
    BY <1>2, <1>3, ListedJoin DEF OrderInv
  <1>5. nextImpl \in 1 .. (nextImpl' - 1) /\ \A b \in 1 .. (nextImpl - 1) : b \in 1 .. (nextImpl' - 1)
    BY <1>1
  <1>6. /\ crate' = crate /\ \A i : Past(i)' <=> Past(i)
        /\ \A i : DefsOf(i)' = DefsOf(i)
    BY <1>1 DEF vars, written, Past, DefsOf
  <1>7. \A d \in Listed(order') :
            \/ \E i \in 1 .. Len(crate) : OfItem(d, i) /\ Past(i)
            \/ \E b \in 1 .. (nextImpl' - 1) : OfImpl(d, b)
    BY <1>2, <1>4, <1>5 DEF OrderInv
  <1>8. \A i \in 1 .. Len(crate) : Past(i) => Listed(DefsOf(i)) \subseteq Listed(order')
    BY <1>4 DEF OrderInv
  <1> QED
    BY <1>4, <1>6, <1>7, <1>8 DEF OrderInv

LEMMA OrderStepOK ==
    ASSUME TypeInv, IsWritten, OrderInv, nextImpl \in Nat \ {0}, [CrateNext]_mapVars
    PROVE  OrderInv'
  <1>1. UNCHANGED <<crate, written>>
    BY WrittenStep
  <1>2. \A i : DefsOf(i)' = DefsOf(i)
    BY <1>1 DEF written, DefsOf
  <1>3. CASE OrderStep
    <2> DEFINE s == DefsOf(pos)
    <2>1. /\ phase = "collect" /\ phase' = "collect" /\ pos \in 1 .. Len(crate)
          /\ pos' = pos + 1 /\ order' = order \o s /\ nextImpl' = nextImpl
      BY <1>3 DEF OrderStep, Ordering, indexed
    <2>2. IsSeq(s) /\ Distinct(s) /\ \A d \in Listed(s) : OfItem(d, pos)
      BY <2>1, DefsOfItem
    <2> HIDE DEF s
    <2>3. Listed(order) \cap Listed(s) = {}
      <3> SUFFICES ASSUME NEW d \in Listed(order), d \in Listed(s) PROVE FALSE
        OBVIOUS
      <3>1. OfItem(d, pos)
        BY <2>2
      <3>2. ASSUME NEW i \in 1 .. Len(crate), OfItem(d, i), Past(i) PROVE FALSE
        <4>1. i = pos
          BY <3>1, <3>2, OneOrigin
        <4> QED
          BY <2>1, <3>2, <4>1 DEF Past
      <3>3. ASSUME NEW b, OfImpl(d, b) PROVE FALSE
        BY <3>1, <3>3, OneOrigin
      <3> QED
        BY <3>2, <3>3 DEF OrderInv
    <2>4. /\ IsSeq(order') /\ Distinct(order') /\ Listed(order') = Listed(order) \cup Listed(s)
      BY <2>1, <2>2, <2>3, ListedJoin DEF OrderInv
    <2>5. \A i \in 1 .. Len(crate) : Past(i)' <=> (Past(i) \/ i = pos)
      BY <2>1 DEF Past
    <2>6. \A d \in Listed(order') :
              \/ \E i \in 1 .. Len(crate) : OfItem(d, i) /\ Past(i)'
              \/ \E b \in 1 .. (nextImpl - 1) : OfImpl(d, b)
      BY <2>1, <2>2, <2>4, <2>5 DEF OrderInv
    <2>7. \A i \in 1 .. Len(crate) : Past(i)' => Listed(DefsOf(i)) \subseteq Listed(order')
      BY <2>4, <2>5 DEF OrderInv, s
    <2> QED
      BY <1>1, <1>2, <2>1, <2>4, <2>6, <2>7 DEF OrderInv
  <1>4. CASE QuietStep
    <2>1. UNCHANGED <<nextImpl, order>>
      BY <1>4 DEF QuietStep, indexed
    <2>2. \A i \in 1 .. Len(crate) : Past(i)' <=> Past(i)
      <3>1. pos \in Nat /\ Len(crate) \in Nat
        BY CrateItems DEF TypeInv, TypeOK
      <3> QED
        BY <1>4, <3>1 DEF QuietStep, Past
    <2> QED
      BY <1>1, <1>2, <2>1, <2>2 DEF OrderInv
  <1>5. CASE SkipImpl
    <2>1. order' = order /\ nextImpl' = nextImpl + 1 /\ UNCHANGED vars
      BY <1>5 DEF SkipImpl, Indexing
    <2>2. \A b \in 1 .. (nextImpl - 1) : b \in 1 .. (nextImpl' - 1)
      BY <2>1
    <2>3. \A i : Past(i)' <=> Past(i)
      BY <2>1 DEF vars, Past
    <2> QED
      BY <1>1, <1>2, <2>1, <2>2, <2>3 DEF OrderInv
  <1>6. CASE IndexInherent
    BY <1>6, PushKeepsOrder DEF IndexInherent, Pushes
  <1>7. CASE IndexTraitImpl
    BY <1>7, PushKeepsOrder DEF IndexTraitImpl, Pushes
  <1>8. CASE BuildDefPath
    <2>1. UNCHANGED <<vars, nextImpl, order>>
      BY <1>8 DEF BuildDefPath, indexed
    <2>2. \A i : Past(i)' <=> Past(i)
      BY <2>1 DEF vars, Past
    <2> QED
      BY <1>1, <1>2, <2>1, <2>2 DEF OrderInv
  <1> QED
    BY <1>3, <1>4, <1>5, <1>6, <1>7, <1>8, CrateStepCases

----------------------------------------------------------------------------
(* The paths.                                                              *)

PathsInv ==
    /\ IsSeq(paths)
    /\ phase # "done" => paths = <<>>
    /\ Len(paths) <= Len(order)
    /\ \A q \in 1 .. Len(paths) :
         /\ paths[q].def = order[q]
         /\ paths[q].nr = Cardinality({r \in 1 .. (q - 1) : paths[r].names = paths[q].names})

LEMMA EmptyIsSeq == IsSeq(<<>>) /\ Len(<<>>) = 0 /\ Listed(<<>>) = {}
  <1>1. <<>> \in Seq({}) /\ Len(<<>>) = 0
    OBVIOUS
  <1>2. Listed(<<>>) = {}
    BY <1>1 DEF Listed
  <1> QED
    BY <1>1, <1>2 DEF IsSeq

LEMMA LenIsNat == ASSUME NEW s, IsSeq(s) PROVE Len(s) \in Nat
  BY DEF IsSeq

LEMMA PathsInit == CrateInit => PathsInv
  BY EmptyIsSeq DEF CrateInit, Init, PathsInv

LEMMA PathsStep ==
    ASSUME TypeInv, OrderInv, OrderInv', PathsInv, [CrateNext]_mapVars
    PROVE  PathsInv'
  <1>1. Len(order) \in Nat /\ Len(order') \in Nat /\ Len(paths) \in Nat
    BY LenIsNat DEF OrderInv, PathsInv
  <1>2. CASE phase # "done" /\ paths' = paths
    BY <1>1, <1>2, EmptyIsSeq DEF PathsInv
  <1>3. CASE QuietStep /\ phase = "done"
    BY <1>3 DEF QuietStep, PathsInv
  <1>4. CASE BuildDefPath
    <2> DEFINE d == order[Len(paths) + 1]
               x == DefPath(d, PathOf(d))
               n == Len(paths) + 1
    <2>1. paths' = Append(paths, x) /\ n <= Len(order) /\ order' = order /\ phase' = "done"
      BY <1>1, <1>4 DEF BuildDefPath, vars
    <2>2. /\ x.def = order[n]
          /\ x.nr = Cardinality({r \in 1 .. Len(paths) : paths[r].names = x.names})
      BY DEF DefPath, Earlier
    <2> HIDE DEF x, d
    <2>3. /\ IsSeq(paths') /\ Len(paths') = n /\ paths'[n] = x
          /\ \A j \in 1 .. Len(paths) : paths'[j] = paths[j]
      BY <2>1, ListedAppend DEF PathsInv
    <2>4. ASSUME NEW q \in 1 .. n
          PROVE  /\ paths'[q].def = order[q]
                 /\ paths'[q].nr =
                       Cardinality({r \in 1 .. (q - 1) : paths'[r].names = paths'[q].names})
      <3>1. \A r \in 1 .. (q - 1) : paths'[r] = paths[r]
        BY <1>1, <2>3
      <3>2. CASE q = n
        <4>1. q - 1 = Len(paths)
          BY <1>1, <3>2
        <4>2. {r \in 1 .. (q - 1) : paths'[r].names = paths'[q].names}
                = {r \in 1 .. Len(paths) : paths[r].names = x.names}
          BY <2>3, <3>1, <3>2, <4>1
        <4> QED
          BY <2>2, <2>3, <3>2, <4>2
      <3>3. CASE q # n
        <4>1. q \in 1 .. Len(paths)
          BY <1>1, <3>3
        <4>2. {r \in 1 .. (q - 1) : paths'[r].names = paths'[q].names}
                = {r \in 1 .. (q - 1) : paths[r].names = paths[q].names}
          BY <2>3, <3>1, <4>1
        <4> QED
          BY <2>3, <4>1, <4>2 DEF PathsInv
      <3> QED
        BY <3>2, <3>3
    <2> QED
      BY <2>1, <2>3, <2>4 DEF PathsInv
  <1>5. CASE OrderStep
    BY <1>2, <1>5 DEF OrderStep, Ordering
  <1>6. CASE SkipImpl \/ IndexInherent \/ IndexTraitImpl
    BY <1>2, <1>6 DEF SkipImpl, IndexInherent, IndexTraitImpl, Indexing
  <1>7. CASE QuietStep /\ phase # "done"
    BY <1>2, <1>7 DEF QuietStep
  <1> QED
    BY <1>3, <1>4, <1>5, <1>6, <1>7, CrateStepCases

(* Of two paths with the same names the later one has the larger number.   *)
LEMMA NumbersDiffer ==
    ASSUME PathsInv, NEW p \in 1 .. Len(paths), NEW q \in 1 .. Len(paths), p < q,
           paths[p].names = paths[q].names
    PROVE  paths[p].nr # paths[q].nr
  <1> DEFINE A == {r \in 1 .. (p - 1) : paths[r].names = paths[p].names}
             B == {r \in 1 .. (q - 1) : paths[r].names = paths[q].names}
  <1>1. paths[p].nr = Cardinality(A) /\ paths[q].nr = Cardinality(B)
    BY DEF PathsInv
  <1>2. A \subseteq B /\ p \in B /\ p \notin A
    OBVIOUS
  <1>3. IsFiniteSet(B)
    <2>1. IsFiniteSet(1 .. (q - 1))
      BY FS_Interval
    <2> QED
      BY <2>1, FS_Subset
  <1> HIDE DEF A, B
  <1>4. Cardinality(A) # Cardinality(B)
    BY <1>2, <1>3, FS_Subset
  <1> QED
    BY <1>1, <1>4

----------------------------------------------------------------------------
(* The index.  Judging an impl reads what is written and the tables, which *)
(* do not change any more.                                                 *)

Keys(b) == {OwnerOf(b)} \X Listed(impls[b].methods)

DispatchEntry(b, j) == [owner |-> OwnerOf(b), name |-> impls[b].methods[j], trait |-> TraitOf(b),
                        method |-> ImplItem(b, "method", j)]

EntriesOf(b) == {DispatchEntry(b, j) : j \in 1 .. Len(impls[b].methods)}

(* An earlier impl of b's trait for its type, both without arguments. *)
Rivals(b) == \E c \in TraitImpls : /\ c < b
                                   /\ Entry(c) = [Entry(b) EXCEPT !.impl = c]
                                   /\ ~impls[b].applied

Unresolved == {"UnresolvedImplOwner", "UnresolvedTrait"}

LEMMA SameJudgement ==
    ASSUME UNCHANGED <<crate, table, members, impls>>, NEW b
    PROVE  /\ OwnerOf(b)' = OwnerOf(b) /\ TraitOf(b)' = TraitOf(b)
           /\ Keys(b)' = Keys(b) /\ EntriesOf(b)' = EntriesOf(b)
           /\ Entry(b)' = Entry(b) /\ ConformanceDiags(b)' = ConformanceDiags(b)
           /\ \A n : LastMethod(b, n)' = LastMethod(b, n)
           /\ Accepted(b)' = Accepted(b) /\ ForTrait(b)' = ForTrait(b)
  <1>1. ASSUME NEW c PROVE OwnerOf(c)' = OwnerOf(c) /\ TraitOf(c)' = TraitOf(c)
    BY DEF OwnerOf, TraitOf, InScope
  <1>2. ASSUME NEW d PROVE KindOf(d)' = KindOf(d) /\ DeclaredBy(d)' = DeclaredBy(d)
    BY DEF KindOf, DeclaredBy, MembersOf
  <1>3. Keys(b)' = Keys(b) /\ EntriesOf(b)' = EntriesOf(b) /\ Entry(b)' = Entry(b)
    BY <1>1 DEF Keys, EntriesOf, DispatchEntry, Entry
  <1>4. KindOf(OwnerOf(b))' = KindOf(OwnerOf(b)) /\ KindOf(TraitOf(b))' = KindOf(TraitOf(b))
    <2>1. PICK o, t : o = OwnerOf(b) /\ t = TraitOf(b)
      OBVIOUS
    <2>2. KindOf(OwnerOf(b))' = KindOf(o)' /\ KindOf(TraitOf(b))' = KindOf(t)'
      <3>1. OwnerOf(b)' = o /\ TraitOf(b)' = t
        BY <1>1, <2>1
      <3> QED
        BY <3>1 DEF KindOf
    <2> QED
      BY <1>2, <2>1, <2>2
  <1>5. Accepted(b)' = Accepted(b) /\ ForTrait(b)' = ForTrait(b)
    BY <1>4 DEF Accepted, HasOwner, HasTrait, ForTrait
  <1>6. DeclaredBy(TraitOf(b))' = DeclaredBy(TraitOf(b)) /\ GivenBy(b)' = GivenBy(b)
    BY <1>1 DEF DeclaredBy, MembersOf, GivenBy
  <1>7. ConformanceDiags(b)' = ConformanceDiags(b)
    BY <1>6 DEF ConformanceDiags
  <1>8. \A n : LastMethod(b, n)' = LastMethod(b, n)
    BY DEF LastMethod
  <1> QED
    BY <1>1, <1>3, <1>5, <1>7, <1>8

LEMMA SameImpls ==
    ASSUME UNCHANGED <<crate, table, members, impls>>
    PROVE  /\ Inherents' = Inherents /\ TraitImpls' = TraitImpls
           /\ \A b : Rivals(b)' <=> Rivals(b)
  <1>1. \A b : Accepted(b)' = Accepted(b) /\ ForTrait(b)' = ForTrait(b)
    BY SameJudgement
  <1>2. Inherents' = Inherents /\ TraitImpls' = TraitImpls
    BY <1>1 DEF Inherents, TraitImpls
  <1>3. \A b : Entry(b)' = Entry(b)
    BY SameJudgement
  <1>4. \A b : Rivals(b)' <=> Rivals(b)
    BY <1>2, <1>3 DEF Rivals
  <1> QED
    BY <1>2, <1>4

(* The impls resolved so far. *)
Resolved       == 1 .. (nextImpl - 1)
SoFarInherents == Resolved \cap Inherents
SoFarTraits    == Resolved \cap TraitImpls

(* Each impl is indexed and judged as it should be, as far as they are.    *)
InherentOK ==
    /\ \A k \in DOMAIN inherent :
         \E b \in SoFarInherents :
            /\ k \in Keys(b) /\ inherent[k] = LastMethod(b, k[2])
            /\ \A c \in SoFarInherents : k \in Keys(c) => c <= b
    /\ \A b \in SoFarInherents : Keys(b) \subseteq DOMAIN inherent

DispatchOK ==
    /\ IsSeq(dispatch) /\ IsSeq(traitImpls)
    /\ \A e \in Listed(dispatch) : \E b \in SoFarTraits : e \in EntriesOf(b)
    /\ \A b \in SoFarTraits : EntriesOf(b) \subseteq Listed(dispatch)
    /\ \A e \in Listed(traitImpls) : \E b \in SoFarTraits : e = Entry(b)
    /\ \A b \in SoFarTraits : Entry(b) \in Listed(traitImpls)

JudgedOK ==
    /\ \A d \in implDiags : d.impl \in Resolved
    /\ \A b \in Resolved : Accepted(b) <=> ~Refused(b, Unresolved)
    /\ \A b \in SoFarTraits : /\ ConformanceDiags(b) \subseteq implDiags
                              /\ Refused(b, {"OverlappingImpls"}) <=> Rivals(b)

IndexInv ==
    /\ nextImpl \in 1 .. (Len(impls) + 1)
    /\ ~Over => nextImpl = 1
    /\ InherentOK
    /\ DispatchOK
    /\ JudgedOK

LEMMA IndexInit == CrateInit /\ IsWritten => IndexInv
  <1> SUFFICES ASSUME CrateInit, IsWritten PROVE IndexInv
    OBVIOUS
  <1>1. /\ nextImpl = 1 /\ inherent = [k \in {} |-> NoDef] /\ dispatch = <<>>
        /\ traitImpls = <<>> /\ implDiags = {}
    BY DEF CrateInit
  <1>2. Resolved = {} /\ DOMAIN inherent = {}
    BY <1>1 DEF Resolved
  <1>3. InherentOK
    BY <1>2 DEF InherentOK, SoFarInherents
  <1>4. DispatchOK
    BY <1>1, <1>2, EmptyIsSeq DEF DispatchOK, SoFarTraits
  <1>5. JudgedOK
    BY <1>1, <1>2 DEF JudgedOK, SoFarTraits
  <1>6. nextImpl \in 1 .. (Len(impls) + 1)
    BY <1>1, WrittenType
  <1> QED
    BY <1>1, <1>3, <1>4, <1>5, <1>6 DEF IndexInv

(* A step that leaves the index and what it is judged by, or that happens  *)
(* before there is one.                                                    *)
LEMMA IndexFrame ==
    ASSUME IndexInv, UNCHANGED <<written, indexed>>,
           nextImpl = 1 \/ UNCHANGED <<crate, table>>
    PROVE  InherentOK' /\ DispatchOK' /\ JudgedOK'
  <1>1. /\ Resolved' = Resolved
        /\ UNCHANGED <<members, impls, nextImpl, inherent, dispatch, traitImpls, implDiags>>
    BY DEF written, indexed, Resolved
  <1>2. CASE nextImpl = 1
    <2>1. Resolved = {}
      BY <1>2 DEF Resolved
    <2> QED
      BY <1>1, <2>1 DEF IndexInv, InherentOK, DispatchOK, JudgedOK, SoFarInherents, SoFarTraits
  <1>3. CASE UNCHANGED <<crate, table>>
    <2>1. SoFarInherents' = SoFarInherents /\ SoFarTraits' = SoFarTraits
      BY <1>1, <1>3, SameImpls DEF SoFarInherents, SoFarTraits
    <2>2. \A b : /\ Keys(b)' = Keys(b) /\ EntriesOf(b)' = EntriesOf(b)
                 /\ Entry(b)' = Entry(b) /\ ConformanceDiags(b)' = ConformanceDiags(b)
                 /\ \A n : LastMethod(b, n)' = LastMethod(b, n)
                 /\ Accepted(b)' = Accepted(b)
      BY <1>1, <1>3, SameJudgement
    <2>3. \A b : Rivals(b)' <=> Rivals(b)
      BY <1>1, <1>3, SameImpls
    <2>4. InherentOK'
      BY <1>1, <2>1, <2>2 DEF IndexInv, InherentOK
    <2>5. DispatchOK'
      BY <1>1, <2>1, <2>2 DEF IndexInv, DispatchOK
    <2>6. JudgedOK'
      <3>1. \A b, K : Refused(b, K)' <=> Refused(b, K)
        BY <1>1 DEF Refused
      <3> QED
        BY <1>1, <2>1, <2>2, <2>3, <3>1 DEF IndexInv, JudgedOK
    <2> QED
      BY <2>4, <2>5, <2>6
  <1> QED
    BY <1>2, <1>3

(* Impl b is the next one, and stays what it is while it is resolved. *)
LEMMA NextResolved ==
    ASSUME IsWritten, IndexInv, Indexing, NEW b, b = nextImpl
    PROVE  /\ b \in 1 .. Len(impls) /\ nextImpl' \in 1 .. (Len(impls') + 1) /\ Over'
           /\ b \notin Resolved /\ Resolved' = Resolved \cup {b} /\ \A c \in Resolved : c < b
           /\ UNCHANGED <<crate, table, members, impls>>
           /\ SoFarInherents' = IF b \in Inherents THEN SoFarInherents \cup {b} ELSE SoFarInherents
           /\ SoFarTraits' = IF b \in TraitImpls THEN SoFarTraits \cup {b} ELSE SoFarTraits
  <1>1. /\ b \in 1 .. Len(impls) /\ nextImpl' = b + 1
        /\ UNCHANGED <<crate, table, members, impls, phase>>
    BY WrittenType DEF IndexInv, Indexing, vars, written
  <1>2. Len(impls) \in Nat
    BY WrittenType
  <1>3. nextImpl' \in 1 .. (Len(impls') + 1)
    BY <1>1, <1>2
  <1>4. b \notin Resolved /\ Resolved' = Resolved \cup {b} /\ \A c \in Resolved : c < b
    BY <1>1 DEF Resolved
  <1>5. Over'
    BY <1>1 DEF Over, Indexing
  <1>6. Inherents' = Inherents /\ TraitImpls' = TraitImpls
    BY <1>1, SameImpls
  <1> QED
    BY <1>1, <1>3, <1>4, <1>5, <1>6 DEF SoFarInherents, SoFarTraits

(* What is reported of the next impl is about it alone. *)
LEMMA RefusedStep ==
    ASSUME JudgedOK, NEW b, b \notin Resolved, NEW D, \A d \in D : d.impl = b,
           implDiags' = implDiags \cup D
    PROVE  /\ \A c \in Resolved : \A K : Refused(c, K)' <=> Refused(c, K)
           /\ \A K : Refused(b, K)' <=> \E d \in D : d.kind \in K
           /\ \A d \in implDiags' : d.impl \in Resolved \cup {b}
  <1>1. \A d \in implDiags : d.impl \in Resolved
    BY DEF JudgedOK
  <1>2. ASSUME NEW c \in Resolved, NEW K PROVE Refused(c, K)' <=> Refused(c, K)
    BY <1>1 DEF Refused
  <1>3. ASSUME NEW K PROVE Refused(b, K)' <=> \E d \in D : d.kind \in K
    BY <1>1 DEF Refused
  <1> QED
    BY <1>1, <1>2, <1>3

(* JudgedOK, one impl further. *)
LEMMA JudgedStep ==
    ASSUME IsWritten, IndexInv, Indexing, NEW b, b = nextImpl,
           NEW D, \A d \in D : d.impl = b, implDiags' = implDiags \cup D,
           Accepted(b) <=> ~ \E d \in D : d.kind \in Unresolved,
           b \in TraitImpls =>
               /\ ConformanceDiags(b) \subseteq D
               /\ (\E d \in D : d.kind \in {"OverlappingImpls"}) <=> Rivals(b)
    PROVE  JudgedOK'
  <1>1. /\ b \notin Resolved /\ Resolved' = Resolved \cup {b}
        /\ UNCHANGED <<crate, table, members, impls>>
        /\ SoFarTraits' = IF b \in TraitImpls THEN SoFarTraits \cup {b} ELSE SoFarTraits
    BY NextResolved
  <1>2. /\ \A c : ConformanceDiags(c)' = ConformanceDiags(c) /\ Accepted(c)' = Accepted(c)
        /\ \A c : Rivals(c)' <=> Rivals(c)
    BY <1>1, SameJudgement, SameImpls
  <1>3. JudgedOK
    BY DEF IndexInv
  <1>4. /\ \A c \in Resolved : \A K : Refused(c, K)' <=> Refused(c, K)
        /\ \A K : Refused(b, K)' <=> \E d \in D : d.kind \in K
        /\ \A d \in implDiags' : d.impl \in Resolved'
    BY <1>1, <1>3, RefusedStep
  <1>5. ASSUME NEW c \in Resolved' PROVE Accepted(c)' <=> ~Refused(c, Unresolved)'
    <2>1. CASE c = b
      BY <1>2, <1>4, <2>1
    <2>2. CASE c \in Resolved
      <3>1. Accepted(c) <=> ~Refused(c, Unresolved)
        BY <1>3, <2>2 DEF JudgedOK
      <3>2. Refused(c, Unresolved)' <=> Refused(c, Unresolved)
        BY <1>4, <2>2
      <3> QED
        BY <1>2, <3>1, <3>2
    <2> QED
      BY <1>1, <1>5, <2>1, <2>2
  <1>6. ASSUME NEW c \in SoFarTraits'
        PROVE  /\ ConformanceDiags(c)' \subseteq implDiags'
               /\ Refused(c, {"OverlappingImpls"})' <=> Rivals(c)'
    <2>1. CASE c \in SoFarTraits
      <3>1. c \in Resolved /\ ConformanceDiags(c) \subseteq implDiags
        BY <1>3, <2>1 DEF JudgedOK, SoFarTraits
      <3>2. Refused(c, {"OverlappingImpls"}) <=> Rivals(c)
        BY <1>3, <2>1 DEF JudgedOK
      <3>3. Refused(c, {"OverlappingImpls"})' <=> Refused(c, {"OverlappingImpls"})
        BY <1>4, <3>1
      <3>4. ConformanceDiags(c)' \subseteq implDiags'
        BY <1>2, <3>1
      <3> QED
        BY <1>2, <3>2, <3>3, <3>4
    <2>2. CASE c \notin SoFarTraits
      <3>1. c = b /\ b \in TraitImpls
        BY <1>1, <1>6, <2>2
      <3>2. Refused(b, {"OverlappingImpls"})' <=> \E d \in D : d.kind \in {"OverlappingImpls"}
        BY <1>4
      <3> QED
        BY <1>2, <3>1, <3>2
    <2> QED
      BY <2>1, <2>2
  <1> QED
    BY <1>4, <1>5, <1>6 DEF JudgedOK

LEMMA IndexSkip ==
    ASSUME IsWritten, IndexInv, SkipImpl
    PROVE  IndexInv'
  <1>1. PICK b : b = nextImpl
    OBVIOUS
  <1>2. Indexing
    BY DEF SkipImpl
  <1> DEFINE D == {IF HasOwner(b) THEN ImplDiag("UnresolvedTrait", b, impls[b].trait)
                   ELSE ImplDiag("UnresolvedImplOwner", b, impls[b].owner)}
  <1>3. /\ implDiags' = implDiags \cup D /\ UNCHANGED <<inherent, dispatch, traitImpls>>
        /\ ~Accepted(b)
    BY <1>1 DEF SkipImpl, Accepted
  <1>4. \A d \in D : d.impl = b /\ d.kind \in Unresolved
    BY DEF ImplDiag, Unresolved
  <1>5. \E d \in D : d.kind \in Unresolved
    BY <1>4
  <1> HIDE DEF D
  <1>6. b \notin TraitImpls /\ b \notin Inherents
    BY <1>3 DEF TraitImpls, Inherents
  <1>7. JudgedOK'
    BY <1>1, <1>2, <1>3, <1>4, <1>5, <1>6, JudgedStep
  <1>8. /\ UNCHANGED <<crate, table, members, impls>>
        /\ SoFarInherents' = SoFarInherents /\ SoFarTraits' = SoFarTraits
        /\ nextImpl' \in 1 .. (Len(impls') + 1) /\ Over'
    BY <1>1, <1>2, <1>6, NextResolved
  <1>9. \A c : /\ Keys(c)' = Keys(c) /\ EntriesOf(c)' = EntriesOf(c) /\ Entry(c)' = Entry(c)
               /\ \A n : LastMethod(c, n)' = LastMethod(c, n)
    BY <1>8, SameJudgement
  <1>10. InherentOK' /\ DispatchOK'
    BY <1>3, <1>8, <1>9 DEF IndexInv, InherentOK, DispatchOK
  <1> QED
    BY <1>7, <1>8, <1>10 DEF IndexInv

LEMMA IndexInherentOK ==
    ASSUME IsWritten, IndexInv, IndexInherent
    PROVE  IndexInv'
  <1>1. PICK b : b = nextImpl
    OBVIOUS
  <1>2. Indexing
    BY DEF IndexInherent
  <1>3. /\ b \in 1 .. Len(impls) /\ UNCHANGED <<crate, table, members, impls>>
        /\ nextImpl' \in 1 .. (Len(impls') + 1) /\ Over'
        /\ \A c \in Resolved : c < b
    BY <1>1, <1>2, NextResolved
  <1>4. b \in Inherents /\ b \notin TraitImpls /\ Accepted(b)
    BY <1>1, <1>3 DEF IndexInherent, Inherents, TraitImpls, Accepted
  <1>5. SoFarInherents' = SoFarInherents \cup {b} /\ SoFarTraits' = SoFarTraits
    BY <1>1, <1>2, <1>4, NextResolved
  <1>6. /\ UNCHANGED <<dispatch, traitImpls, implDiags>>
        /\ inherent' = [k \in DOMAIN inherent \cup Keys(b) |->
                            IF k \in Keys(b) THEN LastMethod(b, k[2]) ELSE inherent[k]]
    BY <1>1 DEF IndexInherent, Keys
  <1>7. JudgedOK'
    <2>1. PICK D : D = {}
      OBVIOUS
    <2>2. implDiags' = implDiags \cup D /\ \A d \in D : FALSE
      BY <1>6, <2>1
    <2> QED
      BY <1>1, <1>2, <1>4, <2>2, JudgedStep
  <1>8. \A c : /\ Keys(c)' = Keys(c) /\ EntriesOf(c)' = EntriesOf(c) /\ Entry(c)' = Entry(c)
               /\ \A n : LastMethod(c, n)' = LastMethod(c, n)
    BY <1>3, SameJudgement
  <1>9. DispatchOK'
    BY <1>5, <1>6, <1>8 DEF IndexInv, DispatchOK
  <1>10. ASSUME NEW k \in DOMAIN inherent'
         PROVE  \E a \in SoFarInherents' :
                   /\ k \in Keys(a) /\ inherent'[k] = LastMethod(a, k[2])
                   /\ \A c \in SoFarInherents' : k \in Keys(c) => c <= a
    <2>1. CASE k \in Keys(b)
      <3>1. inherent'[k] = LastMethod(b, k[2])
        BY <1>6, <2>1
      <3>2. \A c \in SoFarInherents' : c <= b
        <4>1. \A c \in SoFarInherents : c \in Int /\ c < b
          BY <1>3 DEF SoFarInherents, Resolved
        <4>2. b \in Int
          BY <1>3
        <4> QED
          BY <1>5, <4>1, <4>2
      <3> QED
        BY <1>5, <2>1, <3>1, <3>2
    <2>2. CASE k \notin Keys(b)
      <3>1. k \in DOMAIN inherent /\ inherent'[k] = inherent[k]
        BY <1>6, <1>10, <2>2
      <3>2. PICK a \in SoFarInherents : /\ k \in Keys(a) /\ inherent[k] = LastMethod(a, k[2])
                                        /\ \A c \in SoFarInherents : k \in Keys(c) => c <= a
        BY <3>1 DEF IndexInv, InherentOK
      <3> QED
        BY <1>5, <2>2, <3>1, <3>2
    <2> QED
      BY <2>1, <2>2
  <1>11. ASSUME NEW a \in SoFarInherents' PROVE Keys(a) \subseteq DOMAIN inherent'
    <2>1. CASE a = b
      BY <1>6, <2>1
    <2>2. CASE a \in SoFarInherents
      <3>1. Keys(a) \subseteq DOMAIN inherent
        BY <2>2 DEF IndexInv, InherentOK
      <3> QED
        BY <1>6, <3>1
    <2> QED
      BY <1>5, <2>1, <2>2
  <1>12. InherentOK'
    BY <1>8, <1>10, <1>11 DEF InherentOK
  <1> QED
    BY <1>3, <1>7, <1>9, <1>12 DEF IndexInv

(* Two impls that overlap are rivals, and rivals overlap. *)
LEMMA OverlapIsRivalry ==
    ASSUME IsWritten, IndexInv, NEW b \in 1 .. Len(impls), b = nextImpl
    PROVE  Overlaps(b) <=> Rivals(b)
  <1>1. \A c : /\ Entry(c).impl = c /\ Entry(c).trait = TraitOf(c) /\ Entry(c).owner = OwnerOf(c)
               /\ Entry(c).applied = impls[c].applied
    BY DEF Entry
  <1>2. \A c : Entry(c) = [Entry(b) EXCEPT !.impl = c]
                  <=> /\ TraitOf(c) = TraitOf(b) /\ OwnerOf(c) = OwnerOf(b)
                      /\ impls[c].applied = impls[b].applied
    BY DEF Entry
  <1>3. \A c \in 1 .. Len(impls) : impls[c].applied \in BOOLEAN
    BY WrittenApplied
  <1>4. Resolved = 1 .. (b - 1) /\ SoFarTraits = Resolved \cap TraitImpls
    BY DEF Resolved, SoFarTraits
  <1>5. ASSUME Overlaps(b) PROVE Rivals(b)
    <2>1. PICK e \in 1 .. Len(traitImpls) : /\ traitImpls[e].trait = TraitOf(b)
                                            /\ traitImpls[e].owner = OwnerOf(b)
                                            /\ ~traitImpls[e].applied
      BY <1>5 DEF Overlaps
    <2>2. PICK c \in SoFarTraits : traitImpls[e] = Entry(c)
      BY DEF IndexInv, DispatchOK, Listed
    <2>3. c \in 1 .. Len(impls) /\ c < b /\ c \in TraitImpls
      BY <1>4 DEF TraitImpls
    <2>4. ~impls[c].applied /\ ~impls[b].applied
      BY <1>1, <1>5, <2>1, <2>2 DEF Overlaps
    <2>5. impls[c].applied = impls[b].applied
      BY <1>3, <2>3, <2>4
    <2> QED
      BY <1>1, <1>2, <2>1, <2>2, <2>3, <2>4, <2>5 DEF Rivals
  <1>6. ASSUME Rivals(b) PROVE Overlaps(b)
    <2>1. PICK c \in TraitImpls : /\ c < b /\ Entry(c) = [Entry(b) EXCEPT !.impl = c]
                                  /\ ~impls[b].applied
      BY <1>6 DEF Rivals
    <2>2. c \in SoFarTraits
      BY <1>4, <2>1 DEF TraitImpls
    <2>3. PICK e \in 1 .. Len(traitImpls) : traitImpls[e] = Entry(c)
      BY <2>2 DEF IndexInv, DispatchOK, Listed
    <2>4. /\ TraitOf(c) = TraitOf(b) /\ OwnerOf(c) = OwnerOf(b)
          /\ impls[c].applied = impls[b].applied
      BY <1>2, <2>1
    <2>5. ~traitImpls[e].applied
      BY <1>1, <2>1, <2>3, <2>4
    <2> QED
      BY <1>1, <2>1, <2>3, <2>4, <2>5 DEF Overlaps
  <1> QED
    BY <1>5, <1>6

LEMMA IndexTraitOK ==
    ASSUME IsWritten, IndexInv, IndexTraitImpl
    PROVE  IndexInv'
  <1>1. PICK b : b = nextImpl
    OBVIOUS
  <1>2. Indexing
    BY DEF IndexTraitImpl
  <1>3. /\ b \in 1 .. Len(impls) /\ UNCHANGED <<crate, table, members, impls>>
        /\ nextImpl' \in 1 .. (Len(impls') + 1) /\ Over'
    BY <1>1, <1>2, NextResolved
  <1>4. b \in TraitImpls /\ b \notin Inherents /\ Accepted(b)
    BY <1>1, <1>3 DEF IndexTraitImpl, Inherents, TraitImpls, Accepted
  <1>5. SoFarTraits' = SoFarTraits \cup {b} /\ SoFarInherents' = SoFarInherents
    BY <1>1, <1>2, <1>4, NextResolved
  <1> DEFINE n == Len(impls[b].methods)
             row == [j \in 1 .. n |-> DispatchEntry(b, j)]
             C == ConformanceDiags(b)
             O == IF Overlaps(b) THEN {ImplDiag("OverlappingImpls", b, impls[b].owner)} ELSE {}
             D == C \cup O
  <1>6. /\ inherent' = inherent /\ dispatch' = dispatch \o row
        /\ traitImpls' = Append(traitImpls, Entry(b)) /\ implDiags' = implDiags \cup D
    BY <1>1 DEF IndexTraitImpl, DispatchEntry
  <1>7. /\ \A d \in C : d.impl = b /\ d.kind \in {"MissingTraitItem", "ExtraTraitItem"}
        /\ \A d \in O : d.impl = b /\ d.kind = "OverlappingImpls"
        /\ O # {} <=> Overlaps(b)
    <2>1. \A k, m : ImplDiag(k, b, m).impl = b /\ ImplDiag(k, b, m).kind = k
      BY DEF ImplDiag
    <2>2. \A d \in C : \E m : \/ d = ImplDiag("MissingTraitItem", b, m)
                             \/ d = ImplDiag("ExtraTraitItem", b, m)
      BY DEF ConformanceDiags
    <2>3. \A d \in O : d = ImplDiag("OverlappingImpls", b, impls[b].owner)
      OBVIOUS
    <2>4. O # {} <=> Overlaps(b)
      OBVIOUS
    <2> HIDE DEF C, O
    <2> QED
      BY <2>1, <2>2, <2>3, <2>4
  <1>8. Overlaps(b) <=> Rivals(b)
    BY <1>1, <1>3, OverlapIsRivalry
  <1>9. IsSeq(row) /\ Listed(row) = EntriesOf(b)
    <2>1. n \in Nat
      BY <1>3, WrittenType
    <2>2. row = [j \in 1 .. n |-> row[j]] /\ \A j \in 1 .. n : row[j] = DispatchEntry(b, j)
      OBVIOUS
    <2> HIDE DEF row
    <2>3. IsSeq(row) /\ Listed(row) = {row[j] : j \in 1 .. n}
      BY <2>1, <2>2, ARow
    <2> QED
      BY <2>2, <2>3 DEF EntriesOf
  <1> HIDE DEF row, n, C, O
  <1>10. JudgedOK'
    <2>1. PICK E : E = D
      OBVIOUS
    <2>2. /\ \A d \in E : d.impl = b /\ d.kind \notin Unresolved
          /\ C \subseteq E
          /\ (\E d \in E : d.kind \in {"OverlappingImpls"}) <=> Overlaps(b)
      BY <1>7, <2>1 DEF Unresolved
    <2> HIDE DEF D
    <2> QED
      BY <1>1, <1>2, <1>4, <1>6, <1>8, <2>1, <2>2, JudgedStep DEF C
  <1>11. \A c : /\ Keys(c)' = Keys(c) /\ EntriesOf(c)' = EntriesOf(c) /\ Entry(c)' = Entry(c)
                /\ \A m : LastMethod(c, m)' = LastMethod(c, m)
    BY <1>3, SameJudgement
  <1>12. InherentOK'
    BY <1>5, <1>6, <1>11 DEF IndexInv, InherentOK
  <1>13. /\ IsSeq(dispatch') /\ Listed(dispatch') = Listed(dispatch) \cup EntriesOf(b)
         /\ IsSeq(traitImpls') /\ Listed(traitImpls') = Listed(traitImpls) \cup {Entry(b)}
    BY <1>6, <1>9, ListedJoin, ListedAppend DEF IndexInv, DispatchOK
  <1>14. /\ \A e \in Listed(dispatch') : \E c \in SoFarTraits' : e \in EntriesOf(c)
         /\ \A c \in SoFarTraits' : EntriesOf(c) \subseteq Listed(dispatch')
         /\ \A e \in Listed(traitImpls') : \E c \in SoFarTraits' : e = Entry(c)
         /\ \A c \in SoFarTraits' : Entry(c) \in Listed(traitImpls')
    BY <1>5, <1>13 DEF IndexInv, DispatchOK
  <1>15. DispatchOK'
    BY <1>11, <1>13, <1>14 DEF DispatchOK
  <1> QED
    BY <1>3, <1>10, <1>12, <1>15 DEF IndexInv

LEMMA IndexStep ==
    ASSUME TypeInv, IsWritten, IndexInv, [CrateNext]_mapVars
    PROVE  IndexInv'
  <1>1. UNCHANGED <<crate, written>>
    BY WrittenStep
  <1>2. nextImpl \in 1 .. (Len(impls) + 1) /\ (~Over => nextImpl = 1)
    BY DEF IndexInv
  <1>3. CASE OrderStep
    <2>1. UNCHANGED <<written, indexed>> /\ nextImpl = 1 /\ nextImpl' = 1
      BY <1>2, <1>3 DEF OrderStep, Ordering, indexed, Over
    <2> QED
      BY <1>1, <1>2, <2>1, IndexFrame DEF IndexInv, written
  <1>4. CASE QuietStep
    <2>1. UNCHANGED <<written, indexed>> /\ nextImpl' = nextImpl
      BY <1>4 DEF QuietStep, indexed
    <2>2. nextImpl = 1 \/ (Over' /\ UNCHANGED <<crate, table>>)
      BY <1>2, <1>4 DEF QuietStep
    <2> QED
      BY <1>1, <1>2, <2>1, <2>2, IndexFrame DEF IndexInv, written
  <1>5. CASE BuildDefPath
    <2>1. UNCHANGED <<vars, written, indexed>>
      BY <1>5 DEF BuildDefPath
    <2>2. UNCHANGED <<crate, table, phase, nextImpl>>
      BY <2>1 DEF vars, indexed
    <2> QED
      BY <1>1, <1>2, <2>1, <2>2, IndexFrame DEF IndexInv, written, Over
  <1> QED
    BY <1>3, <1>4, <1>5, IndexSkip, IndexInherentOK, IndexTraitOK, CrateStepCases

----------------------------------------------------------------------------
(* What the index holds is in the order.                                   *)

ReachInv ==
    /\ \A k \in DOMAIN inherent : inherent[k] \in Listed(order)
    /\ \A e \in Listed(dispatch) : e.method \in Listed(order)

(* The method of a name in an impl that has one is one of the impl. *)
LEMMA LastMethodIs ==
    ASSUME IsWritten, NEW b \in 1 .. Len(impls), NEW n \in Listed(impls[b].methods)
    PROVE  \E j \in 1 .. Len(impls[b].methods) :
               impls[b].methods[j] = n /\ LastMethod(b, n) = ImplItem(b, "method", j)
  <1> DEFINE m == impls[b].methods
             Last(j) == m[j] = n /\ \A l \in (j + 1) .. Len(m) : m[l] # n
             T == {i \in Nat : i < Len(m) /\ m[Len(m) - i] = n}
  <1>1. Len(m) \in Nat
    BY WrittenType
  <1>2. PICK j \in 1 .. Len(m) : m[j] = n
    BY DEF Listed
  <1>3. T \subseteq Nat /\ T # {}
    <2>1. Len(m) - j \in Nat /\ Len(m) - j < Len(m) /\ Len(m) - (Len(m) - j) = j
      BY <1>1, <1>2
    <2> QED
      BY <1>2, <2>1
  <1>4. PICK i \in T : \A l \in T : i <= l
    <2> HIDE DEF T
    <2> QED
      BY <1>3, LeastNatural
  <1>5. Len(m) - i \in 1 .. Len(m) /\ Last(Len(m) - i)
    <2>1. ASSUME NEW l \in (Len(m) - i + 1) .. Len(m), m[l] = n PROVE FALSE
      <3>1. Len(m) - l \in Nat /\ Len(m) - l < Len(m) /\ Len(m) - (Len(m) - l) = l
        BY <1>1, <1>4, <2>1
      <3>2. Len(m) - l \in T
        BY <2>1, <3>1
      <3> QED
        BY <1>1, <1>4, <2>1, <3>2
    <2> QED
      BY <1>1, <1>4, <2>1
  <1>6. PICK x : x = CHOOSE k \in 1 .. Len(m) : Last(k)
    OBVIOUS
  <1>7. LastMethod(b, n) = ImplItem(b, "method", x)
    BY <1>6 DEF LastMethod
  <1> HIDE DEF Last
  <1>8. x \in 1 .. Len(m) /\ Last(x)
    BY <1>5, <1>6
  <1> QED
    BY <1>7, <1>8 DEF Last

LEMMA ReachInit == CrateInit => ReachInv
  <1> SUFFICES ASSUME CrateInit PROVE ReachInv
    OBVIOUS
  <1>1. inherent = [k \in {} |-> NoDef] /\ dispatch = <<>>
    BY DEF CrateInit
  <1> QED
    BY <1>1, EmptyIsSeq DEF ReachInv

LEMMA ReachStep ==
    ASSUME TypeInv, IsWritten, OrderInv, IndexInv, ReachInv, [CrateNext]_mapVars
    PROVE  ReachInv'
  <1>1. CASE OrderStep
    <2>1. order' = order \o DefsOf(pos) /\ UNCHANGED <<inherent, dispatch>> /\ pos \in 1 .. Len(crate)
      BY <1>1 DEF OrderStep, Ordering, indexed
    <2>2. Listed(order') = Listed(order) \cup Listed(DefsOf(pos))
      BY <2>1, DefsOfItem, ListedJoin DEF OrderInv
    <2> QED
      BY <2>1, <2>2 DEF ReachInv
  <1>2. CASE QuietStep \/ SkipImpl \/ BuildDefPath
    <2>1. UNCHANGED <<order, inherent, dispatch>>
      BY <1>2 DEF QuietStep, SkipImpl, BuildDefPath, indexed
    <2> QED
      BY <2>1 DEF ReachInv
  <1>3. CASE IndexInherent
    <2>1. PICK b : b = nextImpl
      OBVIOUS
    <2>2. Indexing /\ nextImpl \in Nat \ {0}
      BY <1>3 DEF IndexInherent, IndexInv
    <2>3. b \in 1 .. Len(impls)
      BY <2>1, <2>2, NextResolved
    <2> DEFINE s == MethodsOf(b) \o <<ImplDef(b)>>
    <2>4. /\ order' = order \o s /\ s \in Pushes(nextImpl) /\ dispatch' = dispatch
          /\ inherent' = [k \in DOMAIN inherent \cup Keys(b) |->
                            IF k \in Keys(b) THEN LastMethod(b, k[2]) ELSE inherent[k]]
      BY <1>3, <2>1 DEF IndexInherent, Pushes, Keys
    <2> HIDE DEF s
    <2>5. Listed(order') = Listed(order) \cup Listed(s)
      BY <2>2, <2>4, PushKeepsOrder
    <2>6. \A j \in 1 .. Len(impls[b].methods) : ImplItem(b, "method", j) \in Listed(s)
      BY <2>1, <2>3, <2>4, DefsOfImpl
    <2>7. ASSUME NEW k \in Keys(b) PROVE LastMethod(b, k[2]) \in Listed(s)
      <3>1. k[2] \in Listed(impls[b].methods)
        BY <2>7 DEF Keys
      <3>2. PICK n : n = k[2]
        OBVIOUS
      <3>3. \E j \in 1 .. Len(impls[b].methods) : LastMethod(b, n) = ImplItem(b, "method", j)
        BY <2>3, <3>1, <3>2, LastMethodIs
      <3> QED
        BY <2>6, <3>2, <3>3
    <2> QED
      BY <2>4, <2>5, <2>7 DEF ReachInv
  <1>4. CASE IndexTraitImpl
    <2>1. PICK b : b = nextImpl
      OBVIOUS
    <2>2. Indexing /\ nextImpl \in Nat \ {0}
      BY <1>4 DEF IndexTraitImpl, IndexInv
    <2>3. b \in 1 .. Len(impls)
      BY <2>1, <2>2, NextResolved
    <2> DEFINE s == ConstsOf(b) \o MethodsOf(b) \o <<ImplDef(b)>>
    <2>4. order' = order \o s /\ s \in Pushes(nextImpl) /\ inherent' = inherent
      BY <1>4, <2>1 DEF IndexTraitImpl, Pushes
    <2> HIDE DEF s
    <2>5. Listed(order') = Listed(order) \cup Listed(s)
      BY <2>2, <2>4, PushKeepsOrder
    <2>6. \A j \in 1 .. Len(impls[b].methods) : ImplItem(b, "method", j) \in Listed(s)
      BY <2>1, <2>3, <2>4, DefsOfImpl
    <2>7. Listed(dispatch') = Listed(dispatch) \cup EntriesOf(b)
      <3> DEFINE row == [j \in 1 .. Len(impls[b].methods) |-> DispatchEntry(b, j)]
      <3>1. dispatch' = dispatch \o row
        BY <1>4, <2>1 DEF IndexTraitImpl, DispatchEntry
      <3>2. row = [j \in 1 .. Len(impls[b].methods) |-> row[j]]
            /\ \A j \in 1 .. Len(impls[b].methods) : row[j] = DispatchEntry(b, j)
        OBVIOUS
      <3> HIDE DEF row
      <3>3. IsSeq(row) /\ Listed(row) = {row[j] : j \in 1 .. Len(impls[b].methods)}
        BY <2>3, <3>2, ARow, WrittenType
      <3>4. Listed(row) = EntriesOf(b)
        BY <3>2, <3>3 DEF EntriesOf
      <3> QED
        BY <3>1, <3>3, <3>4, ListedJoin DEF IndexInv, DispatchOK
    <2>8. \A e \in EntriesOf(b) : e.method \in Listed(s)
      BY <2>6 DEF EntriesOf, DispatchEntry
    <2> QED
      BY <2>4, <2>5, <2>7, <2>8 DEF ReachInv
  <1> QED
    BY <1>1, <1>2, <1>3, <1>4, CrateStepCases

----------------------------------------------------------------------------
(* The theorems.                                                           *)

CrateInv ==
    /\ DeclInv /\ RolesFit
    /\ IsWritten
    /\ OrderInv
    /\ PathsInv
    /\ IndexInv
    /\ ReachInv

LEMMA CrateInvInit == CrateInit => CrateInv
  BY CrateInitIsInit, DeclInit, RolesInit, WrittenInit, OrderInit, PathsInit, IndexInit, ReachInit
     DEF CrateInv

LEMMA CrateInvStep == CrateInv /\ [CrateNext]_mapVars => CrateInv'
  <1> SUFFICES ASSUME CrateInv, [CrateNext]_mapVars PROVE CrateInv'
    OBVIOUS
  <1>1. [Next]_vars /\ UNCHANGED <<crate, written>>
    BY CrateStepIsNext, WrittenStep
  <1>2. TypeInv /\ nextImpl \in Nat \ {0}
    BY DEF CrateInv, DeclInv, IndexInv
  <1>3. DeclInv' /\ RolesFit'
    BY <1>1, DeclStep, RolesStep DEF CrateInv
  <1>4. IsWritten'
    BY <1>1 DEF CrateInv, IsWritten, written
  <1>5. OrderInv'
    BY <1>2, OrderStepOK DEF CrateInv
  <1>6. PathsInv'
    BY <1>2, <1>5, PathsStep DEF CrateInv
  <1>7. IndexInv' /\ ReachInv'
    BY <1>2, IndexStep, ReachStep DEF CrateInv
  <1> QED
    BY <1>3, <1>4, <1>5, <1>6, <1>7 DEF CrateInv

LEMMA CrateAlways == CrateSpec => []CrateInv
  BY CrateInvInit, CrateInvStep, PTL DEF CrateSpec

(* The query's steps are steps of DefMap: what is proved of its tables     *)
(* holds with the impls and paths around them.                             *)
THEOREM CrateResolvesNames == CrateSpec => Spec
  BY CrateInitIsInit, CrateStepIsNext, PTL DEF CrateSpec, Spec

(* Method calls reach what is written: whatever names lead to the impls of *)
(* a crate, an impl is dropped exactly when it is reported, the method a   *)
(* type answers a name with is the last one of the name in the last impl   *)
(* that has it, and the candidates under traits are the methods of impls.  *)
THEOREM MethodCallsReach == CrateSpec => []MethodsAreReached
  <1>1. ASSUME CrateInv PROVE MethodsAreReached
    <2> SUFFICES ASSUME Indexed
                 PROVE  MethodsAreReached
      BY DEF MethodsAreReached
    <2>1. Len(impls) \in Nat /\ nextImpl \in 1 .. (Len(impls) + 1) /\ nextImpl > Len(impls)
      BY <1>1, WrittenType DEF CrateInv, IndexInv, Indexed
    <2>2. Resolved = 1 .. Len(impls)
      BY <2>1 DEF Resolved
    <2>3. SoFarInherents = Inherents /\ SoFarTraits = TraitImpls
      BY <2>2 DEF SoFarInherents, SoFarTraits, Inherents, TraitImpls
    <2>4. InherentOK /\ DispatchOK /\ JudgedOK
      BY <1>1 DEF CrateInv, IndexInv
    <2>5. \A b \in 1 .. Len(impls) : Accepted(b) <=> ~Refused(b, Unresolved)
      BY <2>2, <2>4 DEF JudgedOK
    <2>6. DOMAIN inherent = UNION {Keys(b) : b \in Inherents}
      BY <2>3, <2>4 DEF InherentOK
    <2>7. ASSUME NEW k \in DOMAIN inherent
          PROVE  \E b \in Inherents :
                    /\ OwnerOf(b) = k[1] /\ k[2] \in Listed(impls[b].methods)
                    /\ inherent[k] = LastMethod(b, k[2])
                    /\ \A c \in Inherents :
                         OwnerOf(c) = k[1] /\ k[2] \in Listed(impls[c].methods) => c <= b
      <3>1. PICK b \in Inherents :
               /\ k \in Keys(b) /\ inherent[k] = LastMethod(b, k[2])
               /\ \A c \in Inherents : k \in Keys(c) => c <= b
        BY <2>3, <2>4 DEF InherentOK
      <3>2. k = <<k[1], k[2]>> /\ k[1] = OwnerOf(b) /\ k[2] \in Listed(impls[b].methods)
        BY <3>1 DEF Keys
      <3>3. \A c : OwnerOf(c) = k[1] /\ k[2] \in Listed(impls[c].methods) => k \in Keys(c)
        BY <3>2 DEF Keys
      <3> QED
        BY <3>1, <3>2, <3>3
    <2>8. Listed(dispatch) = UNION {EntriesOf(b) : b \in TraitImpls}
      BY <2>3, <2>4 DEF DispatchOK
    <2> QED
      BY <2>5, <2>6, <2>7, <2>8 DEF MethodsAreReached, Unresolved, Keys, EntriesOf, DispatchEntry
  <1> QED
    BY <1>1, CrateAlways, PTL

(* Trait selection may rely on what was not reported: an impl of a trait   *)
(* that is not reported has exactly the methods its trait declares, and    *)
(* an impl is reported to overlap exactly when an earlier one of the trait *)
(* is for the same type, both without arguments.                           *)
THEOREM SelectionRelies == CrateSpec => []ImplsAreJudged
  <1>1. ASSUME CrateInv PROVE ImplsAreJudged
    <2> SUFFICES ASSUME Indexed, NEW b \in TraitImpls
                 PROVE  /\ ~Refused(b, {"MissingTraitItem", "ExtraTraitItem"}) =>
                             \A n \in Names :
                                (<<n, "method">> \in DeclaredBy(TraitOf(b))) <=>
                                   (\E e \in Candidates(OwnerOf(b), TraitOf(b), n) :
                                        e.method.impl = b)
                        /\ Refused(b, {"OverlappingImpls"}) <=> Rivals(b)
      BY DEF ImplsAreJudged, Rivals
    <2>1. Len(impls) \in Nat /\ nextImpl \in 1 .. (Len(impls) + 1) /\ nextImpl > Len(impls)
      BY <1>1, WrittenType DEF CrateInv, IndexInv, Indexed
    <2>2. SoFarTraits = TraitImpls
      BY <2>1 DEF SoFarTraits, TraitImpls, Resolved
    <2>3. DispatchOK /\ JudgedOK
      BY <1>1 DEF CrateInv, IndexInv
    <2>4. Refused(b, {"OverlappingImpls"}) <=> Rivals(b)
      BY <2>2, <2>3 DEF JudgedOK
    <2>5. ASSUME ~Refused(b, {"MissingTraitItem", "ExtraTraitItem"}), NEW n \in Names
          PROVE  (<<n, "method">> \in DeclaredBy(TraitOf(b))) <=>
                    (\E e \in Candidates(OwnerOf(b), TraitOf(b), n) : e.method.impl = b)
      <3> DEFINE declared == DeclaredBy(TraitOf(b))
                 x == <<n, "method">>
      <3>1. ConformanceDiags(b) \subseteq implDiags
        BY <2>2, <2>3 DEF JudgedOK
      <3>2. \A m : /\ ImplDiag("MissingTraitItem", b, m) \notin implDiags
                   /\ ImplDiag("ExtraTraitItem", b, m) \notin implDiags
        BY <2>5 DEF Refused, ImplDiag
      <3>3. x \in declared <=> x \in GivenBy(b)
        BY <3>1, <3>2 DEF ConformanceDiags
      <3>4. x \in GivenBy(b) <=> n \in Listed(impls[b].methods)
        BY DEF GivenBy, Keyed
      <3>5. ASSUME n \in Listed(impls[b].methods)
            PROVE  \E e \in Candidates(OwnerOf(b), TraitOf(b), n) : e.method.impl = b
        <4>1. PICK j \in 1 .. Len(impls[b].methods) : impls[b].methods[j] = n
          BY <3>5 DEF Listed
        <4>2. DispatchEntry(b, j) \in Listed(dispatch)
          BY <2>2, <2>3 DEF DispatchOK, EntriesOf
        <4> QED
          BY <4>1, <4>2 DEF Candidates, DispatchEntry, ImplItem
      <3>6. ASSUME NEW e \in Candidates(OwnerOf(b), TraitOf(b), n), e.method.impl = b
            PROVE  n \in Listed(impls[b].methods)
        <4>1. e \in Listed(dispatch) /\ e.name = n
          BY DEF Candidates
        <4>2. PICK c \in TraitImpls : e \in EntriesOf(c)
          BY <2>2, <2>3, <4>1 DEF DispatchOK
        <4>3. PICK j \in 1 .. Len(impls[c].methods) : e = DispatchEntry(c, j)
          BY <4>2 DEF EntriesOf
        <4>4. c = b /\ impls[c].methods[j] = n
          BY <3>6, <4>1, <4>3 DEF DispatchEntry, ImplItem
        <4> QED
          BY <4>4 DEF Listed
      <3> QED
        BY <3>3, <3>4, <3>5, <3>6
    <2> QED
      BY <2>4, <2>5
  <1> QED
    BY <1>1, CrateAlways, PTL

(* A path identifies a def: whatever a name or a method call can resolve   *)
(* to has a path in the end, and no two defs share one, however often the  *)
(* crate repeats the names they are made of.                               *)
THEOREM EachPathIdentifies == CrateSpec => []PathsIdentify
  <1>1. ASSUME CrateInv PROVE PathsIdentify
    <2> SUFFICES ASSUME phase = "done", Len(paths) = Len(order)
                 PROVE  PathsIdentify
      BY DEF PathsIdentify
    <2> DEFINE Pathed == {paths[q].def : q \in 1 .. Len(paths)}
    <2>1. \A q \in 1 .. Len(paths) : paths[q].def = order[q]
      BY <1>1 DEF CrateInv, PathsInv
    <2>2. Pathed = Listed(order)
      BY <2>1 DEF Listed
    <2> HIDE DEF Pathed
    <2>3. Len(paths) \in Nat
      BY <1>1, LenIsNat DEF CrateInv, PathsInv
    <2>4. ASSUME NEW p \in 1 .. Len(paths), NEW q \in 1 .. Len(paths), p # q
          PROVE  /\ paths[p].def # paths[q].def
                 /\ <<paths[p].names, paths[p].nr>> # <<paths[q].names, paths[q].nr>>
      <3>1. order[p] # order[q]
        BY <1>1, <2>4 DEF CrateInv, OrderInv, Distinct
      <3>2. p < q \/ q < p
        BY <2>4
      <3>3. paths[p].names = paths[q].names => paths[p].nr # paths[q].nr
        BY <1>1, <3>2, NumbersDiffer DEF CrateInv
      <3> QED
        BY <2>1, <3>1, <3>3
    <2>5. ASSUME NEW k \in Key, table[k].source # "Absent" PROVE table[k].def \in Pathed
      <3> DEFINE d == table[k].def
      <3>1. /\ d \in DefId /\ d.item \in 1 .. Len(crate)
            /\ table[Home(d)].def = d /\ table[Home(d)].source = "Def" /\ Home(d) \in Key
        BY <1>1, <2>5, HomeType DEF CrateInv, DeclInv, DeclsOK, Declared, TableOK, TypeInv
      <3> HIDE DEF d
      <3>2. IsDeclared(d)
        BY <1>1, <3>1 DEF CrateInv, DeclInv, DeclsOK, Declared, IsDeclared
      <3>3. /\ d = Def(d.item, d.role)
            /\ \/ d.role = "Item" /\ crate[d.item].kind # "use"
               \/ d.role = "Ctor" /\ crate[d.item].kind = "adt"
        BY <1>1, <3>1, <3>2 DEF CrateInv, RolesFit, DefId, Def
      <3>4. d \in Listed(DefsOf(d.item))
        BY <1>1, <3>1, <3>3, DefsOfItem DEF CrateInv
      <3>5. Past(d.item)
        BY DEF Past
      <3> QED
        BY <1>1, <2>2, <3>1, <3>4, <3>5 DEF CrateInv, OrderInv, d
    <2>6. /\ \A k \in DOMAIN inherent : inherent[k] \in Pathed
          /\ \A e \in Listed(dispatch) : e.method \in Pathed
      BY <1>1, <2>2 DEF CrateInv, ReachInv
    <2> QED
      BY <2>4, <2>5, <2>6 DEF PathsIdentify, Pathed
  <1> QED
    BY <1>1, CrateAlways, PTL

============================================================================
