------------------------- MODULE DefMapPrivacyProofs -------------------------
(***************************************************************************)
(* Privacy in a crate of any size: where imports re-export nothing and     *)
(* none is diagnosed, no chain of them carries a def to a module that may  *)
(* not know it.                                                            *)
(***************************************************************************)
EXTENDS DefMapProofs, FiniteSetTheorems

USE DEF Root, NoModule, Public, Undeclared

----------------------------------------------------------------------------
(* The module tree: ancestors.                                             *)

Climbs(g, m, n) == g = [k \in 0 .. n |-> IF k = 0 THEN m ELSE ParentOr(g[k - 1])]

LEMMA ClimbExists ==
    ASSUME NEW m, NEW n \in Nat
    PROVE  \E g : Climbs(g, m, n)
  <1> DEFINE T == {i \in Nat : ~ \E g : Climbs(g, m, i)}
  <1> SUFFICES ASSUME ~ \E g : Climbs(g, m, n)
               PROVE  FALSE
    OBVIOUS
  <1>1. PICK i \in T : \A k \in T : i <= k
    <2>1. T \in SUBSET Nat /\ T # {}
      OBVIOUS
    <2> HIDE DEF T
    <2> QED BY <2>1, LeastNatural
  <1>2. i \in Nat /\ ~ \E g : Climbs(g, m, i)
    OBVIOUS
  <1>3. CASE i = 0
    <2> DEFINE g == [k \in 0 .. 0 |-> m]
    <2>1. g = [k \in 0 .. 0 |-> IF k = 0 THEN m ELSE ParentOr(g[k - 1])]
      <3> DEFINE e(k) == IF k = 0 THEN m ELSE ParentOr(g[k - 1])
      <3>1. \A k \in 0 .. 0 : e(k) = m
        OBVIOUS
      <3> HIDE DEF e
      <3>2. g = [k \in 0 .. 0 |-> e(k)]
        BY <3>1
      <3> QED
        BY <3>2 DEF e
    <2> HIDE DEF g
    <2> QED
      BY <1>2, <1>3, <2>1 DEF Climbs
  <1>4. CASE i # 0
    <2>1. i - 1 \in Nat /\ i - 1 \notin T
      BY <1>1, <1>2, <1>4
    <2>2. PICK g : Climbs(g, m, i - 1)
      BY <2>1
    <2> DEFINE h == [k \in 0 .. i |-> IF k = 0 THEN m ELSE ParentOr(g[k - 1])]
    <2>3. \A k \in 0 .. i - 1 : h[k] = g[k]
      <3>1. g = [k \in 0 .. i - 1 |-> IF k = 0 THEN m ELSE ParentOr(g[k - 1])]
        BY <2>2 DEF Climbs
      <3> QED
        BY <2>1, <3>1
    <2>4. \A k \in 0 .. i : k # 0 => g[k - 1] = h[k - 1]
      <3>1. \A k \in 0 .. i : k # 0 => k - 1 \in 0 .. i - 1
        BY <1>2
      <3> HIDE DEF h
      <3> QED BY <2>3, <3>1
    <2>5. h = [k \in 0 .. i |-> IF k = 0 THEN m ELSE ParentOr(h[k - 1])]
      <3> DEFINE e(k) == IF k = 0 THEN m ELSE ParentOr(g[k - 1])
                 f(k) == IF k = 0 THEN m ELSE ParentOr(h[k - 1])
      <3>1. \A k \in 0 .. i : e(k) = f(k)
        <4> HIDE DEF h
        <4> QED BY <2>4
      <3>2. h = [k \in 0 .. i |-> e(k)]
        OBVIOUS
      <3> HIDE DEF h, e, f
      <3>3. h = [k \in 0 .. i |-> f(k)]
        BY <3>1, <3>2
      <3> QED
        BY <3>3 DEF f
    <2> HIDE DEF h
    <2> QED
      BY <1>2, <2>5 DEF Climbs
  <1> QED
    BY <1>3, <1>4

(* Climbing further passes the same modules. *)
LEMMA ClimbsAgree ==
    ASSUME NEW m, NEW n \in Nat, NEW l \in Nat, NEW g, NEW h,
           Climbs(g, m, n), Climbs(h, m, l), NEW i \in Nat, i <= n, i <= l
    PROVE  g[i] = h[i]
  <1> DEFINE T == {j \in Nat : j <= n /\ j <= l /\ g[j] # h[j]}
  <1> SUFFICES ASSUME g[i] # h[i] PROVE FALSE
    OBVIOUS
  <1>1. PICK j \in T : \A k \in T : j <= k
    <2>1. T \subseteq Nat /\ T # {}
      OBVIOUS
    <2> HIDE DEF T
    <2> QED BY <2>1, LeastNatural
  <1>2. j \in Nat /\ j \in 0 .. n /\ j \in 0 .. l /\ g[j] # h[j]
    OBVIOUS
  <1>3. g[j] = IF j = 0 THEN m ELSE ParentOr(g[j - 1])
    BY <1>2 DEF Climbs
  <1>4. h[j] = IF j = 0 THEN m ELSE ParentOr(h[j - 1])
    BY <1>2 DEF Climbs
  <1>5. CASE j = 0
    BY <1>2, <1>3, <1>4, <1>5
  <1>6. CASE j # 0
    <2>1. j - 1 \in Nat /\ j - 1 <= n /\ j - 1 <= l /\ j - 1 < j
      BY <1>2, <1>6
    <2>2. g[j - 1] = h[j - 1]
      <3>1. j - 1 \notin T
        BY <1>1, <1>2, <2>1
      <3> QED
        BY <2>1, <3>1
    <2> QED
      BY <1>2, <1>3, <1>4, <1>6, <2>2
  <1> QED
    BY <1>5, <1>6

LEMMA UpIs ==
    ASSUME NEW m, NEW n \in Nat
    PROVE  Up(m, 0) = m /\ Up(m, n + 1) = ParentOr(Up(m, n))
  <1> DEFINE up(i) == CHOOSE g : Climbs(g, m, i)
  <1>1. \A i \in Nat : Climbs(up(i), m, i)
    BY ClimbExists
  <1>2. \A i \in Nat : Up(m, i) = up(i)[i]
    BY DEF Up, Climbs
  <1> HIDE DEF up
  <1>3. n + 1 \in Nat /\ n + 1 # 0 /\ n + 1 - 1 = n /\ n \in 0 .. n + 1 /\ n + 1 \in 0 .. n + 1
    OBVIOUS
  <1>4. PICK l \in Nat : l = n + 1 /\ l # 0 /\ l - 1 = n /\ l \in 0 .. l /\ n <= l
    BY <1>3
  <1>5. up(l)[l] = ParentOr(up(l)[n])
    <2>1. Climbs(up(l), m, l)
      BY <1>1
    <2>2. up(l)[l] = IF l = 0 THEN m ELSE ParentOr(up(l)[l - 1])
      BY <1>4, <2>1 DEF Climbs
    <2> QED
      BY <1>4, <2>2
  <1>6. up(l)[n] = up(n)[n]
    <2>1. Climbs(up(l), m, l) /\ Climbs(up(n), m, n) /\ n <= n
      BY <1>1
    <2> QED
      BY <1>4, <2>1, ClimbsAgree
  <1>7. up(0)[0] = m
    <2>1. Climbs(up(0), m, 0) /\ 0 \in 0 .. 0
      BY <1>1
    <2> QED
      BY <2>1 DEF Climbs
  <1> QED
    BY <1>2, <1>4, <1>5, <1>6, <1>7

LEMMA UpAdds ==
    ASSUME NEW m, NEW i \in Nat, NEW n \in Nat
    PROVE  Up(Up(m, i), n) = Up(m, i + n)
  <1> DEFINE T == {j \in Nat : Up(Up(m, i), j) # Up(m, i + j)}
  <1> SUFFICES ASSUME n \in T PROVE FALSE
    OBVIOUS
  <1>1. PICK j \in T : \A k \in T : j <= k
    <2>1. T \subseteq Nat /\ T # {}
      OBVIOUS
    <2> HIDE DEF T
    <2> QED BY <2>1, LeastNatural
  <1>2. j \in Nat /\ Up(Up(m, i), j) # Up(m, i + j)
    OBVIOUS
  <1>3. j # 0
    <2>1. i + 0 = i
      OBVIOUS
    <2> QED
      BY <1>2, <2>1, UpIs
  <1>4. PICK k \in Nat : k = j - 1 /\ j = k + 1 /\ k \notin T
    BY <1>1, <1>2, <1>3
  <1>5. Up(Up(m, i), k) = Up(m, i + k)
    BY <1>4
  <1>6. Up(Up(m, i), j) = ParentOr(Up(Up(m, i), k))
    BY <1>4, UpIs
  <1>7. Up(m, i + j) = ParentOr(Up(m, i + k))
    <2>1. PICK l \in Nat : l = i + k /\ i + j = l + 1
      BY <1>4
    <2>2. Up(m, l + 1) = ParentOr(Up(m, l))
      BY UpIs
    <2> QED
      BY <2>1, <2>2
  <1> QED
    BY <1>2, <1>5, <1>6, <1>7

(* A module's parent was opened before it. *)
Ascending ==
    /\ parent \in [ModuleId -> ModuleId \cup {NoModule}]
    /\ \A m \in ModuleId : parent[m] \in ModuleId => parent[m] < m

(* Climbing descends in number until it stands still. *)
LEMMA UpDescends ==
    ASSUME Ascending, NEW m \in ModuleId, NEW n \in Nat
    PROVE  /\ Up(m, n) \in ModuleId
           /\ Up(m, n) <= m - n \/ \E k \in Nat : k < n /\ Up(m, k) = Up(m, n)
  <1> DEFINE P(i) == /\ Up(m, i) \in ModuleId
                     /\ Up(m, i) <= m - i \/ \E k \in Nat : k < i /\ Up(m, k) = Up(m, i)
             T == {i \in Nat : ~P(i)}
  <1> SUFFICES ASSUME n \in T PROVE FALSE
    OBVIOUS
  <1>1. PICK i \in T : \A k \in T : i <= k
    <2>1. T \subseteq Nat /\ T # {}
      OBVIOUS
    <2> HIDE DEF T
    <2> QED BY <2>1, LeastNatural
  <1>2. i \in Nat /\ ~P(i)
    OBVIOUS
  <1>3. ModuleId \subseteq Nat
    BY BoundsAssumption DEF ModuleId
  <1>4. i # 0
    <2>1. Up(m, 0) = m /\ m <= m - 0
      BY <1>3, UpIs
    <2> QED
      BY <1>2, <2>1
  <1>5. PICK j \in Nat : i = j + 1 /\ P(j)
    <2>1. i - 1 \in Nat /\ i - 1 \notin T /\ i = (i - 1) + 1
      BY <1>1, <1>2, <1>4
    <2> QED
      BY <2>1
  <1>6. Up(m, i) = ParentOr(Up(m, j))
    BY <1>5, UpIs
  <1>7. Up(m, j) \in ModuleId /\ Up(m, i) \in ModuleId
    BY <1>5, <1>6 DEF Ascending, ParentOr
  <1>8. Up(m, i) = Up(m, j) \/ Up(m, i) < Up(m, j)
    BY <1>6, <1>7 DEF Ascending, ParentOr
  <1>9. CASE Up(m, j) <= m - j /\ Up(m, i) < Up(m, j)
    <2>1. Up(m, i) <= m - i
      <3>1. PICK x, y : x = Up(m, i) /\ y = Up(m, j)
        OBVIOUS
      <3>2. x \in Nat /\ y \in Nat /\ m \in Nat /\ j \in Nat /\ i = j + 1 /\ y <= m - j /\ x < y
        BY <1>3, <1>5, <1>7, <1>9, <3>1
      <3>3. x <= m - i
        BY <3>2
      <3> QED
        BY <3>1, <3>3
    <2> QED
      BY <1>2, <1>7, <2>1
  <1>10. CASE Up(m, i) = Up(m, j)
    <2>1. j < i
      BY <1>5
    <2> QED
      BY <1>2, <1>7, <1>10, <2>1
  <1>11. CASE \E k \in Nat : k < j /\ Up(m, k) = Up(m, j)
    <2>1. PICK k \in Nat : k < j /\ Up(m, k) = Up(m, j)
      BY <1>11
    <2>2. Up(m, k + 1) = Up(m, i)
      BY <1>6, <2>1, UpIs
    <2>3. k + 1 \in Nat /\ k + 1 < i
      BY <1>5, <2>1
    <2> QED
      BY <1>2, <1>7, <2>2, <2>3
  <1> QED
    BY <1>5, <1>8, <1>9, <1>10, <1>11

LEMMA UpIsWithin ==
    ASSUME Ascending, NEW m \in ModuleId, NEW n \in Nat
    PROVE  IsWithin(m, Up(m, n))
  <1> DEFINE T == {i \in Nat : Up(m, i) = Up(m, n)}
  <1>1. PICK i \in T : \A k \in T : i <= k
    <2>1. T \subseteq Nat /\ T # {}
      OBVIOUS
    <2> HIDE DEF T
    <2> QED BY <2>1, LeastNatural
  <1>2. i \in Nat /\ Up(m, i) = Up(m, n)
    OBVIOUS
  <1>3. ~ \E k \in Nat : k < i /\ Up(m, k) = Up(m, i)
    <2> SUFFICES ASSUME NEW k \in Nat, k < i, Up(m, k) = Up(m, i)
                 PROVE  FALSE
      OBVIOUS
    <2>1. k \in T
      BY <1>2
    <2> QED
      BY <1>1, <1>2, <2>1
  <1>4. Up(m, i) \in ModuleId /\ Up(m, i) <= m - i
    BY <1>2, <1>3, UpDescends
  <1>5. i \in 0 .. MaxModules
    BY <1>2, <1>4, BoundsAssumption DEF ModuleId
  <1> QED
    BY <1>2, <1>5 DEF IsWithin

(* What is within a module is within the ancestors of that module. *)
LEMMA WithinWithin ==
    ASSUME Ascending, NEW m \in ModuleId, NEW n, NEW a, IsWithin(m, n), IsWithin(n, a)
    PROVE  IsWithin(m, a)
  <1>1. MaxModules \in Nat
    BY BoundsAssumption
  <1>2. PICK i \in 0 .. MaxModules : Up(m, i) = n
    BY DEF IsWithin
  <1>3. PICK j \in 0 .. MaxModules : Up(n, j) = a
    BY DEF IsWithin
  <1>4. i \in Nat /\ j \in Nat /\ i + j \in Nat
    BY <1>1
  <1>5. Up(m, i + j) = a
    BY <1>2, <1>3, <1>4, UpAdds
  <1> QED
    BY <1>4, <1>5, UpIsWithin

LEMMA WithinSelf ==
    ASSUME NEW m
    PROVE  IsWithin(m, m)
  <1>1. 0 \in 0 .. MaxModules /\ Up(m, 0) = m
    BY UpIs, BoundsAssumption
  <1> QED
    BY <1>1 DEF IsWithin

----------------------------------------------------------------------------
(* Growing tables.  Where no module has both globs and explicit imports,   *)
(* what is bound stays bound as it is.                                     *)

Grows(t, t2) == \A k \in Key : t[k].source # "Absent" => t2[k] = t[k]

(* A table whose bindings tell what they are. *)
Honest(t) ==
    \A k \in Key : /\ t[k].source = "Absent" => t[k].def = NoDef
                   /\ t[k].source # "Absent" => t[k].def \in DefId

Finds(t, m, name, ns) == Lookup(t, m, name, ns).def \in DefId

Keeps(t, t2, m, name, ns) ==
    /\ Lookup(t2, m, name, ns) = Lookup(t, m, name, ns)
    /\ <<m, name, ns>> \in Key /\ t[<<m, name, ns>>].source # "Absent"
    /\ m \in ModuleId

LEMMA LookupGrows ==
    ASSUME NEW t, NEW t2, Honest(t), Grows(t, t2), NEW m, NEW name, NEW ns,
           Finds(t, m, name, ns)
    PROVE  Keeps(t, t2, m, name, ns)
  <1> USE DEF Finds, Keeps
  <1>1. <<m, name, ns>> \in Key
    BY NoDefIsNoDef DEF Lookup, Absent
  <1>2. t[<<m, name, ns>>].source # "Absent"
    BY <1>1, NoDefIsNoDef DEF Lookup, Honest
  <1> QED
    BY <1>1, <1>2 DEF Lookup, Grows, Key

(* A walk that leads somewhere leads there in what the table grows to. *)
LEMMA WalkGrows ==
    ASSUME NEW t, NEW t2, Honest(t), Grows(t, t2), NEW segs \in Seq(Segment), NEW from,
           NEW i \in 1 .. Len(segs), Walk(t, segs, from)[i] # NoModule
    PROVE  Walk(t2, segs, from)[i] = Walk(t, segs, from)[i]
  <1> DEFINE W(j) == Walk(t, segs, from)[j]
             X(j) == Walk(t2, segs, from)[j]
             T == {j \in 1 .. Len(segs) : W(j) # NoModule /\ X(j) # W(j)}
  <1> SUFFICES ASSUME i \in T PROVE FALSE
    OBVIOUS
  <1>1. Len(segs) \in Nat
    OBVIOUS
  <1>2. PICK j \in T : \A k \in T : j <= k
    <2>1. T \subseteq Nat /\ T # {}
      BY <1>1
    <2> HIDE DEF T
    <2> QED BY <2>1, LeastNatural
  <1>3. j \in 1 .. Len(segs) /\ W(j) # NoModule /\ X(j) # W(j)
    OBVIOUS
  <1>4. PICK first : first = PathAnchor(segs, from).first /\ first \in Nat \ {0}
    BY AnchorType
  <1>5. /\ W(j) = IF j <= first THEN PathAnchor(segs, from).mod
                  ELSE Onward(t, W(j - 1), segs[j - 1])
        /\ X(j) = IF j <= first THEN PathAnchor(segs, from).mod
                  ELSE Onward(t2, X(j - 1), segs[j - 1])
    BY <1>3, <1>4, WalkIs
  <1>6. ~ j <= first
    BY <1>3, <1>5
  <1>7. PICK k \in 1 .. Len(segs) : k = j - 1 /\ k \notin T
    <2>1. j - 1 \in 1 .. Len(segs) /\ ~ j <= j - 1
      BY <1>1, <1>3, <1>4, <1>6
    <2> HIDE DEF T
    <2> QED
      BY <1>2, <2>1
  <1> HIDE DEF W, X
  <1>8. W(j) = Onward(t, W(k), segs[k]) /\ X(j) = Onward(t2, X(k), segs[k])
    BY <1>5, <1>6, <1>7
  <1>9. Lookup(t, W(k), segs[k], "Module").def \in DefId
    BY <1>3, <1>8 DEF Onward
  <1>10. /\ Lookup(t2, W(k), segs[k], "Module") = Lookup(t, W(k), segs[k], "Module")
         /\ W(k) \in ModuleId
    <2>1. PICK m, name, ns : m = W(k) /\ name = segs[k] /\ ns = "Module"
      OBVIOUS
    <2>2. Finds(t, m, name, ns)
      BY <1>9, <2>1 DEF Finds
    <2>3. Keeps(t, t2, m, name, ns)
      BY <2>2, LookupGrows
    <2> QED
      BY <2>1, <2>3 DEF Keeps
  <1>11. W(k) # NoModule
    BY <1>10, BoundsAssumption DEF ModuleId
  <1>12. X(k) = W(k)
    BY <1>7, <1>11 DEF W, X
  <1> QED
    BY <1>3, <1>8, <1>10, <1>12 DEF Onward

----------------------------------------------------------------------------
(* What is known where.                                                    *)

Plain == \A u \in UseLeaves : ~Exported(u) /\ ~Overtaken(u)

Writes(m, glob) == \E u \in UseLeaves : ModOf(u) = m /\ (LeafAt(u).glob <=> glob)

(* A binding knows its visibility from its source: a declaration from its  *)
(* def, an import from the module it is in.                                *)
Dated(t) ==
    \A k \in Key :
        /\ t[k].source = "Def" => t[k].vis = visibility[t[k].def]
        /\ t[k].source \in {"Glob", "Import"} =>
             t[k].vis = k[1] /\ Writes(k[1], t[k].source = "Glob")

Sound(t) == t \in [Key -> Binding] /\ Honest(t) /\ Dated(t)

Knows(t) == \A k \in Key : t[k].source # "Absent" => MayKnow(k[1], t[k].def)

LastKey(t, segs, from, ns) == <<Walk(t, segs, from)[Len(segs)], segs[Len(segs)], ns>>

(* Module `from` looks at the last name of the path though it may not see  *)
(* what binds it.                                                          *)
Peeks(t, segs, from, ns) ==
    /\ PathAnchor(segs, from).first <= Len(segs)
    /\ Len(segs) # 1
    /\ LastKey(t, segs, from, ns) \in Key
    /\ t[LastKey(t, segs, from, ns)].source # "Absent"
    /\ ~VisAccessible(t[LastKey(t, segs, from, ns)].vis, from)

Leaks(t, u) == ~LeafAt(u).glob /\ \E ns \in NS : Peeks(t, Checked(LeafAt(u)), ModOf(u), ns)

LEMMA PeeksGrows ==
    ASSUME NEW t, NEW t2, Honest(t), Grows(t, t2), NEW segs \in Seq(Segment), NEW from, NEW ns,
           Peeks(t, segs, from, ns)
    PROVE  Peeks(t2, segs, from, ns)
  <1>1. PICK last : last = Len(segs) /\ last \in 1 .. Len(segs)
    BY AnchorType DEF Peeks
  <1>2. Walk(t, segs, from)[last] \in ModuleId
    BY <1>1 DEF Peeks, LastKey, Key
  <1>3. Walk(t, segs, from)[last] # NoModule
    BY <1>2, BoundsAssumption DEF ModuleId
  <1>4. Walk(t2, segs, from)[last] = Walk(t, segs, from)[last]
    BY <1>1, <1>3, WalkGrows
  <1> QED
    BY <1>1, <1>4 DEF Peeks, LastKey, Grows

(* What a module may know of a binding it can see.                         *)
LEMMA SeenIsKnown ==
    ASSUME Ascending, NEW t, Sound(t), Knows(t), NEW k \in Key, t[k].source # "Absent",
           NEW m \in ModuleId, VisAccessible(t[k].vis, m)
    PROVE  MayKnow(m, t[k].def)
  <1>1. k[1] \in ModuleId /\ k[1] # Public /\ MayKnow(k[1], t[k].def)
    BY BoundsAssumption DEF Key, ModuleId, Knows
  <1>2. t[k].source \in {"Def", "Glob", "Import"}
    BY DEF Sound, Binding
  <1>3. CASE t[k].source = "Def"
    BY <1>3 DEF Sound, Dated, MayKnow
  <1>4. CASE t[k].source \in {"Glob", "Import"}
    <2>1. t[k].vis = k[1]
      BY <1>4 DEF Sound, Dated
    <2>2. IsWithin(m, k[1])
      BY <1>1, <2>1 DEF VisAccessible
    <2> QED
      BY <1>1, <2>2, WithinWithin DEF MayKnow, VisAccessible
  <1> QED
    BY <1>2, <1>3, <1>4

(* A path whose last name is bound is anchored in the module itself, when  *)
(* that name is all of the path.                                           *)
LEMMA OneSegment ==
    ASSUME NEW t, NEW segs \in Seq(Segment), NEW from, Len(segs) = 1,
           PathAnchor(segs, from).first <= 1
    PROVE  Walk(t, segs, from)[1] = from
  <1>1. PathAnchor(segs, from).first \in Nat \ {0}
    BY AnchorType
  <1>2. PathAnchor(segs, from).first = 1
    BY <1>1
  <1>3. PathAnchor(segs, from).mod = Up(from, Supers(segs)) /\ Supers(segs) + 1 = 1
    BY <1>2 DEF PathAnchor
  <1>4. Supers(segs) \in Nat
    BY SupersType
  <1>5. PathAnchor(segs, from).mod = from
    <2>1. Supers(segs) = 0
      BY <1>3, <1>4
    <2> QED
      BY <1>3, <2>1, UpIs
  <1>6. 1 \in 1 .. Len(segs) /\ 1 <= PathAnchor(segs, from).first
    BY <1>2
  <1> QED
    BY <1>5, <1>6, WalkIs

(* A path leads a module to what it may know, unless it peeks.             *)
LEMMA PathKnown ==
    ASSUME Ascending, NEW t, Sound(t), Knows(t), NEW segs \in Seq(Segment),
           NEW m \in ModuleId, NEW ns, ResolvePath(t, segs, m, ns) \in DefId,
           ~Peeks(t, segs, m, ns)
    PROVE  MayKnow(m, ResolvePath(t, segs, m, ns))
  <1>1. PICK last : last = Len(segs) /\ last \in Nat
    OBVIOUS
  <1>2. PathAnchor(segs, m).first <= last
    BY <1>1, NoDefIsNoDef, AnchorType DEF ResolvePath
  <1>3. PICK k : k = LastKey(t, segs, m, ns)
    OBVIOUS
  <1>4. ResolvePath(t, segs, m, ns) = Lookup(t, k[1], k[2], k[3]).def
    BY <1>3, NoDefIsNoDef DEF ResolvePath, LastKey
  <1>5. k = <<k[1], k[2], k[3]>>
    BY <1>3 DEF LastKey
  <1>6. k \in Key /\ ResolvePath(t, segs, m, ns) = t[k].def
    BY <1>4, <1>5, NoDefIsNoDef DEF Lookup, Absent
  <1>7. t[k].source # "Absent"
    BY <1>6, NoDefIsNoDef DEF Sound, Honest
  <1>8. CASE last = 1
    <2>1. Walk(t, segs, m)[1] = m
      BY <1>1, <1>2, <1>8, OneSegment
    <2>2. k[1] = m
      BY <1>1, <1>3, <1>8, <2>1 DEF LastKey
    <2> QED
      BY <1>6, <1>7, <2>2 DEF Knows
  <1>9. CASE last # 1
    <2>1. VisAccessible(t[k].vis, m)
      BY <1>1, <1>2, <1>3, <1>6, <1>7, <1>9 DEF Peeks
    <2> QED
      BY <1>6, <1>7, <2>1, SeenIsKnown
  <1> QED
    BY <1>8, <1>9

SourceOf(u) == IF LeafAt(u).glob THEN "Glob" ELSE "Import"

(* Leaf u binds names of its module that were bound to nothing.            *)
Adds(t, t2, u) ==
    \A k \in Key :
        \/ t2[k] = t[k]
        \/ /\ k[1] = ModOf(u)
           /\ t[k].source = "Absent"
           /\ t2[k].def \in DefId /\ t2[k].vis = k[1] /\ t2[k].source = SourceOf(u)

LEMMA AddsSound ==
    ASSUME NEW t, NEW t2 \in [Key -> Binding], NEW u \in UseLeaves, Sound(t), Adds(t, t2, u)
    PROVE  Sound(t2) /\ Grows(t, t2)
  <1>1. Grows(t, t2)
    BY DEF Adds, Grows
  <1>2. Writes(ModOf(u), SourceOf(u) = "Glob")
    <2>1. LeafAt(u).glob <=> (SourceOf(u) = "Glob")
      BY DEF SourceOf
    <2> QED
      BY <2>1, Zenon DEF Writes
  <1>3. SourceOf(u) \in {"Glob", "Import"}
    BY DEF SourceOf
  <1>4. Honest(t2)
    BY <1>3 DEF Sound, Honest, Adds
  <1>5. Dated(t2)
    BY <1>2, <1>3 DEF Sound, Dated, Adds
  <1> QED
    BY <1>1, <1>4, <1>5 DEF Sound

(* Binding b is what t has at k, or leaf u binds def d there.              *)
Arrives(t, k, d, u, b) ==
    \/ b = t[k]
    \/ /\ t[k].source = "Absent" /\ d \in DefId
       /\ b.def = d /\ b.vis = k[1] /\ b.source = SourceOf(u)

(* Inserting at a name of the leaf's module adds, in a plain crate.        *)
LEMMA InsertAdds ==
    ASSUME Plain, NEW t, Sound(t), NEW u \in UseLeaves, useVis = ModOf(u),
           NEW k \in Key, k[1] = ModOf(u), NEW d, NEW b, b = Inserted(t[k], d, SourceOf(u))
    PROVE  Arrives(t, k, d, u, b)
  <1> USE DEF Arrives
  <1>1. CASE t[k].source = "Absent"
    BY <1>1 DEF Inserted
  <1>2. CASE t[k].source = "Glob" /\ SourceOf(u) = "Import"
    <2>1. ~LeafAt(u).glob
      BY <1>2 DEF SourceOf
    <2>2. Writes(k[1], t[k].source = "Glob")
      BY <1>2 DEF Sound, Dated
    <2>3. PICK v \in UseLeaves : ModOf(v) = ModOf(u) /\ LeafAt(v).glob
      BY <1>2, <2>2, Zenon DEF Writes
    <2>4. Overtaken(u)
      BY <2>1, <2>3 DEF Overtaken
    <2> QED
      BY <2>4 DEF Plain
  <1>3. CASE t[k].source # "Absent" /\ ~(t[k].source = "Glob" /\ SourceOf(u) = "Import")
    BY <1>3 DEF Inserted
  <1> QED
    BY <1>1, <1>2, <1>3

----------------------------------------------------------------------------
(* One leaf.                                                               *)

LEMMA FrontType ==
    ASSUME NEW segs \in Seq(Segment), segs # <<>>
    PROVE  Front(segs) \in Seq(Segment)
  BY DEF Front

LEMMA LeafTyped ==
    ASSUME crate \in Crates, NEW u \in UseLeaves
    PROVE  /\ LeafAt(u) \in Leaf /\ ModOf(u) \in ModuleId
           /\ LeafAt(u).segs \in Seq(Segment) /\ Checked(LeafAt(u)) \in Seq(Segment)
  <1>1. PICK i \in 1 .. Len(crate) : crate[i].kind = "use" /\ u \in {i} \X (1 .. Len(crate[i].leaves))
    BY DEF UseLeaves
  <1>2. crate[i] \in Item /\ u[1] = i /\ u[2] \in 1 .. Len(crate[i].leaves)
    BY <1>1, CrateItems
  <1>3. LeafAt(u) \in Leaf /\ ModOf(u) \in ModuleId
    BY <1>2 DEF LeafAt, ModOf, Item
  <1>4. LeafAt(u).segs \in Seq(Segment)
    BY <1>3 DEF Leaf
  <1> QED
    BY <1>3, <1>4, FrontType DEF Checked, TrailingSelf

LEMMA LeaksGrows ==
    ASSUME crate \in Crates, NEW t, NEW t2, Honest(t), Grows(t, t2),
           NEW u \in UseLeaves, Leaks(t, u)
    PROVE  Leaks(t2, u)
  <1>1. PICK segs, m, ns : /\ segs = Checked(LeafAt(u)) /\ m = ModOf(u) /\ ns \in NS
                           /\ Peeks(t, segs, m, ns)
    BY DEF Leaks
  <1>2. segs \in Seq(Segment)
    BY <1>1, LeafTyped
  <1>3. Peeks(t2, segs, m, ns)
    BY <1>1, <1>2, PeeksGrows
  <1> QED
    BY <1>1, <1>3 DEF Leaks

Inserts(t, t2, k, d) ==
    \A j \in Key : t2[j] = t[j] \/ (j = k /\ d \in DefId /\ t2[j].def = d)

(* An explicit leaf inserts at one key. *)
LEMMA ImportAdds ==
    ASSUME TypeInv, Plain, NEW t, Sound(t), NEW u \in UseLeaves, ~LeafAt(u).glob,
           useVis = ModOf(u), NEW k \in Key, k[1] = ModOf(u), NEW d, NEW t2,
           t2 = [t EXCEPT ![k] = Inserted(@, d, "Import")]
    PROVE  /\ t2 \in [Key -> Binding] /\ Adds(t, t2, u)
           /\ Inserts(t, t2, k, d)
  <1>1. SourceOf(u) = "Import" /\ t \in [Key -> Binding] /\ useVis \in Scope
    BY DEF SourceOf, Sound, TypeInv, TypeOK
  <1>2. PICK b : b = Inserted(t[k], d, "Import")
    OBVIOUS
  <1>3. Arrives(t, k, d, u, b)
    <2>1. b = Inserted(t[k], d, SourceOf(u))
      BY <1>1, <1>2
    <2> QED
      BY <2>1, InsertAdds
  <1>4. b \in Binding
    BY <1>1, <1>2, InsertedType
  <1>5. t2 = [t EXCEPT ![k] = b]
    BY <1>1, <1>2
  <1> QED
    BY <1>1, <1>3, <1>4, <1>5 DEF Adds, Arrives, Inserts

(* What it inserts its module may know, or it leaks. *)
LEMMA ImportKnows ==
    ASSUME TypeInv, Plain, Ascending, NEW t, Sound(t), Knows(t), NEW u \in UseLeaves,
           ~LeafAt(u).glob, useVis = ModOf(u), NEW k \in Key, k[1] = ModOf(u), NEW t2,
           t2 = [t EXCEPT ![k] =
                    Inserted(@, ResolvePath(t, Checked(LeafAt(u)), ModOf(u), k[3]), "Import")]
    PROVE  Knows(t2) \/ Leaks(t, u)
  <1>1. PICK segs, m, ns, d : /\ segs = Checked(LeafAt(u)) /\ m = ModOf(u) /\ ns = k[3]
                              /\ d = ResolvePath(t, segs, m, ns)
    OBVIOUS
  <1>2. segs \in Seq(Segment) /\ m \in ModuleId /\ ns \in NS
    BY <1>1, LeafTyped DEF TypeInv, Key
  <1>3. Inserts(t, t2, k, d)
    <2>1. t2 = [t EXCEPT ![k] = Inserted(@, d, "Import")]
      BY <1>1
    <2> QED
      BY <2>1, ImportAdds
  <1>4. CASE Peeks(t, segs, m, ns)
    BY <1>1, <1>2, <1>4 DEF Leaks
  <1>5. CASE ~Peeks(t, segs, m, ns)
    <2>1. d \in DefId => MayKnow(m, d)
      BY <1>1, <1>2, <1>5, PathKnown
    <2> QED
      BY <1>1, <1>3, <2>1 DEF Knows, Inserts
  <1> QED
    BY <1>4, <1>5

(* Table t2 is t after the glob u of `target`. *)
ByGlob(t, t2, target, u) ==
    t2 = [k \in Key |-> IF GlobBrings(target, ModOf(u), k)
                        THEN Inserted(t[k], t[<<target, k[2], k[3]>>].def, "Glob")
                        ELSE t[k]]

(* A glob brings what it sees. *)
LEMMA GlobKnows ==
    ASSUME TypeInv, Plain, Ascending, NEW t, Sound(t), NEW u \in UseLeaves,
           LeafAt(u).glob, useVis = ModOf(u), NEW target, NEW t2,
           t = table, ByGlob(t, t2, target, u)
    PROVE  /\ t2 \in [Key -> Binding] /\ Adds(t, t2, u)
           /\ Knows(t) => Knows(t2)
  <1> USE DEF ByGlob
  <1>1. /\ SourceOf(u) = "Glob" /\ t \in [Key -> Binding] /\ useVis \in Scope
        /\ ModOf(u) \in ModuleId
    BY LeafTyped DEF SourceOf, Sound, TypeInv, TypeOK
  <1>2. ASSUME NEW k \in Key
        PROVE  /\ t2[k] \in Binding
               /\ \/ t2[k] = t[k]
                  \/ /\ GlobBrings(target, ModOf(u), k)
                     /\ t[k].source = "Absent" /\ t[<<target, k[2], k[3]>>].def \in DefId
                     /\ t2[k].def = t[<<target, k[2], k[3]>>].def
                     /\ t2[k].vis = k[1] /\ t2[k].source = SourceOf(u)
    <2>1. CASE ~GlobBrings(target, ModOf(u), k)
      BY <1>1, <2>1
    <2>2. CASE GlobBrings(target, ModOf(u), k)
      <3>1. PICK d, b : d = t[<<target, k[2], k[3]>>].def /\ b = Inserted(t[k], d, "Glob")
        OBVIOUS
      <3>2. t2[k] = b /\ k[1] = ModOf(u)
        BY <2>2, <3>1 DEF GlobBrings
      <3>3. Arrives(t, k, d, u, b)
        <4>1. b = Inserted(t[k], d, SourceOf(u))
          BY <1>1, <3>1
        <4> QED
          BY <3>2, <4>1, InsertAdds
      <3>4. b \in Binding
        BY <1>1, <3>1, InsertedType
      <3> QED
        BY <2>2, <3>1, <3>2, <3>3, <3>4 DEF Arrives
    <2> QED
      BY <2>1, <2>2
  <1>3. t2 \in [Key -> Binding]
    <2> DEFINE f(k) == IF GlobBrings(target, ModOf(u), k)
                       THEN Inserted(t[k], t[<<target, k[2], k[3]>>].def, "Glob") ELSE t[k]
    <2>1. t2 = [k \in Key |-> f(k)]
      OBVIOUS
    <2> HIDE DEF f
    <2>2. \A k \in Key : f(k) \in Binding
      BY <1>2, <2>1
    <2> QED
      BY <2>1, <2>2
  <1>4. Adds(t, t2, u)
    BY <1>2 DEF Adds, GlobBrings
  <1>5. ASSUME Knows(t), NEW k \in Key, t2[k].source # "Absent"
        PROVE  MayKnow(k[1], t2[k].def)
    <2>1. CASE t2[k] = t[k]
      BY <1>5, <2>1 DEF Knows
    <2>2. CASE t2[k] # t[k]
      <3>1. PICK j : j = <<target, k[2], k[3]>>
        OBVIOUS
      <3>2. j \in Key /\ t[j].def \in DefId /\ t2[k].def = t[j].def /\ k[1] \in ModuleId
            /\ VisAccessible(t[j].vis, k[1])
        BY <1>2, <2>2, <3>1 DEF GlobBrings, Key
      <3>3. t[j].source # "Absent"
        BY <3>2, NoDefIsNoDef DEF Sound, Honest
      <3> QED
        BY <1>5, <3>2, <3>3, SeenIsKnown
    <2> QED
      BY <2>1, <2>2
  <1> QED
    BY <1>3, <1>4, <1>5 DEF Knows

(* Every def is known where it is bound, or a leaf looks where it may not. *)
Safe(t) == Knows(t) \/ \E u \in UseLeaves : Leaks(t, u)

LEMMA SafeGrows ==
    ASSUME crate \in Crates, NEW t, NEW t2, Honest(t), Grows(t, t2), Safe(t),
           Knows(t) => Safe(t2)
    PROVE  Safe(t2)
  <1>1. CASE Knows(t)
    BY <1>1
  <1>2. CASE \E u \in UseLeaves : Leaks(t, u)
    <2>1. PICK u \in UseLeaves : Leaks(t, u)
      BY <1>2
    <2>2. Leaks(t2, u)
      BY <2>1, LeaksGrows
    <2> QED
      BY <2>1, <2>2 DEF Safe
  <1> QED
    BY <1>1, <1>2 DEF Safe

LEMMA ExplicitSafe ==
    ASSUME TypeInv, Plain, Ascending, NEW t, Sound(t), Safe(t), NEW u \in UseLeaves,
           ~LeafAt(u).glob, useVis = ModOf(u), NEW k \in Key, k[1] = ModOf(u), NEW t2,
           t2 = [t EXCEPT ![k] =
                    Inserted(@, ResolvePath(t, Checked(LeafAt(u)), ModOf(u), k[3]), "Import")]
    PROVE  Sound(t2) /\ Safe(t2)
  <1>1. PICK d : d = ResolvePath(t, Checked(LeafAt(u)), ModOf(u), k[3])
    OBVIOUS
  <1>2. t2 = [t EXCEPT ![k] = Inserted(@, d, "Import")]
    BY <1>1
  <1>3. t2 \in [Key -> Binding] /\ Adds(t, t2, u)
    BY <1>2, ImportAdds
  <1>4. Sound(t2) /\ Grows(t, t2)
    BY <1>3, AddsSound
  <1>5. Knows(t) => Safe(t2)
    <2> SUFFICES ASSUME Knows(t) PROVE Safe(t2)
      OBVIOUS
    <2>1. CASE Knows(t2)
      BY <2>1 DEF Safe
    <2>2. CASE Leaks(t, u)
      <3>1. Leaks(t2, u)
        BY <1>4, <2>2, LeaksGrows DEF Sound, TypeInv
      <3> QED
        BY <3>1 DEF Safe
    <2> QED
      BY <2>1, <2>2, ImportKnows
  <1> QED
    BY <1>4, <1>5, SafeGrows DEF Sound, TypeInv

UsesOK == \A n \in DOMAIN uses : crate[uses[n]].kind = "use"

(* A private `use` binds for its own module.                               *)
VisResolved ==
    phase = "imports" /\ leaf > 0 /\ pos <= Len(uses) /\ CurrentUse.vis.kind = "inherited"
        => useVis = CurrentUse.mod

IsCurrent(u) ==
    /\ u \in UseLeaves /\ LeafAt(u) = CurrentLeaf /\ ModOf(u) = CurrentUse.mod
    /\ useVis = ModOf(u) /\ ModOf(u) \in ModuleId /\ CurrentLeaf.name \in Names

LEMMA CurrentIs ==
    ASSUME DeclInv, UsesOK, VisResolved, Plain, ImportStep, NEW u, u = <<uses[pos], leaf>>
    PROVE  IsCurrent(u)
  <1>1. /\ TypeInv /\ pos \in 1 .. Len(uses) /\ leaf \in 1 .. Len(CurrentUse.leaves)
        /\ phase = "imports" /\ pos \in DOMAIN uses
    BY DEF DeclInv, TypeInv, TypeOK, ImportStep, Importing
  <1>2. /\ CurrentUse \in Item /\ CurrentUse.mod \in ModuleId /\ CurrentLeaf.name \in Names
        /\ uses[pos] \in 1 .. Len(crate) /\ leaf > 0
    BY <1>1, CurrentUseType, CurrentLeafType
  <1>3. PICK i : i = uses[pos]
    OBVIOUS
  <1>4. i \in 1 .. Len(crate) /\ crate[i].kind = "use" /\ u \in {i} \X (1 .. Len(crate[i].leaves))
    BY <1>1, <1>2, <1>3 DEF UsesOK, CurrentUse
  <1>5. u \in UseLeaves
    BY <1>4 DEF UseLeaves
  <1>6. LeafAt(u) = CurrentLeaf /\ ModOf(u) = CurrentUse.mod /\ u[1] = uses[pos]
    BY DEF LeafAt, ModOf, CurrentLeaf, CurrentUse
  <1>7. CurrentUse.vis.kind = "inherited"
    BY <1>5, <1>6 DEF Plain, Exported, CurrentUse
  <1> QED
    BY <1>1, <1>2, <1>5, <1>6, <1>7 DEF VisResolved, IsCurrent

LEMMA ImportsPrivate ==
    ASSUME DeclInv, Ascending, UsesOK, VisResolved, Plain, Sound(table), Safe(table),
           ImportLeaf \/ ImportSelf \/ ImportGlob, NEW t2, t2 = table'
    PROVE  Sound(t2) /\ Safe(t2)
  <1>1. PICK u : u = <<uses[pos], leaf>>
    OBVIOUS
  <1>2. ImportStep /\ TypeInv
    BY DEF ImportLeaf, ImportSelf, ImportGlob, DeclInv
  <1>3. IsCurrent(u)
    BY <1>1, <1>2, CurrentIs
  <1>4. PICK segs, m, name : segs = Checked(LeafAt(u)) /\ m = ModOf(u) /\ name = CurrentLeaf.name
    OBVIOUS
  <1>5. u \in UseLeaves /\ useVis = m /\ m \in ModuleId /\ name \in Names
    BY <1>3, <1>4 DEF IsCurrent
  <1>6. PICK j, k : j = <<m, name, "Module">> /\ k = <<m, name, "Item">>
    OBVIOUS
  <1>7. /\ j \in Key /\ j[1] = ModOf(u) /\ j[3] = "Module"
        /\ k \in Key /\ k[1] = ModOf(u) /\ k[3] = "Item"
    BY <1>4, <1>5, <1>6 DEF Key, NS
  <1>8. CASE ImportLeaf
    <2>1. ~LeafAt(u).glob /\ segs = CurrentLeaf.segs /\ CurrentUse.mod = m
      BY <1>3, <1>4, <1>8 DEF ImportLeaf, IsCurrent, Checked
    <2>2. PICK t1 : t1 = [table EXCEPT ![j] = Inserted(@, ResolvePath(table, segs, m, "Module"), "Import")]
      OBVIOUS
    <2>3. t2 = [t1 EXCEPT ![k] = Inserted(@, ResolvePath(t1, segs, m, "Item"), "Import")]
      BY <1>4, <1>6, <1>8, <2>1, <2>2 DEF ImportLeaf, Apply
    <2>4. Sound(t1) /\ Safe(t1)
      <3>1. t1 = [table EXCEPT ![j] =
                    Inserted(@, ResolvePath(table, Checked(LeafAt(u)), ModOf(u), j[3]), "Import")]
        BY <1>4, <1>7, <2>2
      <3>2. PICK t : t = table
        OBVIOUS
      <3>3. t1 = [t EXCEPT ![j] =
                    Inserted(@, ResolvePath(t, Checked(LeafAt(u)), ModOf(u), j[3]), "Import")]
        BY <3>1, <3>2
      <3> QED
        BY <1>2, <1>4, <1>5, <1>7, <2>1, <3>2, <3>3, ExplicitSafe
    <2> QED
      <3>1. t2 = [t1 EXCEPT ![k] =
                    Inserted(@, ResolvePath(t1, Checked(LeafAt(u)), ModOf(u), k[3]), "Import")]
        BY <1>4, <1>7, <2>3
      <3> QED
        BY <1>2, <1>4, <1>5, <1>7, <2>1, <2>4, <3>1, ExplicitSafe
  <1>9. CASE ImportSelf
    <2>1. ~LeafAt(u).glob /\ segs = Front(CurrentLeaf.segs) /\ CurrentUse.mod = m
      BY <1>3, <1>4, <1>9 DEF ImportSelf, IsCurrent, Checked
    <2>2. t2 = [table EXCEPT ![j] = Inserted(@, ResolvePath(table, segs, m, "Module"), "Import")]
      BY <1>4, <1>6, <1>9, <2>1 DEF ImportSelf, Apply
    <2>3. PICK t : t = table
      OBVIOUS
    <2>4. t2 = [t EXCEPT ![j] =
                  Inserted(@, ResolvePath(t, Checked(LeafAt(u)), ModOf(u), j[3]), "Import")]
      BY <1>4, <1>7, <2>2, <2>3
    <2>5. Sound(t) /\ Safe(t) /\ useVis = ModOf(u)
      BY <1>4, <1>5, <2>3
    <2> QED
      BY <1>2, <1>5, <1>7, <2>1, <2>4, <2>5, ExplicitSafe
  <1>10. CASE ImportGlob
    <2>1. LeafAt(u).glob /\ CurrentUse.mod = m
      BY <1>3, <1>4, <1>10 DEF ImportGlob, IsCurrent
    <2>2. PICK target : target = ResolvePathToModule(table, CurrentLeaf.segs, m)
      OBVIOUS
    <2>3. t2 = [i \in Key |-> IF GlobBrings(target, m, i)
                              THEN Inserted(table[i], table[<<target, i[2], i[3]>>].def, "Glob")
                              ELSE table[i]]
      BY <1>10, <2>1, <2>2 DEF ImportGlob, Apply
    <2>4. PICK t : t = table
      OBVIOUS
    <2>5. ByGlob(t, t2, target, u)
      BY <1>4, <2>3, <2>4 DEF ByGlob
    <2>6. t2 \in [Key -> Binding] /\ Adds(t, t2, u) /\ (Knows(t) => Knows(t2))
      <3>1. Sound(t) /\ useVis = ModOf(u)
        BY <1>4, <1>5, <2>4
      <3> QED
        BY <1>2, <1>5, <2>1, <2>4, <2>5, <3>1, GlobKnows
    <2>7. Sound(t2) /\ Grows(t, t2)
      BY <1>5, <2>4, <2>6, AddsSound
    <2>8. Knows(t) => Safe(t2)
      BY <2>6 DEF Safe
    <2> QED
      BY <1>2, <2>4, <2>7, <2>8, SafeGrows DEF Sound, TypeInv
  <1> QED
    BY <1>8, <1>9, <1>10

----------------------------------------------------------------------------
(* The tree ascends: a module is opened after the one it is written in.    *)

Opened(n) == {j \in 1 .. n : crate[j].kind = "mod"}

LEMMA OpenedAdds ==
    ASSUME crate \in Crates, NEW i \in 1 .. Len(crate)
    PROVE  /\ Cardinality(Opened(i - 1)) \in Nat
           /\ Cardinality(Opened(i)) = IF crate[i].kind = "mod" THEN Cardinality(Opened(i - 1)) + 1
                                       ELSE Cardinality(Opened(i - 1))
           /\ crate[i].mod <= Cardinality(Opened(i - 1))
  <1>1. Len(crate) \in Nat
    BY CrateItems
  <1>2. PICK o : o = Opened(i - 1)
    OBVIOUS
  <1>3. IsFiniteSet(o) /\ Cardinality(o) \in Nat
    <2>1. IsFiniteSet(1 .. (i - 1))
      BY <1>1, FS_Interval
    <2>2. o \subseteq 1 .. (i - 1)
      BY <1>2 DEF Opened
    <2>3. IsFiniteSet(o)
      BY <2>1, <2>2, FS_Subset
    <2> QED
      BY <2>3, FS_CardinalityType
  <1>4. i \notin o
    BY <1>1, <1>2 DEF Opened
  <1>5. Opened(i) = IF crate[i].kind = "mod" THEN o \cup {i} ELSE o
    BY <1>1, <1>2 DEF Opened
  <1>6. Cardinality(o \cup {i}) = Cardinality(o) + 1
    BY <1>3, <1>4, FS_AddElement
  <1>7. crate[i].mod <= Cardinality(o)
    BY <1>2, CratesAssumption DEF Opened
  <1> QED
    BY <1>2, <1>3, <1>5, <1>6, <1>7

TreeInv ==
    /\ Ascending
    /\ phase = "collect" => nextModule = 1 + Cardinality(Opened(pos - 1))

LEMMA TreeStep ==
    ASSUME TypeInv, TypeInv', TreeInv, [Next]_vars
    PROVE  TreeInv'
  <1>1. /\ parent' \in [ModuleId -> ModuleId \cup {NoModule}]
        /\ parent \in [ModuleId -> ModuleId \cup {NoModule}]
        /\ pos \in Nat \ {0} /\ crate' = crate
    BY CrateStays DEF TypeInv, TypeOK
  <1>2. Opened(pos)' = {j \in 1 .. pos' : crate[j].kind = "mod"}
    BY <1>1 DEF Opened
  <1>3. ASSUME NEW kinds, Collecting(kinds)
        PROVE  /\ pos' = pos + 1 /\ pos' - 1 = pos
               /\ Opened(pos - 1)' = Opened(pos)
               /\ pos \in 1 .. Len(crate) /\ phase = "collect"
    <2>1. pos' = pos + 1 /\ pos \in 1 .. Len(crate) /\ phase = "collect"
      BY <1>1, <1>3, CrateItems DEF Collecting, TypeInv
    <2>2. pos' - 1 = pos
      BY <1>1, <2>1
    <2> QED
      BY <1>1, <2>1, <2>2 DEF Opened
  <1>4. CASE CollectItem \/ DeclareAdt \/ CollectUse
    <2>1. PICK kinds : Collecting(kinds) /\ "mod" \notin kinds
      BY <1>4 DEF CollectItem, DeclareAdt, CollectUse
    <2>2. UNCHANGED tree /\ crate[pos].kind # "mod"
      BY <1>4, <2>1 DEF CollectItem, DeclareAdt, CollectUse, Collecting
    <2>3. Cardinality(Opened(pos)) = Cardinality(Opened(pos - 1))
      BY <1>3, <2>1, <2>2, OpenedAdds DEF TypeInv
    <2> QED
      <3>1. nextModule' = 1 + Cardinality(Opened(pos - 1)')
        BY <1>3, <2>1, <2>2, <2>3 DEF TreeInv, tree
      <3> QED
        BY <2>2, <3>1 DEF TreeInv, Ascending, tree
  <1>5. CASE CollectMod
    <2>1. Collecting({"mod"}) /\ crate[pos].kind = "mod"
      BY <1>5 DEF CollectMod, Collecting
    <2>2. /\ parent' = [parent EXCEPT ![nextModule] = crate[pos].mod]
          /\ nextModule' = nextModule + 1
      BY <1>5 DEF CollectMod
    <2>3. PICK c : c = Cardinality(Opened(pos - 1))
      OBVIOUS
    <2>4. /\ c \in Nat /\ Cardinality(Opened(pos)) = c + 1 /\ crate[pos].mod <= c
          /\ nextModule = 1 + c /\ crate[pos].mod \in ModuleId
      BY <1>3, <2>1, <2>3, OpenedAdds, TypeCollect DEF TypeInv, TreeInv
    <2>5. crate[pos].mod < nextModule
      BY <2>4, BoundsAssumption DEF ModuleId
    <2>6. Ascending'
      BY <1>1, <2>2, <2>5 DEF TreeInv, Ascending
    <2>7. nextModule' = 1 + Cardinality(Opened(pos - 1)')
      BY <1>3, <2>1, <2>2, <2>4
    <2> QED
      BY <2>6, <2>7 DEF TreeInv
  <1>6. CASE UNCHANGED vars
    BY <1>6 DEF vars, tree, TreeInv, Ascending, Opened
  <1>7. CASE ~(CollectItem \/ DeclareAdt \/ CollectUse \/ CollectMod) /\ Next
    <2>1. UNCHANGED tree /\ (phase' # "collect" \/ UNCHANGED vars)
      BY <1>7 DEF Next, EndCollect, ResolvePending, EndPending, BeginUse, ImportLeaf, ImportSelf,
         ImportGlob, ImportStep, Importing, EndUse, EndPass, CheckLeaf, EndCheckUse, EndCheck,
         Terminated, vars, tree
    <2> QED
      BY <1>6, <2>1 DEF TreeInv, Ascending, tree
  <1> QED
    BY <1>4, <1>5, <1>6, <1>7 DEF Next

LEMMA UsesOKStep ==
    ASSUME TypeInv, UsesOK, [Next]_vars
    PROVE  UsesOK'
  <1>1. crate' = crate /\ uses \in Seq(1 .. Len(crate))
    BY CrateStays DEF TypeInv, TypeOK
  <1>2. CASE CollectUse
    <2>1. uses' = Append(uses, pos) /\ crate[pos].kind = "use"
      BY <1>2 DEF CollectUse, Collecting
    <2>2. \A n \in DOMAIN uses' : (n \in DOMAIN uses /\ uses'[n] = uses[n]) \/ uses'[n] = pos
      BY <1>1, <2>1
    <2> QED
      BY <1>1, <2>1, <2>2 DEF UsesOK
  <1>3. CASE ~CollectUse
    <2>1. uses' = uses
      BY <1>3 DEF Next, CollectItem, DeclareAdt, CollectMod, Collecting, EndCollect,
         ResolvePending, EndPending, BeginUse, ImportLeaf, ImportSelf, ImportGlob, ImportStep,
         Importing, EndUse, EndPass, CheckLeaf, EndCheckUse, EndCheck, Terminated, vars
    <2> QED
      BY <1>1, <2>1 DEF UsesOK
  <1> QED
    BY <1>2, <1>3

LEMMA VisStep ==
    ASSUME TypeInv, AtRest, VisResolved, [Next]_vars
    PROVE  VisResolved'
  <1>1. crate' = crate /\ (phase # "collect" => uses' = uses) /\ leaf \in Nat
    BY CrateStays DEF TypeInv, TypeOK
  <1>2. CASE BeginUse
    <2>1. useVis' = ResolveVisibility(CurrentUse.vis, CurrentUse.mod) /\ pos' = pos /\ uses' = uses
      BY <1>2 DEF BeginUse, Importing
    <2>2. CurrentUse' = CurrentUse
      BY <1>1, <2>1 DEF CurrentUse
    <2>3. CurrentUse.vis.kind = "inherited" => useVis' = CurrentUse.mod
      BY <2>1 DEF ResolveVisibility
    <2> QED
      BY <2>2, <2>3 DEF VisResolved
  <1>3. CASE ImportLeaf \/ ImportSelf \/ ImportGlob
    <2>1. /\ phase = "imports" /\ pos' = pos /\ uses' = uses /\ useVis' = useVis
          /\ leaf \in 1 .. Len(CurrentUse.leaves) /\ pos <= Len(uses)
      BY <1>3 DEF ImportLeaf, ImportSelf, ImportGlob, ImportStep, Importing
    <2>2. CurrentUse' = CurrentUse /\ leaf > 0
      BY <1>1, <2>1 DEF CurrentUse
    <2> QED
      BY <2>1, <2>2 DEF VisResolved
  <1>4. CASE EndUse
    BY <1>4 DEF EndUse, VisResolved
  <1>5. CASE UNCHANGED vars
    BY <1>1, <1>5 DEF vars, VisResolved, CurrentUse
  <1>6. CASE ~(BeginUse \/ ImportLeaf \/ ImportSelf \/ ImportGlob \/ EndUse) /\ Next
    <2>1. phase' # "imports" \/ leaf' = 0 \/ UNCHANGED vars
      BY <1>6 DEF Next, CollectItem, DeclareAdt, CollectMod, CollectUse, Collecting, EndCollect,
         ResolvePending, EndPending, EndPass, CheckLeaf, EndCheckUse, EndCheck, Terminated, AtRest
    <2> QED
      BY <1>5, <2>1 DEF VisResolved
  <1> QED
    BY <1>2, <1>3, <1>4, <1>5, <1>6 DEF Next

----------------------------------------------------------------------------
(* What is sound and safe stays so.                                        *)

LEMMA RigidKept ==
    ASSUME UNCHANGED <<crate, tree, visibility>>
    PROVE  /\ Plain' <=> Plain
           /\ \A t : (Sound(t)' <=> Sound(t)) /\ (Safe(t)' <=> Safe(t))
  <1>1. crate' = crate /\ parent' = parent /\ moduleOf' = moduleOf /\ visibility' = visibility
    BY DEF tree
  <1>2. UseLeaves' = UseLeaves
    BY <1>1 DEF UseLeaves
  <1>3. \A u : LeafAt(u)' = LeafAt(u) /\ ModOf(u)' = ModOf(u) /\ (Exported(u)' <=> Exported(u))
    BY <1>1 DEF LeafAt, ModOf, Exported
  <1>4. \A u : Overtaken(u)' <=> Overtaken(u)
    BY <1>2, <1>3 DEF Overtaken
  <1>5. Plain' <=> Plain
    BY <1>2, <1>3, <1>4 DEF Plain
  <1>6. \A v, m : (VisAccessible(v, m)' <=> VisAccessible(v, m)) /\ (IsWithin(m, v)' <=> IsWithin(m, v))
    BY <1>1 DEF VisAccessible, IsWithin, Up, ParentOr
  <1>7. \A m, d : MayKnow(m, d)' <=> MayKnow(m, d)
    BY <1>1, <1>6 DEF MayKnow, Home, NameOf, NsOf
  <1>8. \A t : Knows(t)' <=> Knows(t)
    BY <1>7 DEF Knows
  <1>9. \A t, segs, from : /\ Walk(t, segs, from)' = Walk(t, segs, from)
                           /\ PathAnchor(segs, from)' = PathAnchor(segs, from)
    BY <1>1 DEF PathAnchor, Walk, Up, ParentOr
  <1>10. \A t, segs, from, ns : LastKey(t, segs, from, ns)' = LastKey(t, segs, from, ns)
    BY <1>9 DEF LastKey
  <1>11. \A t, segs, from, ns : Peeks(t, segs, from, ns)' <=> Peeks(t, segs, from, ns)
    BY <1>6, <1>9, <1>10 DEF Peeks
  <1>12. \A t, u : Leaks(t, u)' <=> Leaks(t, u)
    BY <1>3, <1>11 DEF Leaks
  <1>13. \A t : Safe(t)' <=> Safe(t)
    BY <1>2, <1>8, <1>12 DEF Safe
  <1>14. \A m, b : Writes(m, b)' <=> Writes(m, b)
    BY <1>2, <1>3 DEF Writes
  <1>15. \A t : Sound(t)' <=> Sound(t)
    <2>1. \A t : Dated(t)' <=> Dated(t)
      BY <1>1, <1>14 DEF Dated
    <2>2. \A t : Honest(t)' <=> Honest(t)
      BY DEF Honest
    <2> QED
      BY <2>1, <2>2 DEF Sound
  <1> QED
    BY <1>5, <1>13, <1>15

(* Before the imports a def is known in the module that declares it.       *)
LEMMA DeclarationsSound ==
    ASSUME DeclInv, phase \in {"collect", "pending"}
    PROVE  Sound(table) /\ Safe(table)
  <1>1. /\ table \in [Key -> Binding] /\ DeclsOK(Declared) /\ NoImports(table) /\ TableOK(table)
        /\ \A k \in Key : table[k].source = "Def" => table[k].vis = visibility[table[k].def]
    BY DEF DeclInv, TypeInv, TypeOK, DeclsOK, Declared
  <1>2. Honest(table)
    BY <1>1 DEF Honest, TableOK
  <1>3. Dated(table)
    BY <1>1 DEF Dated, NoImports
  <1>4. Knows(table)
    <2> SUFFICES ASSUME NEW k \in Key, table[k].source # "Absent"
                 PROVE  MayKnow(k[1], table[k].def)
      BY DEF Knows
    <2>1. k = Home(table[k].def)
      BY <1>1 DEF NoImports, TableOK
    <2> QED
      BY <2>1, WithinSelf DEF MayKnow
  <1> QED
    BY <1>1, <1>2, <1>3, <1>4 DEF Sound, Safe

PrivacySoFar ==
    phase \in {"imports", "check", "done"} /\ Plain => Sound(table) /\ Safe(table)

LEMMA PrivacyStep ==
    ASSUME DeclInv, TreeInv, UsesOK, VisResolved, PrivacySoFar, [Next]_vars
    PROVE  PrivacySoFar'
  <1>1. CASE EndPending
    <2>1. UNCHANGED <<crate, tree, visibility, table>> /\ phase = "pending"
      BY <1>1 DEF EndPending
    <2>2. Sound(table) /\ Safe(table)
      BY <2>1, DeclarationsSound
    <2>3. PICK t : t = table
      OBVIOUS
    <2>4. table' = t /\ Sound(t)' /\ Safe(t)'
      BY <2>1, <2>2, <2>3, RigidKept
    <2> QED
      BY <2>4 DEF PrivacySoFar
  <1>2. CASE ImportLeaf \/ ImportSelf \/ ImportGlob
    <2>1. UNCHANGED <<crate, tree, visibility, phase>> /\ phase = "imports"
      BY <1>2 DEF ImportLeaf, ImportSelf, ImportGlob, ImportStep, Importing
    <2>2. PICK t : t = table'
      OBVIOUS
    <2>3. Plain => Sound(t) /\ Safe(t)
      BY <1>2, <2>1, <2>2, ImportsPrivate DEF PrivacySoFar, TreeInv
    <2>4. Plain' => Sound(t)' /\ Safe(t)'
      BY <2>1, <2>3, RigidKept
    <2> QED
      BY <2>2, <2>4 DEF PrivacySoFar
  <1>3. CASE BeginUse \/ EndUse \/ EndPass \/ CheckLeaf \/ EndCheckUse \/ EndCheck \/ Terminated
             \/ UNCHANGED vars
    <2>1. /\ UNCHANGED <<crate, tree, visibility, table>>
          /\ phase' \in {"imports", "check", "done"} => phase \in {"imports", "check", "done"}
      BY <1>3 DEF BeginUse, EndUse, EndPass, CheckLeaf, EndCheckUse, EndCheck, Terminated,
         Importing, vars, tree
    <2>2. PICK t : t = table
      OBVIOUS
    <2>3. PrivacySoFar /\ table' = t
      BY <2>1, <2>2
    <2>4. (Plain' <=> Plain) /\ (Sound(t)' <=> Sound(t)) /\ (Safe(t)' <=> Safe(t))
      BY <2>1, RigidKept
    <2> QED
      BY <2>1, <2>2, <2>3, <2>4 DEF PrivacySoFar
  <1>4. CASE CollectItem \/ DeclareAdt \/ CollectMod \/ CollectUse \/ EndCollect \/ ResolvePending
    <2>1. phase' \in {"collect", "pending"}
      BY <1>4 DEF CollectItem, DeclareAdt, CollectMod, CollectUse, Collecting, EndCollect,
         ResolvePending
    <2> QED
      BY <2>1 DEF PrivacySoFar
  <1> QED
    BY <1>1, <1>2, <1>3, <1>4 DEF Next

----------------------------------------------------------------------------
(* What leaks is reported, where no name is both a module and an item.     *)

OneKind == \A k \in Key : \E ns \in NS : table[<<k[1], k[2], ns>>] = Absent

LEMMA LeakRefused ==
    ASSUME DeclInv, AbsentsBlank, OneKind, NEW segs \in Seq(Segment), NEW from, NEW ns \in NS,
           Peeks(table, segs, from, ns)
    PROVE  PathAccess(segs, from) = "PrivateImport"
  <1>1. PICK last, k, at : /\ last = Len(segs) /\ k = LastKey(table, segs, from, ns)
                           /\ at = Walk(table, segs, from)
    OBVIOUS
  <1>2. /\ PathAnchor(segs, from).first <= last /\ last # 1 /\ k \in Key
        /\ table[k].source # "Absent" /\ ~VisAccessible(table[k].vis, from)
        /\ k = <<at[last], segs[last], ns>>
    BY <1>1 DEF Peeks, LastKey
  <1>3. TableOK(table) /\ table \in [Key -> Binding]
    BY DEF DeclInv, DeclsOK, Declared, TypeInv, TypeOK
  <1>4. ResolvePath(table, segs, from, ns) \in DefId
    <2>1. ~ PathAnchor(segs, from).first > last
      BY <1>1, <1>2, AnchorType
    <2>2. Lookup(table, at[last], segs[last], ns) = table[k]
      BY <1>2 DEF Lookup
    <2>3. ResolvePath(table, segs, from, ns) = table[k].def
      BY <1>1, <2>1, <2>2 DEF ResolvePath
    <2> QED
      BY <1>2, <1>3, <2>3 DEF TableOK
  <1>5. PathAccess(segs, from) # "UnresolvedImport"
    BY <1>1, <1>2, <1>3, <1>4, UnresolvedNamesNothing
  <1>6. \A b \in Final(at[last], segs[last]) : b = table[k]
    <2> SUFFICES ASSUME NEW s \in NS, Lookup(table, at[last], segs[last], s) # Absent
                 PROVE  Lookup(table, at[last], segs[last], s) = table[k]
      BY DEF Final
    <2>1. PICK s0 \in NS : table[<<k[1], k[2], s0>>] = Absent
      BY <1>2 DEF OneKind
    <2>2. k[1] = at[last] /\ k[2] = segs[last] /\ table[<<k[1], k[2], ns>>] = table[k]
      BY <1>2
    <2>3. s0 # ns
      BY <1>2, <2>1, <2>2 DEF Absent
    <2>4. s # s0
      BY <2>1, <2>2 DEF Lookup
    <2>5. s = ns
      BY <2>3, <2>4 DEF NS
    <2> QED
      BY <1>2, <2>5 DEF Lookup
  <1>7. PathAccess(segs, from) # "ok"
    <2> DEFINE open(i, b) == i = 1 \/ VisAccessible(b.vis, from)
    <2>1. ~ \E b \in Final(at[last], segs[last]) : open(last, b)
      BY <1>2, <1>6
    <2>2. ~ PathAnchor(segs, from).first > last
      BY <1>1, <1>2, AnchorType
    <2> QED
      BY <1>1, <2>1, <2>2 DEF PathAccess
  <1>8. PathAccess(segs, from) \in {"ok", "UnresolvedImport", "PrivateImport"}
    BY DEF PathAccess
  <1> QED
    BY <1>5, <1>7, <1>8

LEMMA LeakReported ==
    ASSUME DeclInv, AbsentsBlank, UsesListed, CheckedSoFar, phase = "done", OneKind,
           NEW u \in UseLeaves, Leaks(table, u)
    PROVE  Reported(u, {"PrivateImport"})
  <1>1. PICK segs, m, ns : /\ segs = Checked(LeafAt(u)) /\ m = ModOf(u) /\ ns \in NS
                           /\ Peeks(table, segs, m, ns)
    BY DEF Leaks
  <1>2. segs \in Seq(Segment) /\ TypeInv
    BY <1>1, LeafTyped DEF DeclInv, TypeInv
  <1>3. PathAccess(segs, m) = "PrivateImport"
    BY <1>1, <1>2, LeakRefused
  <1>4. PICK n \in DOMAIN uses : \E i, l :
              /\ u = <<i, l>> /\ u[1] = i /\ u[2] = l /\ i = uses[n] /\ l \in LeavesOf(i)
              /\ i \in 1 .. Len(crate) /\ crate[i].leaves \in Seq(Leaf)
    BY <1>2, LeafListed
  <1>5. PICK i, l : u[1] = i /\ u[2] = l /\ i = uses[n] /\ l \in LeavesOf(i)
    BY <1>4
  <1>6. Verdict(i, l) = "PrivateImport"
    BY <1>1, <1>3, <1>5 DEF Verdict, LeafAt, ModOf
  <1>7. Verdict(i, l) = "ok" \/ Diag(Verdict(i, l), i, l) \in diags
    BY <1>4, <1>5 DEF CheckedSoFar, ImportsOver
  <1> QED
    BY <1>5, <1>6, <1>7 DEF Reported

LEMMA PrivacyHolds ==
    ASSUME DeclInv, AbsentsBlank, UsesListed, CheckedSoFar, PrivacySoFar
    PROVE  PrivateStaysInside
  <1> SUFFICES ASSUME phase = "done", Plain, OneKind,
                      \A u \in UseLeaves : ~Reported(u, {"PrivateImport"})
               PROVE  Knows(table)
    BY DEF PrivateStaysInside, Plain, OneKind, Knows
  <1>1. Safe(table)
    BY DEF PrivacySoFar
  <1> QED
    BY <1>1, LeakReported DEF Safe

(* Privacy is kept in every crate in which imports re-export nothing, no   *)
(* name is a module and an item and no module has both globs and explicit  *)
(* imports: where no import is diagnosed as private, each def is known     *)
(* only where it may be.                                                   *)
THEOREM PrivacyKept == Spec => []PrivateStaysInside
  <1> DEFINE IInv == /\ DeclInv /\ AbsentsBlank /\ UsesListed /\ AtRest /\ CheckedSoFar
                     /\ TreeInv /\ UsesOK /\ VisResolved /\ PrivacySoFar
  <1>1. Init => IInv
    <2> SUFFICES ASSUME Init PROVE IInv
      OBVIOUS
    <2>1. DeclInv /\ AbsentsBlank /\ UsesListed /\ AtRest /\ CheckedSoFar
      BY DeclInit, UsesInit
    <2>2. UsesOK /\ VisResolved /\ PrivacySoFar
      BY DEF Init, UsesOK, VisResolved, PrivacySoFar
    <2>3. TreeInv
      <3>1. Opened(pos - 1) = {}
        BY DEF Init, Opened
      <3>2. Cardinality({}) = 0
        BY FS_EmptySet
      <3>3. nextModule = 1 + 0 /\ Ascending
        BY BoundsAssumption DEF Init, Ascending, ModuleId
      <3> QED
        BY <3>1, <3>2, <3>3 DEF TreeInv
    <2> QED
      BY <2>1, <2>2, <2>3
  <1>2. IInv /\ [Next]_vars => IInv'
    <2> SUFFICES ASSUME IInv, [Next]_vars PROVE IInv'
      OBVIOUS
    <2>1. DeclInv' /\ AbsentsBlank' /\ UsesListed' /\ AtRest' /\ CheckedSoFar'
      BY DeclStep, BlankStep, ListedStep, RestStep, CheckedStep
    <2>2. TreeInv' /\ UsesOK' /\ VisResolved'
      BY <2>1, TreeStep, UsesOKStep, VisStep DEF DeclInv
    <2>3. PrivacySoFar'
      BY PrivacyStep
    <2> QED
      BY <2>1, <2>2, <2>3
  <1>3. IInv => PrivateStaysInside
    BY PrivacyHolds
  <1> QED
    BY <1>1, <1>2, <1>3, PTL DEF Spec

(* Each def has the visibility its declaration writes and stays within it. *)
THEOREM RestrictionsAreKept == Spec => []RestrictionsKept
  BY RestrictionsLand, PrivacyKept, PTL DEF RestrictionsKept

=============================================================================
