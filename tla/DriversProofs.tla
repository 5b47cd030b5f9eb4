--------------------------- MODULE DriversProofs ---------------------------
(* For bodies of any shape: drives that check_drivers accepts are disjoint, *)
(* what it reports as two drivers is, and what completeness accepts is     *)
(* driven in every element.                                                *)
EXTENDS Drivers, SequenceTheorems, WellFoundedInduction, TLAPS

(* seg_range gives two ranges for two known segments. *)
LEMMA RangesAreNumbers ==
    ASSUME NEW s, Known(s)
    PROVE  Low(s) \in Int /\ High(s) \in Int
  BY SMT DEF Known, Low, High

(* paths_conflict finds every pair of provable places that share an        *)
(* element: at the first segment where they differ both hold its number.   *)
LEMMA SharedElementConflicts ==
    ASSUME NEW p, NEW q, NEW e,
           Provable(p), Provable(q), Hits(p, e), Hits(q, e)
    PROVE  PathsConflict(p, q)
<1> SUFFICES ASSUME NEW i \in DOMAIN p \cap DOMAIN q, p[i] # q[i]
             PROVE  Overlap(p[i], q[i])
  BY DEF PathsConflict
<1>1. Within(p[i], e[i]) /\ Within(q[i], e[i])
  BY DEF Hits
<1>2. p[i].kind # "field" /\ q[i].kind # "field"
  BY <1>1 DEF Within
<1>3. Known(p[i]) /\ Known(q[i])
  BY <1>2 DEF Provable
<1>4. /\ e[i].lo \in Int
      /\ Low(p[i]) <= e[i].lo /\ e[i].lo < High(p[i])
      /\ Low(q[i]) <= e[i].lo /\ e[i].lo < High(q[i])
  BY <1>1, <1>2 DEF Within
<1>5. Low(p[i]) < High(q[i]) /\ Low(q[i]) < High(p[i])
  BY <1>3, <1>4, RangesAreNumbers
<1> QED
  BY <1>3, <1>5 DEF Overlap

----------------------------------------------------------------------------
(* What is counted stays as it is once the walk is over, and the locals    *)
(* before `at` have been checked.                                          *)
Checked ==
    /\ body \in Bodies
    /\ at \in Nat /\ pc \in {"walk", "check", "done"}
    /\ pc = "walk" => at = 1
    /\ pc # "walk" => todo = <<>>
    /\ pc = "done" => at > Len(body.locals)
    /\ \A l \in DOMAIN body.locals :
        l < at => DriverDiags(l) \cup CompletenessDiags(l) \subseteq diags

LEMMA LocalsAreNumbered ==
    ASSUME body \in Bodies
    PROVE  DOMAIN body.locals = 1 .. Len(body.locals) /\ Len(body.locals) \in Nat
  BY BodiesAssumption

LEMMA CheckedAtFirst == Init => Checked
<1> SUFFICES ASSUME Init PROVE Checked
  OBVIOUS
<1>1. \A l \in DOMAIN body.locals : ~(l < at)
  BY LocalsAreNumbered DEF Init
<1> QED
  BY <1>1 DEF Init, Checked

(* A step of the walk changes neither the checks' place nor their results. *)
Walks == CountBlock \/ Equation \/ OtherStmt \/ CollectWhenDrives
            \/ GuardedStmt \/ BindWhen \/ CountExpr

LEMMA DiagsKept ==
    ASSUME UNCHANGED <<body, drives>>
    PROVE  \A l : DriverDiags(l)' = DriverDiags(l) /\ CompletenessDiags(l)' = CompletenessDiags(l)
<1>1. Leaves' = Leaves
  BY DEF Leaves
<1>2. \A l : Missing(l)' = Missing(l)
  <2> PICK D, B, L : D = drives /\ D = drives' /\ B = body /\ B = body' /\ L = Leaves /\ L = Leaves'
    BY <1>1
  <2> QED
    BY DEF Missing
<1>3. \A l : Conflicting(l)' = Conflicting(l)
  BY DEF Conflicting
<1>4. \A l : DriverDiags(l)' = DriverDiags(l)
  BY <1>3 DEF DriverDiags
<1>5. \A l : CompletenessDiags(l)' = CompletenessDiags(l)
  BY <1>2 DEF CompletenessDiags
<1> QED
  BY <1>4, <1>5

LEMMA CheckedKept == Checked /\ [Next]_vars => Checked'
<1> SUFFICES ASSUME Checked, [Next]_vars PROVE Checked'
  OBVIOUS
<1>1. CASE Walks
  <2>1. todo # <<>> /\ UNCHANGED <<body, pc, at, diags>>
    BY <1>1 DEF Walks, CountBlock, Equation, AtStmt, OtherStmt, CollectWhenDrives,
                GuardedStmt, BindWhen, CountExpr
  <2>2. pc = "walk" /\ at = 1
    BY <2>1 DEF Checked
  <2>3. \A l \in DOMAIN body.locals : ~(l < at)
    BY <2>2, LocalsAreNumbered DEF Checked
  <2> QED
    BY <2>1, <2>2, <2>3 DEF Checked
<1>2. CASE Counted
  BY <1>2, DiagsKept DEF Counted, Checked
<1>3. CASE CheckLocal
  <2>1. /\ UNCHANGED <<body, todo, drives, pc>> /\ at' = at + 1 /\ diags \subseteq diags'
        /\ DriverDiags(at) \cup CompletenessDiags(at) \subseteq diags' /\ pc = "check"
    BY <1>3 DEF CheckLocal
  <2>2. ASSUME NEW l \in DOMAIN body.locals, l < at + 1
        PROVE  DriverDiags(l) \cup CompletenessDiags(l) \subseteq diags'
    <3>1. CASE l = at
      BY <2>1, <3>1
    <3>2. CASE l # at
      <4>1. l < at
        BY <2>2, <3>2, LocalsAreNumbered DEF Checked
      <4> QED
        BY <4>1, <2>1 DEF Checked
    <3> QED
      BY <3>1, <3>2
  <2>3. \A l : DriverDiags(l)' = DriverDiags(l) /\ CompletenessDiags(l)' = CompletenessDiags(l)
    BY <2>1, DiagsKept
  <2> QED
    BY <2>1, <2>2, <2>3 DEF Checked
<1>4. CASE Done
  <2>1. UNCHANGED <<body, todo, drives, at, diags>> /\ pc' = "done" /\ at > Len(body.locals)
        /\ pc = "check"
    BY <1>4 DEF Done
  <2> QED
    BY <2>1, DiagsKept DEF Checked
<1>5. CASE UNCHANGED vars
  BY <1>5, DiagsKept DEF vars, Checked
<1> QED
  BY <1>1, <1>2, <1>3, <1>4, <1>5 DEF Next, Walks

(* In any body, of any shape and with any types: drives of a local for     *)
(* which check_drivers reports no conflict share no element, as far as     *)
(* their ranges are provable.                                              *)
THEOREM DrivesAreDisjoint == Spec => []NoElementTwice
<1>1. Checked => NoElementTwice
  <2> SUFFICES ASSUME Checked, pc = "done",
                      NEW l \in DOMAIN body.locals,
                      ~body.locals[l].mutable, ~Reported("multiple", l),
                      NEW i \in DOMAIN drives[l], NEW j \in DOMAIN drives[l],
                      i < j, Provable(drives[l][i]), Provable(drives[l][j]),
                      NEW e \in Elements[body.locals[l].ty],
                      Hits(drives[l][i], e), Hits(drives[l][j], e)
               PROVE  FALSE
    BY DEF NoElementTwice
  <2>1. PathsConflict(drives[l][i], drives[l][j])
    BY SharedElementConflicts
  <2>2. Conflicting(l)
    BY <2>1 DEF Conflicting
  <2>3. DriverDiags(l) \subseteq diags
    BY LocalsAreNumbered DEF Checked
  <2>4. [kind |-> "multiple", local |-> l, path |-> <<>>] \in diags
    BY <2>2, <2>3 DEF DriverDiags, Only
  <2> QED
    BY <2>4 DEF Reported
<1> QED
  BY <1>1, CheckedAtFirst, CheckedKept, PTL DEF Spec
----------------------------------------------------------------------------
(* Functions that are defined by recursion along an arena.                 *)

LEMMA LeastNatural ==
    ASSUME NEW T, T \subseteq Nat, T # {}
    PROVE  \E m \in T : \A k \in T : m <= k
<1> DEFINE R == {p \in Nat \X Nat : p[1] < p[2]}
<1>1. IsWellFoundedOn(R, Nat)
  BY NatLessThanWellFounded DEF OpToRel
<1>2. PICK m \in T : \A k \in T : <<k, m>> \notin R
  <2> HIDE DEF R
  <2> QED BY <1>1, WFMin
<1>3. ASSUME NEW k \in T PROVE m <= k
  <2>1. k \in Nat /\ m \in Nat /\ ~ k < m
    BY <1>2
  <2> QED BY <2>1
<1> QED
  BY <1>3

(* F gives a value from those before; g has the values F gives.            *)
Steps(a, n, S, F)  == \A m \in a .. n : F[m] \in [[a .. m - 1 -> S] -> S]
Follows(g, a, n, S, F) ==
    /\ g \in [a .. n -> S]
    /\ \A m \in a .. n : g[m] = F[m][[k \in a .. m - 1 |-> g[k]]]

(* What is said value by value, from those before, is a function.          *)
LEMMA RecursionIsDefined ==
    ASSUME NEW a \in Nat, NEW n \in Nat, NEW S, NEW F, Steps(a, n, S, F)
    PROVE  \E g : Follows(g, a, n, S, F)
<1> USE DEF Steps, Follows
<1> DEFINE Upto(g, b) == /\ g \in [a .. b -> S]
                         /\ \A m \in a .. b : g[m] = F[m][[k \in a .. m - 1 |-> g[k]]]
           T == {j \in Nat : a + j - 1 <= n /\ ~ \E g : Upto(g, a + j - 1)}
<1>1. T = {}
  <2>1. SUFFICES ASSUME T # {} PROVE FALSE
    OBVIOUS
  <2>2. PICK j \in T : \A k \in T : j <= k
    <3>1. T \subseteq Nat
      OBVIOUS
    <3> HIDE DEF T
    <3> QED BY <2>1, <3>1, LeastNatural
  <2>3. j \in Nat /\ a + j - 1 <= n /\ ~ \E g : Upto(g, a + j - 1)
    OBVIOUS
  <2>4. CASE j = 0
    <3>1. \A m \in a .. a - 1 : FALSE
      OBVIOUS
    <3>2. PICK g : g \in [a .. a - 1 -> S]
      <4>1. PICK I : I = a .. a - 1 /\ I = {}
        BY <3>1
      <4>2. [k \in I |-> k] \in [I -> S]
        BY <4>1
      <4> QED
        BY <4>1, <4>2
    <3>3. Upto(g, a - 1)
      BY <3>1, <3>2
    <3>4. a + j - 1 = a - 1
      BY <2>4
    <3> HIDE DEF Upto
    <3> QED
      BY <2>3, <3>3, <3>4
  <2>5. CASE j # 0
    <3>1. PICK b : b = a + j - 1
      OBVIOUS
    <3>2. b \in a .. n /\ b - 1 = a + (j - 1) - 1 /\ j - 1 \in Nat /\ j - 1 \notin T
      BY <2>2, <2>3, <2>5, <3>1
    <3>3. PICK g : Upto(g, b - 1)
      <4>1. PICK i, c : i = j - 1 /\ c = a + i - 1
        OBVIOUS
      <4>2. i \in Nat /\ c = b - 1 /\ i \notin T /\ c <= n
        BY <3>1, <3>2, <4>1
      <4>3. \E g : Upto(g, c)
        <5> HIDE DEF Upto
        <5> QED BY <4>1, <4>2
      <4> QED
        BY <4>2, <4>3
    <3>4. PICK v : v = F[b][g] /\ v \in S
      BY <3>2, <3>3
    <3>5. PICK h : h = [k \in a .. b |-> IF k = b THEN v ELSE g[k]]
      OBVIOUS
    <3>6. h \in [a .. b -> S] /\ h[b] = v /\ \A k \in a .. b - 1 : h[k] = g[k]
      BY <3>2, <3>3, <3>4, <3>5
    <3>7. ASSUME NEW m \in a .. b
          PROVE  h[m] = F[m][[k \in a .. m - 1 |-> h[k]]]
      <4>1. CASE m = b
        <5>1. g = [k \in a .. b - 1 |-> h[k]]
          BY <3>3, <3>6
        <5> QED
          BY <3>4, <3>6, <4>1, <5>1
      <4>2. CASE m # b
        <5>1. m \in a .. b - 1 /\ \A k \in a .. m - 1 : k \in a .. b - 1
          BY <3>2, <4>2
        <5>2. [k \in a .. m - 1 |-> h[k]] = [k \in a .. m - 1 |-> g[k]]
          BY <3>6, <5>1
        <5> QED
          BY <3>3, <3>6, <5>1, <5>2
      <4> QED
        BY <4>1, <4>2
    <3> QED
      BY <2>3, <3>1, <3>6, <3>7
  <2> QED
    BY <2>4, <2>5
<1>2. CASE a <= n + 1
  <2>1. n + 1 - a \in Nat /\ a + (n + 1 - a) - 1 = n
    BY <1>2
  <2>2. \E g : Upto(g, n)
    <3>1. PICK j, b : j = n + 1 - a /\ b = a + j - 1
      OBVIOUS
    <3>2. j \in Nat /\ b = n /\ j \notin T
      BY <1>1, <2>1, <3>1
    <3>3. \E g : Upto(g, b)
      <4> HIDE DEF Upto
      <4> QED BY <3>1, <3>2
    <3> QED
      BY <3>2, <3>3
  <2> QED
    BY <2>2
<1>3. CASE a > n + 1
  <2>1. \A m \in a .. n : FALSE
    BY <1>3
  <2>2. PICK g : g \in [a .. n -> S]
    <3>1. PICK I : I = a .. n /\ I = {}
      BY <2>1
    <3>2. [k \in I |-> k] \in [I -> S]
      BY <3>1
    <3> QED
      BY <3>1, <3>2
  <2> QED
    BY <2>1, <2>2
<1> QED
  BY <1>2, <1>3

(* What holds of a value once it holds of those before holds of all.       *)
LEMMA AlongTheArena ==
    ASSUME NEW a \in Nat, NEW n \in Nat, NEW G,
           \A m \in a .. n : (\A k \in a .. m - 1 : k \in G) => m \in G
    PROVE  \A m \in a .. n : m \in G
<1> DEFINE T == {m \in a .. n : m \notin G}
<1>1. ASSUME T # {} PROVE FALSE
  <2>1. PICK m \in T : \A k \in T : m <= k
    <3>1. T \subseteq Nat
      OBVIOUS
    <3> HIDE DEF T
    <3> QED BY <1>1, <3>1, LeastNatural
  <2>2. \A k \in a .. m - 1 : k \in G
    BY <2>1
  <2> QED
    BY <2>1, <2>2
<1> QED
  BY <1>1
----------------------------------------------------------------------------
(* The elements and the leaves of a type, from those of its parts.         *)

ElementsOfStruct(T, g, t) ==
    UNION {{<<Field(f)>> \o e : e \in g[T[t].of[f]]} : f \in DOMAIN T[t].of}
ElementsOfVec(T, g, t) ==
    UNION {{<<At(k)>> \o e : e \in g[T[t].of[1]]} : k \in 0 .. T[t].len - 1}
Bits(T, t)             == {<<At(k)>> : k \in 0 .. T[t].len - 1}
IsVector(T, t)         == T[t].kind = "vec" \/ (T[t].kind = "part" /\ T[t].len > 0)

ElementsIn(T, g, t) ==
    CASE T[t].kind = "struct" -> ElementsOfStruct(T, g, t)
      [] IsVector(T, t) -> ElementsOfVec(T, g, t)
      [] T[t].kind = "bits" -> Bits(T, t)
      [] OTHER -> {<<>>}

LeavesIn(T, g, t) ==
    [depth \in 0 .. MaxDepth + 1 |->
        IF depth > MaxDepth \/ T[t].kind # "struct" THEN {}
        ELSE UNION {LET subs == g[T[t].of[f]][depth + 1]
                    IN  {<<Field(f)>> \o s : s \in IF subs = {} THEN {<<>>} ELSE subs} :
                    f \in DOMAIN T[t].of}]

TypeTable(T) ==
    /\ T \in Seq(Type)
    /\ \A t \in DOMAIN T :
         /\ \A i \in DOMAIN T[t].of : T[t].of[i] \in 1 .. t - 1
         /\ IsVector(T, t) => T[t].of # <<>>

LEMMA SegmentsAreTyped ==
    /\ \A n \in Nat : Field(n) \in Seg /\ At(n) \in Seg
    /\ Field(1).kind = "field"
  BY DEF Field, At, Seg, End

LEMMA SegmentParts ==
    ASSUME NEW s \in Seg
    PROVE  /\ s = [kind |-> s.kind, lo |-> s.lo, hi |-> s.hi]
           /\ s.kind \in {"field", "at", "range", "offset"}
           /\ s.lo \in End /\ s.hi \in End
           /\ s.kind = "at" => s.lo \in Nat /\ s = At(s.lo)
  BY DEF Seg, Cut, Field, At, End

LEMMA TypesOf ==
    ASSUME body \in Bodies
    PROVE  /\ TypeTable(body.types)
           /\ \A l \in DOMAIN body.locals : body.locals[l].ty \in DOMAIN body.types
  BY BodiesAssumption DEF TypeTable, Refers, IsVector

LEMMA TypeOf ==
    ASSUME NEW T, TypeTable(T), NEW t \in DOMAIN T
    PROVE  /\ T[t] \in Type /\ DOMAIN T = 1 .. Len(T) /\ Len(T) \in Nat /\ t \in Nat \ {0}
           /\ DOMAIN T[t].of = 1 .. Len(T[t].of) /\ T[t].of \in Seq(Nat) /\ T[t].len \in Nat
           /\ \A i \in DOMAIN T[t].of : T[t].of[i] \in 1 .. t - 1 /\ T[t].of[i] \in DOMAIN T
           /\ IsVector(T, t) => 1 \in DOMAIN T[t].of
<1>1. T[t] \in Type /\ DOMAIN T = 1 .. Len(T) /\ Len(T) \in Nat /\ t \in Nat \ {0}
  BY DEF TypeTable
<1>2. T[t].of \in Seq(Nat) /\ T[t].len \in Nat
  BY <1>1 DEF Type
<1> QED
  BY <1>1, <1>2 DEF TypeTable

LEMMA ElementsLocal ==
    ASSUME NEW T, TypeTable(T), NEW t \in DOMAIN T, NEW g, NEW h,
           \A k \in 1 .. t - 1 : g[k] = h[k]
    PROVE  ElementsIn(T, g, t) = ElementsIn(T, h, t)
<1>1. /\ \A f \in DOMAIN T[t].of : g[T[t].of[f]] = h[T[t].of[f]]
      /\ IsVector(T, t) => g[T[t].of[1]] = h[T[t].of[1]]
  BY TypeOf
<1>2. ElementsOfStruct(T, g, t) = ElementsOfStruct(T, h, t)
  <2>1. \A f \in DOMAIN T[t].of : {<<Field(f)>> \o e : e \in g[T[t].of[f]]}
                                  = {<<Field(f)>> \o e : e \in h[T[t].of[f]]}
    BY <1>1
  <2> DEFINE A(f) == {<<Field(f)>> \o e : e \in g[T[t].of[f]]}
             B(f) == {<<Field(f)>> \o e : e \in h[T[t].of[f]]}
  <2>2. \A f \in DOMAIN T[t].of : A(f) = B(f)
    BY <2>1
  <2>3. ElementsOfStruct(T, g, t) = UNION {A(f) : f \in DOMAIN T[t].of}
    BY DEF ElementsOfStruct
  <2>4. ElementsOfStruct(T, h, t) = UNION {B(f) : f \in DOMAIN T[t].of}
    BY DEF ElementsOfStruct
  <2> HIDE DEF A, B
  <2>5. {A(f) : f \in DOMAIN T[t].of} = {B(f) : f \in DOMAIN T[t].of}
    BY <2>2
  <2> QED
    BY <2>3, <2>4, <2>5
<1>3. IsVector(T, t) => ElementsOfVec(T, g, t) = ElementsOfVec(T, h, t)
  BY <1>1 DEF ElementsOfVec
<1>4. CASE T[t].kind = "struct"
  BY <1>2, <1>4 DEF ElementsIn
<1>5. CASE T[t].kind # "struct" /\ IsVector(T, t)
  BY <1>3, <1>5 DEF ElementsIn
<1>6. CASE T[t].kind # "struct" /\ ~IsVector(T, t)
  BY <1>6 DEF ElementsIn
<1> QED
  BY <1>4, <1>5, <1>6

LEMMA ElementsTyped ==
    ASSUME NEW T, TypeTable(T), NEW t \in DOMAIN T, NEW g,
           \A k \in 1 .. t - 1 : g[k] \in SUBSET Path
    PROVE  ElementsIn(T, g, t) \in SUBSET Path
<1>1. ASSUME NEW s \in Seg, NEW e \in Path
      PROVE  <<s>> \o e \in Path /\ <<s>> \in Path
  BY DEF Path
<1>2. <<>> \in Path
  BY DEF Path
<1>3. ElementsOfStruct(T, g, t) \in SUBSET Path
  <2>1. ASSUME NEW f \in DOMAIN T[t].of, NEW e \in g[T[t].of[f]]
        PROVE  <<Field(f)>> \o e \in Path
    <3>1. e \in Path /\ Field(f) \in Seg
      BY <2>1, TypeOf, SegmentsAreTyped
    <3> QED
      BY <1>1, <3>1
  <2> DEFINE A(f) == {<<Field(f)>> \o e : e \in g[T[t].of[f]]}
  <2>2. \A f \in DOMAIN T[t].of : A(f) \subseteq Path
    BY <2>1
  <2>3. ElementsOfStruct(T, g, t) = UNION {A(f) : f \in DOMAIN T[t].of}
    BY DEF ElementsOfStruct
  <2> HIDE DEF A
  <2> QED
    BY <2>2, <2>3
<1>4. IsVector(T, t) => ElementsOfVec(T, g, t) \in SUBSET Path
  <2>1. ASSUME IsVector(T, t), NEW k \in 0 .. T[t].len - 1, NEW e \in g[T[t].of[1]]
        PROVE  <<At(k)>> \o e \in Path
    <3>1. e \in Path /\ At(k) \in Seg
      BY <2>1, TypeOf, SegmentsAreTyped
    <3> QED
      BY <1>1, <3>1
  <2> DEFINE A(k) == {<<At(k)>> \o e : e \in g[T[t].of[1]]}
  <2>2. IsVector(T, t) => \A k \in 0 .. T[t].len - 1 : A(k) \subseteq Path
    BY <2>1
  <2>3. ElementsOfVec(T, g, t) = UNION {A(k) : k \in 0 .. T[t].len - 1}
    BY DEF ElementsOfVec
  <2> HIDE DEF A
  <2> QED
    BY <2>2, <2>3
<1>5. Bits(T, t) \in SUBSET Path
  <2>1. ASSUME NEW k \in 0 .. T[t].len - 1 PROVE <<At(k)>> \in Path
    <3>1. At(k) \in Seg
      BY SegmentsAreTyped, TypeOf
    <3> QED
      BY <1>1, <1>2, <3>1
  <2> QED
    BY <2>1 DEF Bits
<1>6. {<<>>} \in SUBSET Path
  BY <1>2
<1>7. CASE T[t].kind = "struct"
  <2>1. ElementsIn(T, g, t) = ElementsOfStruct(T, g, t)
    BY <1>7 DEF ElementsIn, IsVector
  <2> QED BY <1>3, <2>1
<1>8. CASE T[t].kind # "struct" /\ IsVector(T, t)
  <2>1. ElementsIn(T, g, t) = ElementsOfVec(T, g, t)
    BY <1>8 DEF ElementsIn, IsVector
  <2> QED BY <1>4, <1>8, <2>1
<1>9. CASE T[t].kind # "struct" /\ ~IsVector(T, t)
  <2>1. ElementsIn(T, g, t) \in {Bits(T, t), {<<>>}}
    BY <1>9 DEF ElementsIn
  <2> QED BY <1>5, <1>6, <2>1
<1> QED
  BY <1>7, <1>8, <1>9

LEMMA ElementsDefined ==
    ASSUME body \in Bodies
    PROVE  LET T == body.types
           IN  /\ Elements = [t \in DOMAIN T |-> ElementsIn(T, Elements, t)]
               /\ \A t \in DOMAIN T : Elements[t] \in SUBSET Path
<1>1. PICK T : T = body.types /\ TypeTable(T)
  BY TypesOf
<1>2. PICK n : n = Len(T) /\ n \in Nat /\ DOMAIN T = 1 .. n
  BY <1>1 DEF TypeTable
<1>3. \E g : g = [t \in DOMAIN T |-> ElementsIn(T, g, t)]
  <2>1. PICK S : S = SUBSET Path
    OBVIOUS
  <2> DEFINE W(m) == [h \in [1 .. m - 1 -> S] |-> ElementsIn(T, h, m)]
  <2>2. ASSUME NEW m \in 1 .. n
        PROVE  W(m) \in [[1 .. m - 1 -> S] -> S]
    <3>1. \A h \in [1 .. m - 1 -> S] : ElementsIn(T, h, m) \in S
      BY <1>1, <1>2, <2>1, ElementsTyped
    <3> QED
      BY <3>1
  <2>3. PICK F : F = [m \in 1 .. n |-> W(m)]
    OBVIOUS
  <2>4. \A m \in 1 .. n : F[m] = W(m)
    <3> HIDE DEF W
    <3> QED BY <2>3
  <2>5. \A m \in 1 .. n : F[m] \in [[1 .. m - 1 -> S] -> S]
    <3> HIDE DEF W
    <3> QED BY <2>2, <2>4
  <2>6. PICK g \in [1 .. n -> S] : \A m \in 1 .. n : g[m] = F[m][[k \in 1 .. m - 1 |-> g[k]]]
    <3> HIDE DEF W
    <3>1. Steps(1, n, S, F)
      BY <2>5 DEF Steps
    <3>2. \E g : Follows(g, 1, n, S, F)
      BY <1>2, <3>1, RecursionIsDefined
    <3> QED
      BY <3>2 DEF Follows
  <2>7. ASSUME NEW m \in 1 .. n
        PROVE  g[m] = ElementsIn(T, g, m)
    <3>1. PICK h : h = [k \in 1 .. m - 1 |-> g[k]]
      OBVIOUS
    <3>2. h \in [1 .. m - 1 -> S]
      BY <1>2, <2>6, <3>1
    <3>3. g[m] = ElementsIn(T, h, m)
      BY <2>4, <2>6, <3>1, <3>2
    <3>4. ElementsIn(T, h, m) = ElementsIn(T, g, m)
      BY <1>1, <1>2, <3>1, ElementsLocal
    <3> QED
      BY <3>3, <3>4
  <2>8. g = [t \in DOMAIN T |-> ElementsIn(T, g, t)]
    BY <1>2, <2>6, <2>7
  <2> QED
    BY <2>8
<1>4. Elements = CHOOSE g : g = [t \in DOMAIN T |-> ElementsIn(T, g, t)]
  BY <1>1 DEF Elements, ElementsIn, ElementsOfStruct, ElementsOfVec, Bits, IsVector
<1>5. PICK E : E = Elements /\ E = [t \in DOMAIN T |-> ElementsIn(T, E, t)]
  BY <1>3, <1>4
<1>6. \A t \in 1 .. n : E[t] \in SUBSET Path
  <2>1. PICK G : G = {t \in 1 .. n : E[t] \in SUBSET Path}
    OBVIOUS
  <2>2. ASSUME NEW m \in 1 .. n, \A k \in 1 .. m - 1 : k \in G
        PROVE  m \in G
    <3>1. E[m] = ElementsIn(T, E, m)
      BY <1>2, <1>5
    <3>2. ElementsIn(T, E, m) \in SUBSET Path
      BY <1>1, <1>2, <2>1, <2>2, ElementsTyped
    <3> QED
      BY <2>1, <3>1, <3>2
  <2>3. \A m \in 1 .. n : m \in G
    BY <1>2, <2>2, AlongTheArena
  <2> QED
    BY <2>1, <2>3
<1> QED
  BY <1>1, <1>2, <1>5, <1>6
Depths    == 0 .. MaxDepth + 1
FieldPath == Seq({Field(n) : n \in Nat})
LeafSets  == [Depths -> SUBSET FieldPath]

(* The leaves below field f of type t, as paths from t.                    *)
Below(T, g, t, f, depth) ==
    LET subs == g[T[t].of[f]][depth + 1]
    IN  {<<Field(f)>> \o s : s \in IF subs = {} THEN {<<>>} ELSE subs}

LeavesBelow(T, g, t, depth) == UNION {Below(T, g, t, f, depth) : f \in DOMAIN T[t].of}

LEMMA LeavesAt ==
    ASSUME NEW T, NEW g, NEW t, NEW depth \in Depths
    PROVE  LeavesIn(T, g, t)[depth] =
              IF depth > MaxDepth \/ T[t].kind # "struct" THEN {}
              ELSE LeavesBelow(T, g, t, depth)
  BY DEF LeavesIn, LeavesBelow, Below, Depths

LEMMA LeavesLocal ==
    ASSUME NEW T, TypeTable(T), NEW t \in DOMAIN T, NEW g, NEW h,
           \A k \in 1 .. t - 1 : g[k] = h[k]
    PROVE  LeavesIn(T, g, t) = LeavesIn(T, h, t)
<1>1. \A f \in DOMAIN T[t].of : \A depth : Below(T, g, t, f, depth) = Below(T, h, t, f, depth)
  <2>1. \A f \in DOMAIN T[t].of : g[T[t].of[f]] = h[T[t].of[f]]
    BY TypeOf
  <2> QED
    BY <2>1 DEF Below
<1>2. ASSUME NEW depth \in Depths
      PROVE  LeavesIn(T, g, t)[depth] = LeavesIn(T, h, t)[depth]
  <2>1. {Below(T, g, t, f, depth) : f \in DOMAIN T[t].of}
        = {Below(T, h, t, f, depth) : f \in DOMAIN T[t].of}
    BY <1>1
  <2>2. LeavesIn(T, g, t)[depth] =
              IF depth > MaxDepth \/ T[t].kind # "struct" THEN {}
              ELSE LeavesBelow(T, g, t, depth)
    BY LeavesAt
  <2>3. LeavesIn(T, h, t)[depth] =
              IF depth > MaxDepth \/ T[t].kind # "struct" THEN {}
              ELSE LeavesBelow(T, h, t, depth)
    BY LeavesAt
  <2>4. LeavesBelow(T, g, t, depth) = LeavesBelow(T, h, t, depth)
    BY <2>1 DEF LeavesBelow
  <2> QED
    BY <2>2, <2>3, <2>4
<1>3. /\ LeavesIn(T, g, t) = [depth \in Depths |-> LeavesIn(T, g, t)[depth]]
      /\ LeavesIn(T, h, t) = [depth \in Depths |-> LeavesIn(T, h, t)[depth]]
  BY DEF LeavesIn, Depths
<1> QED
  BY <1>2, <1>3

LEMMA BelowTyped ==
    ASSUME NEW T, TypeTable(T), NEW t \in DOMAIN T, NEW g, NEW f \in DOMAIN T[t].of,
           \A k \in 1 .. t - 1 : g[k] \in LeafSets,
           NEW depth \in Depths, depth <= MaxDepth
    PROVE  Below(T, g, t, f, depth) \subseteq FieldPath
<1>1. g[T[t].of[f]] \in LeafSets /\ depth + 1 \in Depths /\ f \in Nat
  <2>1. PICK u : u = T[t].of[f] /\ u \in 1 .. t - 1
    BY TypeOf
  <2>2. f \in 1 .. Len(T[t].of) /\ Len(T[t].of) \in Nat
    BY TypeOf
  <2>3. depth + 1 \in Depths
    BY EndsAssumption DEF Depths
  <2> QED
    BY <2>1, <2>2, <2>3
<1>2. g[T[t].of[f]][depth + 1] \in SUBSET FieldPath
  BY <1>1 DEF LeafSets
<1>3. \A s \in FieldPath : <<Field(f)>> \o s \in FieldPath
  <2>1. PICK F : F = {Field(n) : n \in Nat} /\ Field(f) \in F
    BY <1>1
  <2> QED
    BY <2>1 DEF FieldPath
<1>4. <<>> \in FieldPath
  BY DEF FieldPath
<1> QED
  BY <1>2, <1>3, <1>4 DEF Below

LEMMA LeavesTyped ==
    ASSUME NEW T, TypeTable(T), NEW t \in DOMAIN T, NEW g,
           \A k \in 1 .. t - 1 : g[k] \in LeafSets
    PROVE  LeavesIn(T, g, t) \in LeafSets
<1>1. ASSUME NEW depth \in Depths
      PROVE  LeavesIn(T, g, t)[depth] \in SUBSET FieldPath
  <2>1. CASE depth > MaxDepth \/ T[t].kind # "struct"
    <3>1. LeavesIn(T, g, t)[depth] = {}
      BY <2>1, LeavesAt
    <3> QED BY <3>1
  <2>2. CASE ~(depth > MaxDepth \/ T[t].kind # "struct")
    <3>1. depth <= MaxDepth
      BY <2>2, EndsAssumption DEF Depths
    <3>2. \A f \in DOMAIN T[t].of : Below(T, g, t, f, depth) \subseteq FieldPath
      BY <3>1, BelowTyped
    <3>3. LeavesIn(T, g, t)[depth] = UNION {Below(T, g, t, f, depth) : f \in DOMAIN T[t].of}
      <4>1. LeavesIn(T, g, t)[depth] =
              IF depth > MaxDepth \/ T[t].kind # "struct" THEN {}
              ELSE LeavesBelow(T, g, t, depth)
        BY LeavesAt
      <4> QED BY <2>2, <4>1 DEF LeavesBelow
    <3> QED
      BY <3>2, <3>3
  <2> QED
    BY <2>1, <2>2
<1>2. LeavesIn(T, g, t) = [depth \in Depths |-> LeavesIn(T, g, t)[depth]]
  BY DEF LeavesIn, Depths
<1> QED
  BY <1>1, <1>2 DEF LeafSets

IsLeaves(L) ==
    LET T == body.types
    IN  /\ L = [t \in DOMAIN T |-> LeavesIn(T, L, t)]
        /\ \A t \in DOMAIN T : L[t] \in LeafSets /\ Leaves[t] = L[t][0]

LEMMA LeavesDefined ==
    ASSUME body \in Bodies
    PROVE  \E L : IsLeaves(L)
<1>1. PICK T : T = body.types /\ TypeTable(T)
  BY TypesOf
<1>2. PICK n : n = Len(T) /\ n \in Nat /\ DOMAIN T = 1 .. n
  BY <1>1 DEF TypeTable
<1>3. \E g : g = [t \in DOMAIN T |-> LeavesIn(T, g, t)]
  <2>1. PICK S : S = LeafSets
    OBVIOUS
  <2> DEFINE W(m) == [h \in [1 .. m - 1 -> S] |-> LeavesIn(T, h, m)]
  <2>2. ASSUME NEW m \in 1 .. n
        PROVE  W(m) \in [[1 .. m - 1 -> S] -> S]
    <3>1. \A h \in [1 .. m - 1 -> S] : LeavesIn(T, h, m) \in S
      BY <1>1, <1>2, <2>1, LeavesTyped
    <3> QED
      BY <3>1
  <2>3. PICK F : F = [m \in 1 .. n |-> W(m)]
    OBVIOUS
  <2>4. \A m \in 1 .. n : F[m] = W(m)
    <3> HIDE DEF W
    <3> QED BY <2>3
  <2>5. Steps(1, n, S, F)
    <3> HIDE DEF W
    <3> QED BY <2>2, <2>4 DEF Steps
  <2>6. PICK g : Follows(g, 1, n, S, F)
    <3> HIDE DEF W
    <3> QED BY <1>2, <2>5, RecursionIsDefined
  <2>7. ASSUME NEW m \in 1 .. n
        PROVE  g[m] = LeavesIn(T, g, m)
    <3>1. PICK h : h = [k \in 1 .. m - 1 |-> g[k]]
      OBVIOUS
    <3>2. h \in [1 .. m - 1 -> S]
      BY <1>2, <2>6, <3>1 DEF Follows
    <3>3. g[m] = LeavesIn(T, h, m)
      BY <2>4, <2>6, <3>1, <3>2 DEF Follows
    <3>4. LeavesIn(T, h, m) = LeavesIn(T, g, m)
      BY <1>1, <1>2, <3>1, LeavesLocal
    <3> QED
      BY <3>3, <3>4
  <2>8. g = [t \in DOMAIN T |-> LeavesIn(T, g, t)]
    BY <1>2, <2>6, <2>7 DEF Follows
  <2> QED
    BY <2>8
<1>4. PICK L : L = CHOOSE g : g = [t \in DOMAIN T |-> LeavesIn(T, g, t)]
  OBVIOUS
<1>5. L = [t \in DOMAIN T |-> LeavesIn(T, L, t)]
  BY <1>3, <1>4
<1>6. Leaves = [t \in DOMAIN T |-> L[t][0]]
  BY <1>1, <1>4 DEF Leaves, LeavesIn
<1>7. \A t \in 1 .. n : L[t] \in LeafSets
  <2>1. PICK G : G = {t \in 1 .. n : L[t] \in LeafSets}
    OBVIOUS
  <2>2. ASSUME NEW m \in 1 .. n, \A k \in 1 .. m - 1 : k \in G
        PROVE  m \in G
    <3>1. L[m] = LeavesIn(T, L, m)
      BY <1>2, <1>5
    <3>2. LeavesIn(T, L, m) \in LeafSets
      BY <1>1, <1>2, <2>1, <2>2, LeavesTyped
    <3> QED
      BY <2>1, <3>1, <3>2
  <2>3. \A m \in 1 .. n : m \in G
    BY <1>2, <2>2, AlongTheArena
  <2> QED
    BY <2>1, <2>3
<1> QED
  BY <1>1, <1>2, <1>5, <1>6, <1>7 DEF IsLeaves

(* A leaf, if the type has any, is on the way to each element.             *)
LEMMA LeavesLeadToElements ==
    ASSUME body \in Bodies, NEW L, IsLeaves(L)
    PROVE  \A t \in DOMAIN body.types, depth \in Depths : L[t][depth] # {} =>
              \A e \in Elements[t] : \E leaf \in L[t][depth] : IsPrefixOf(leaf, e)
<1>1. PICK T : T = body.types /\ TypeTable(T)
  BY TypesOf
<1>2. PICK n : n = Len(T) /\ n \in Nat /\ DOMAIN T = 1 .. n
  BY <1>1 DEF TypeTable
<1>3. PICK E : /\ E = Elements /\ E = [t \in DOMAIN T |-> ElementsIn(T, E, t)]
               /\ \A t \in DOMAIN T : E[t] \in SUBSET Path
  BY <1>1, ElementsDefined
<1> DEFINE Leads(t) == \A depth \in Depths : L[t][depth] # {} =>
                          \A e \in E[t] : \E leaf \in L[t][depth] : IsPrefixOf(leaf, e)
<1>4. PICK G : G = {t \in 1 .. n : Leads(t)}
  OBVIOUS
<1>5. ASSUME NEW t \in 1 .. n, \A k \in 1 .. t - 1 : k \in G
      PROVE  t \in G
  <2>1. SUFFICES ASSUME NEW depth \in Depths, L[t][depth] # {}, NEW e \in E[t]
                 PROVE  \E leaf \in L[t][depth] : IsPrefixOf(leaf, e)
    BY <1>4
  <2>2. L[t] = LeavesIn(T, L, t) /\ E[t] = ElementsIn(T, E, t)
    BY <1>1, <1>2, <1>3 DEF IsLeaves
  <2>3. /\ depth <= MaxDepth /\ T[t].kind = "struct"
        /\ L[t][depth] = UNION {Below(T, L, t, f, depth) : f \in DOMAIN T[t].of}
    <3>1. LeavesIn(T, L, t)[depth] =
              IF depth > MaxDepth \/ T[t].kind # "struct" THEN {}
              ELSE LeavesBelow(T, L, t, depth)
      BY LeavesAt
    <3>2. ~(depth > MaxDepth \/ T[t].kind # "struct")
      BY <2>1, <2>2, <3>1
    <3> QED
      BY <2>2, <3>1, <3>2, EndsAssumption DEF Depths, LeavesBelow
  <2>4. E[t] = ElementsOfStruct(T, E, t)
    BY <2>2, <2>3 DEF ElementsIn, IsVector
  <2>5. PICK f \in DOMAIN T[t].of : e \in {<<Field(f)>> \o d : d \in E[T[t].of[f]]}
    BY <2>1, <2>4 DEF ElementsOfStruct
  <2>6. PICK u : /\ u = T[t].of[f] /\ u \in 1 .. t - 1 /\ u \in DOMAIN T
    BY <1>1, <1>2, TypeOf
  <2>7. PICK d \in E[u] : e = <<Field(f)>> \o d
    BY <2>5, <2>6
  <2>8. PICK subs : subs = L[u][depth + 1]
    OBVIOUS
  <2>9. depth + 1 \in Depths /\ d \in Path /\ L[u] \in LeafSets
    BY <1>1, <1>3, <2>3, <2>6, EndsAssumption DEF Depths, IsLeaves
  <2>10. subs \subseteq FieldPath
    BY <2>8, <2>9 DEF LeafSets
  <2>11. Below(T, L, t, f, depth) = {<<Field(f)>> \o s : s \in IF subs = {} THEN {<<>>} ELSE subs}
    BY <2>6, <2>8 DEF Below
  <2>12. PICK s : /\ s \in IF subs = {} THEN {<<>>} ELSE subs
                  /\ s \in FieldPath /\ IsPrefixOf(s, d)
    <3>1. CASE subs = {}
      <4>1. <<>> \in FieldPath
        BY DEF FieldPath
      <4>2. IsPrefixOf(<<>>, d)
        BY <2>9 DEF IsPrefixOf, Path
      <4> QED
        BY <3>1, <4>1, <4>2
    <3>2. CASE subs # {}
      <4>1. u \in G
        BY <1>5, <2>6
      <4>2. \E s \in subs : IsPrefixOf(s, d)
        BY <1>4, <2>8, <2>9, <3>2, <4>1
      <4> QED
        BY <2>10, <3>2, <4>2
    <3> QED
      BY <3>1, <3>2
  <2>13. PICK leaf : leaf = <<Field(f)>> \o s /\ leaf \in L[t][depth]
    BY <2>3, <2>11, <2>12
  <2>14. IsPrefixOf(leaf, e)
    <3>1. PICK a, x : a = Field(f) /\ x = <<a>>
      OBVIOUS
    <3>2. s \in Seq({Field(k) : k \in Nat}) /\ d \in Seq(Seg)
      BY <2>9, <2>12 DEF FieldPath, Path
    <3>3. /\ Len(leaf) = 1 + Len(s) /\ Len(e) = 1 + Len(d) /\ leaf[1] = a /\ e[1] = a
          /\ DOMAIN leaf = 1 .. 1 + Len(s) /\ Len(s) \in Nat /\ Len(d) \in Nat
          /\ DOMAIN s = 1 .. Len(s)
          /\ \A i \in 1 .. Len(s) : leaf[i + 1] = s[i]
          /\ \A i \in 1 .. Len(d) : e[i + 1] = d[i]
      BY <2>7, <2>13, <3>1, <3>2
    <3>4. ASSUME NEW i \in DOMAIN leaf
          PROVE  leaf[i] = e[i]
      <4>1. CASE i = 1
        BY <3>3, <4>1
      <4>2. CASE i # 1
        <5>1. PICK k : k = i - 1 /\ k \in 1 .. Len(s) /\ k \in 1 .. Len(d) /\ i = k + 1
          BY <2>12, <3>3, <4>2 DEF IsPrefixOf
        <5>2. s[k] = d[k]
          BY <2>12, <3>3, <5>1 DEF IsPrefixOf
        <5> QED
          BY <3>3, <5>1, <5>2
      <4> QED
        BY <4>1, <4>2
    <3> QED
      BY <2>12, <3>3, <3>4 DEF IsPrefixOf
  <2> QED
    BY <2>13, <2>14
<1>6. \A t \in 1 .. n : t \in G
  BY <1>2, <1>5, AlongTheArena
<1> QED
  BY <1>1, <1>2, <1>3, <1>4, <1>6
----------------------------------------------------------------------------
(* The places, from those within them, and what is counted.                *)

Place == [local : Nat, path : Path]

LEMMA ExprOf ==
    ASSUME body \in Bodies, NEW e \in DOMAIN body.exprs
    PROVE  LET x == body.exprs[e] IN
           /\ x \in Expr /\ e \in Nat \ {0} /\ DOMAIN body.exprs = 1 .. Len(body.exprs)
           /\ Len(body.exprs) \in Nat /\ x.val \in Nat
           /\ x.op \in {"field", "index", "slice", "offset"} => x.kids[1] \in 1 .. e - 1
           /\ x.op = "index" => x.kids[2] \in 1 .. e - 1
           /\ x.op \in {"slice", "offset"} => x.kids[2] \in 0 .. e - 1 /\ x.kids[3] \in 0 .. e - 1
<1>1. /\ body.exprs \in Seq(Expr) /\ Refers(body)
  BY BodiesAssumption
<1>2. PICK x : x = body.exprs[e]
  OBVIOUS
<1>3. /\ x \in Expr /\ e \in Nat \ {0} /\ DOMAIN body.exprs = 1 .. Len(body.exprs)
      /\ Len(body.exprs) \in Nat /\ x.val \in Nat /\ x.kids \in Seq(Nat)
  <2>1. x \in Expr
    BY <1>1, <1>2
  <2>2. x.val \in Nat /\ x.kids \in Seq(Nat)
    BY <2>1 DEF Expr
  <2>3. /\ e \in Nat \ {0} /\ DOMAIN body.exprs = 1 .. Len(body.exprs)
        /\ Len(body.exprs) \in Nat
    BY <1>1
  <2> QED
    BY <2>1, <2>2, <2>3
<1>4. /\ \A i \in DOMAIN x.kids :
               x.kids[i] \in (IF x.op \in {"slice", "offset"} /\ i > 1 THEN 0 ELSE 1) .. e - 1
      /\ x.op = "field" => Len(x.kids) = 1
      /\ x.op = "index" => Len(x.kids) = 2
      /\ x.op \in {"slice", "offset"} => Len(x.kids) = 3
  BY <1>1, <1>2 DEF Refers
<1>5. x.op \in {"field", "index", "slice", "offset"} => x.kids[1] \in 1 .. e - 1
  BY <1>3, <1>4
<1>6. x.op = "index" => x.kids[2] \in 1 .. e - 1
  BY <1>3, <1>4
<1>7. x.op \in {"slice", "offset"} => x.kids[2] \in 0 .. e - 1 /\ x.kids[3] \in 0 .. e - 1
  BY <1>3, <1>4
<1> QED
  BY <1>2, <1>3, <1>5, <1>6, <1>7

LEMMA PlaceLocal ==
    ASSUME body \in Bodies, NEW e \in DOMAIN body.exprs, NEW g, NEW h,
           \A k \in 1 .. e - 1 : g[k] = h[k]
    PROVE  PlaceIn(g, e) = PlaceIn(h, e)
<1>1. PICK E, k : E = body.exprs /\ k = E[e].kids
  OBVIOUS
<1>2. E[e].op \in {"field", "index", "slice", "offset"} => g[k[1]] = h[k[1]]
  BY <1>1, ExprOf
<1> QED
  BY <1>1, <1>2 DEF PlaceIn

LEMMA FurtherTyped ==
    ASSUME NEW p \in Place, NEW seg \in Seg
    PROVE  Further(p, seg) \in Place
  BY DEF Place, Further, Path

LEMMA SliceSegTyped ==
    ASSUME body \in Bodies, NEW kind \in {"range", "offset"},
           NEW lo \in {0} \cup DOMAIN body.exprs, NEW hi \in {0} \cup DOMAIN body.exprs
    PROVE  SliceSeg(kind, lo, hi) \in Seg
<1>1. \A e \in DOMAIN body.exprs : body.exprs[e].val \in End
  BY ExprOf DEF End
<1>2. Elided \in End /\ Runtime \in End
  BY DEF End
<1>3. SliceSeg(kind, lo, hi) \in Cut
  BY <1>1, <1>2 DEF SliceSeg, Cut
<1> QED
  BY <1>3 DEF Seg

LEMMA PlaceTyped ==
    ASSUME body \in Bodies, NEW e \in DOMAIN body.exprs, NEW g,
           \A k \in 1 .. e - 1 : g[k] \in Place
    PROVE  PlaceIn(g, e) \in Place
<1>1. PICK E, x, k : E = body.exprs /\ x = E[e] /\ k = x.kids
  OBVIOUS
<1>2. /\ x.val \in Nat /\ DOMAIN E = 1 .. Len(E) /\ Len(E) \in Nat /\ e \in 1 .. Len(E)
      /\ x.op \in {"field", "index", "slice", "offset"} => k[1] \in 1 .. e - 1
      /\ x.op = "index" => k[2] \in 1 .. e - 1
      /\ x.op \in {"slice", "offset"} => k[2] \in 0 .. e - 1 /\ k[3] \in 0 .. e - 1
  BY <1>1, ExprOf
<1>3. x.op \in {"field", "index", "slice", "offset"} => g[k[1]] \in Place
  BY <1>2
<1>4. <<>> \in Path /\ Nowhere \in Place
  BY DEF Path, Place, Nowhere
<1>5. CASE x.op = "local"
  <2>1. PlaceIn(g, e) = [local |-> x.val, path |-> <<>>]
    BY <1>1, <1>5 DEF PlaceIn
  <2> QED BY <1>2, <1>4, <2>1 DEF Place
<1>6. CASE x.op = "field"
  <2>1. PlaceIn(g, e) = Further(g[k[1]], Field(x.val))
    BY <1>1, <1>6 DEF PlaceIn
  <2> QED BY <1>2, <1>3, <1>6, <2>1, FurtherTyped, SegmentsAreTyped
<1>7. CASE x.op = "index"
  <2>1. PlaceIn(g, e) \in {Further(g[k[1]], At(E[k[2]].val)), g[k[1]], Nowhere}
    BY <1>1, <1>7 DEF PlaceIn
  <2>2. E[k[2]].val \in Nat
    BY <1>1, <1>2, <1>7, ExprOf
  <2>3. Further(g[k[1]], At(E[k[2]].val)) \in Place
    BY <1>3, <1>7, <2>2, FurtherTyped, SegmentsAreTyped
  <2> QED BY <1>3, <1>4, <1>7, <2>1, <2>3
<1>8. CASE x.op \in {"slice", "offset"}
  <2>1. PICK kind \in {"range", "offset"} :
            PlaceIn(g, e) = Further(g[k[1]], SliceSeg(kind, k[2], k[3]))
    BY <1>1, <1>8 DEF PlaceIn
  <2>2. k[2] \in {0} \cup DOMAIN E /\ k[3] \in {0} \cup DOMAIN E
    BY <1>2, <1>8
  <2>3. SliceSeg(kind, k[2], k[3]) \in Seg
    BY <1>1, <2>2, SliceSegTyped
  <2> QED BY <1>3, <1>8, <2>1, <2>3, FurtherTyped
<1>9. CASE x.op \notin {"local", "field", "index", "slice", "offset"}
  <2>1. PlaceIn(g, e) = Nowhere
    BY <1>1, <1>9 DEF PlaceIn
  <2> QED BY <1>4, <2>1
<1> QED
  BY <1>5, <1>6, <1>7, <1>8, <1>9

LEMMA PlacesTyped ==
    ASSUME body \in Bodies
    PROVE  \A e \in DOMAIN body.exprs : PlaceOf[e] \in Place
<1>1. PICK E : E = body.exprs
  OBVIOUS
<1>2. PICK n : n = Len(E) /\ n \in Nat /\ DOMAIN E = 1 .. n
  <2>1. E \in Seq(Expr)
    BY <1>1, BodiesAssumption
  <2>2. Len(E) \in Nat /\ DOMAIN E = 1 .. Len(E)
    BY <2>1
  <2> QED BY <2>2
<1>3. \E g : g = [e \in DOMAIN E |-> PlaceIn(g, e)]
  <2>1. PICK S : S = Place
    OBVIOUS
  <2> DEFINE W(m) == [h \in [1 .. m - 1 -> S] |-> PlaceIn(h, m)]
  <2>2. ASSUME NEW m \in 1 .. n
        PROVE  W(m) \in [[1 .. m - 1 -> S] -> S]
    <3>1. \A h \in [1 .. m - 1 -> S] : PlaceIn(h, m) \in S
      BY <1>1, <1>2, <2>1, PlaceTyped
    <3> QED
      BY <3>1
  <2>3. PICK F : F = [m \in 1 .. n |-> W(m)]
    OBVIOUS
  <2>4. \A m \in 1 .. n : F[m] = W(m)
    <3> HIDE DEF W
    <3> QED BY <2>3
  <2>5. Steps(1, n, S, F)
    <3> HIDE DEF W
    <3> QED BY <2>2, <2>4 DEF Steps
  <2>6. PICK g : Follows(g, 1, n, S, F)
    <3> HIDE DEF W
    <3> QED BY <1>2, <2>5, RecursionIsDefined
  <2>7. ASSUME NEW m \in 1 .. n
        PROVE  g[m] = PlaceIn(g, m)
    <3>1. PICK h : h = [k \in 1 .. m - 1 |-> g[k]]
      OBVIOUS
    <3>2. h \in [1 .. m - 1 -> S]
      BY <1>2, <2>6, <3>1 DEF Follows
    <3>3. g[m] = PlaceIn(h, m)
      BY <2>4, <2>6, <3>1, <3>2 DEF Follows
    <3>4. PlaceIn(h, m) = PlaceIn(g, m)
      BY <1>1, <1>2, <3>1, PlaceLocal
    <3> QED
      BY <3>3, <3>4
  <2>8. g = [e \in DOMAIN E |-> PlaceIn(g, e)]
    BY <1>2, <2>6, <2>7 DEF Follows
  <2> QED
    BY <2>8
<1>4. PlaceOf = CHOOSE g : g = [e \in DOMAIN E |-> PlaceIn(g, e)]
  <2>1. PlaceOf = CHOOSE g : g = [e \in DOMAIN body.exprs |-> PlaceIn(g, e)]
    BY DEF PlaceOf
  <2> QED BY <1>1, <2>1
<1>5. PICK P : P = PlaceOf /\ P = [e \in DOMAIN E |-> PlaceIn(P, e)]
  BY <1>3, <1>4
<1>6. PICK G : G = {e \in 1 .. n : P[e] \in Place}
  OBVIOUS
<1>7. ASSUME NEW m \in 1 .. n, \A k \in 1 .. m - 1 : k \in G
      PROVE  m \in G
  <2>1. P[m] = PlaceIn(P, m)
    BY <1>2, <1>5
  <2>2. PlaceIn(P, m) \in Place
    BY <1>1, <1>2, <1>6, <1>7, PlaceTyped
  <2> QED
    BY <1>6, <2>1, <2>2
<1>8. \A m \in 1 .. n : m \in G
  BY <1>2, <1>7, AlongTheArena
<1> QED
  BY <1>1, <1>2, <1>5, <1>6, <1>8
PathsIn(l, es, which, g, i) ==
    IF i = 0 THEN <<>>
    ELSE IF i \in which /\ PlaceOf[es[i]].local = l
    THEN Append(g[i - 1], PlaceOf[es[i]].path) ELSE g[i - 1]

LEMMA PathsInTyped ==
    ASSUME body \in Bodies, NEW es \in Seq(Nat), NEW which, NEW l, NEW g, NEW i \in 0 .. Len(es),
           \A k \in DOMAIN es : k \in which => es[k] \in DOMAIN body.exprs,
           \A k \in 0 .. i - 1 : g[k] \in Seq(Path)
    PROVE  PathsIn(l, es, which, g, i) \in Seq(Path)
<1>1. CASE i = 0
  BY <1>1 DEF PathsIn
<1>2. CASE i # 0
  <2>1. PICK j : j = i - 1 /\ j \in 0 .. i - 1 /\ i \in DOMAIN es
    BY <1>2
  <2>2. g[j] \in Seq(Path)
    BY <2>1
  <2>3. CASE i \in which
    <3>1. PlaceOf[es[i]] \in Place
      BY <2>1, <2>3, PlacesTyped
    <3>2. PlaceOf[es[i]].path \in Path
      BY <3>1 DEF Place
    <3>3. Append(g[j], PlaceOf[es[i]].path) \in Seq(Path)
      BY <2>2, <3>2
    <3> QED
      BY <1>2, <2>1, <2>2, <3>3 DEF PathsIn
  <2>4. CASE i \notin which
    BY <1>2, <2>1, <2>2, <2>4 DEF PathsIn
  <2> QED
    BY <2>3, <2>4
<1> QED
  BY <1>1, <1>2

LEMMA PathsDefined ==
    ASSUME body \in Bodies, NEW es \in Seq(Nat), NEW which, NEW l,
           \A k \in DOMAIN es : k \in which => es[k] \in DOMAIN body.exprs
    PROVE  \E P : /\ \A i \in 0 .. Len(es) : P[i] = PathsIn(l, es, which, P, i) /\ P[i] \in Seq(Path)
                  /\ Paths(l, es, which) = P[Len(es)]
<1>1. PICK n : n = Len(es) /\ n \in Nat
  OBVIOUS
<1>2. \E g : g = [i \in 0 .. n |-> PathsIn(l, es, which, g, i)]
  <2>1. PICK S : S = Seq(Path)
    OBVIOUS
  <2> DEFINE W(m) == [h \in [0 .. m - 1 -> S] |-> PathsIn(l, es, which, h, m)]
  <2>2. ASSUME NEW m \in 0 .. n
        PROVE  W(m) \in [[0 .. m - 1 -> S] -> S]
    <3>1. \A h \in [0 .. m - 1 -> S] : PathsIn(l, es, which, h, m) \in S
      BY <1>1, <2>1, PathsInTyped
    <3> QED
      BY <3>1
  <2>3. PICK F : F = [m \in 0 .. n |-> W(m)]
    OBVIOUS
  <2>4. \A m \in 0 .. n : F[m] = W(m)
    <3> HIDE DEF W
    <3> QED BY <2>3
  <2>5. Steps(0, n, S, F)
    <3> HIDE DEF W
    <3> QED BY <2>2, <2>4 DEF Steps
  <2>6. PICK g : Follows(g, 0, n, S, F)
    <3> HIDE DEF W
    <3> QED BY <1>1, <2>5, RecursionIsDefined
  <2>7. ASSUME NEW m \in 0 .. n
        PROVE  g[m] = PathsIn(l, es, which, g, m)
    <3>1. PICK h : h = [k \in 0 .. m - 1 |-> g[k]]
      OBVIOUS
    <3>2. h \in [0 .. m - 1 -> S]
      BY <1>1, <2>6, <3>1 DEF Follows
    <3>3. g[m] = PathsIn(l, es, which, h, m)
      BY <2>4, <2>6, <3>1, <3>2 DEF Follows
    <3>4. m # 0 => h[m - 1] = g[m - 1]
      BY <1>1, <3>1
    <3>5. PathsIn(l, es, which, h, m) = PathsIn(l, es, which, g, m)
      BY <3>4 DEF PathsIn
    <3> QED
      BY <3>3, <3>5
  <2>8. g = [i \in 0 .. n |-> PathsIn(l, es, which, g, i)]
    BY <2>6, <2>7 DEF Follows
  <2> QED
    BY <2>8
<1>3. PICK P : P = CHOOSE g : g = [i \in 0 .. Len(es) |-> PathsIn(l, es, which, g, i)]
  OBVIOUS
<1>4. Paths(l, es, which) = P[Len(es)]
  BY <1>3 DEF Paths, PathsIn
<1>5. P = [i \in 0 .. n |-> PathsIn(l, es, which, P, i)]
  BY <1>1, <1>2, <1>3
<1>6. PICK G : G = {i \in 0 .. n : P[i] \in Seq(Path)}
  OBVIOUS
<1>7. ASSUME NEW m \in 0 .. n, \A k \in 0 .. m - 1 : k \in G
      PROVE  m \in G
  <2>1. P[m] = PathsIn(l, es, which, P, m)
    BY <1>5
  <2>2. PathsIn(l, es, which, P, m) \in Seq(Path)
    BY <1>1, <1>6, <1>7, PathsInTyped
  <2> QED
    BY <1>6, <2>1, <2>2
<1>8. \A m \in 0 .. n : m \in G
  BY <1>1, <1>7, AlongTheArena
<1>9. \A m \in 0 .. Len(es) : P[m] = PathsIn(l, es, which, P, m) /\ P[m] \in Seq(Path)
  BY <1>1, <1>5, <1>6, <1>8
<1> QED
  BY <1>4, <1>9

LEMMA PathsTyped ==
    ASSUME body \in Bodies, NEW es \in Seq(Nat), NEW which, NEW l,
           \A k \in DOMAIN es : k \in which => es[k] \in DOMAIN body.exprs
    PROVE  Paths(l, es, which) \in Seq(Path)
<1>1. PICK P : /\ \A i \in 0 .. Len(es) : P[i] = PathsIn(l, es, which, P, i) /\ P[i] \in Seq(Path)
               /\ Paths(l, es, which) = P[Len(es)]
  BY PathsDefined
<1>2. Len(es) \in 0 .. Len(es)
  OBVIOUS
<1> QED
  BY <1>1, <1>2
----------------------------------------------------------------------------
(* The calls that are due refer to the arena, and what is counted for each *)
(* local is a list of paths.                                               *)
Due ==
    [call : {"block", "collect"}, id : DOMAIN body.blocks]
    \cup [call : {"stmt", "guarded", "bind"}, id : DOMAIN body.stmts]
    \cup [call : {"expr"}, id : DOMAIN body.exprs]

Walking ==
    /\ body \in Bodies
    /\ todo \in Seq(Due)
    /\ drives \in [DOMAIN body.locals -> Seq(Path)]

LEMMA CallsAreDue ==
    ASSUME NEW call, NEW ids, NEW S, ids \in Seq(S),
           \A id \in S : [call |-> call, id |-> id] \in Due
    PROVE  Calls(call, ids) \in Seq(Due)
<1>1. PICK n : n \in Nat /\ n = Len(ids) /\ DOMAIN ids = 1 .. n /\ \A i \in 1 .. n : ids[i] \in S
  OBVIOUS
<1>2. Calls(call, ids) = [i \in 1 .. n |-> [call |-> call, id |-> ids[i]]]
  BY <1>1 DEF Calls
<1>3. \A i \in 1 .. n : [call |-> call, id |-> ids[i]] \in Due
  BY <1>1
<1> QED
  BY <1>1, <1>2, <1>3

LEMMA NextIsDue ==
    ASSUME Walking, todo # <<>>
    PROVE  /\ Next1 \in Due /\ Rest \in Seq(Due)
           /\ Next1.call \in {"block", "collect"} => Next1.id \in DOMAIN body.blocks
           /\ Next1.call \in {"stmt", "guarded", "bind"} => Next1.id \in DOMAIN body.stmts
           /\ Next1.call = "expr" => Next1.id \in DOMAIN body.exprs
<1>1. Next1 \in Due /\ Rest \in Seq(Due)
  BY DEF Walking, Next1, Rest
<1> QED
  BY <1>1 DEF Due
LEMMA Narrowed ==
    ASSUME NEW T, NEW seq \in Seq(T), NEW S, \A i \in DOMAIN seq : seq[i] \in S
    PROVE  seq \in Seq(S)
<1>1. PICK n : n = Len(seq) /\ n \in Nat /\ seq \in [1 .. n -> T]
  BY LenProperties
<1>2. seq \in [1 .. n -> S]
  BY <1>1
<1>3. [1 .. n -> S] \in {[1 .. m -> S] : m \in Nat}
  BY <1>1
<1>4. Seq(S) = UNION {[1 .. m -> S] : m \in Nat}
  BY SeqDef
<1> QED
  BY <1>2, <1>3, <1>4

LEMMA BlockRefers ==
    ASSUME body \in Bodies, NEW k \in DOMAIN body.blocks
    PROVE  /\ body.blocks[k].stmts \in Seq(DOMAIN body.stmts)
           /\ body.blocks[k].tail # 0 => body.blocks[k].tail \in DOMAIN body.exprs
<1>1. body.blocks \in Seq(Block) /\ body.exprs \in Seq(Expr) /\ Refers(body)
  BY BodiesAssumption
<1>2. PICK b, S : b = body.blocks[k] /\ S = DOMAIN body.stmts
  OBVIOUS
<1>3. b \in Block
  BY <1>1, <1>2
<1>4. b.stmts \in Seq(Nat)
  BY <1>3 DEF Block
<1>5. (\A i \in DOMAIN b.stmts : b.stmts[i] \in S) /\ b.tail \in 0 .. Len(body.exprs)
  BY <1>1, <1>2 DEF Refers
<1>6. b.stmts \in Seq(S)
  BY <1>4, <1>5, Narrowed
<1>7. DOMAIN body.exprs = 1 .. Len(body.exprs)
  BY <1>1
<1> QED
  BY <1>2, <1>5, <1>6, <1>7

LEMMA StmtRefers ==
    ASSUME body \in Bodies, NEW n \in DOMAIN body.stmts
    PROVE  LET s == body.stmts[n] IN
           /\ s \in Stmt
           /\ s.op = "equation" => s.lhs \in DOMAIN body.exprs
           /\ s.op # "var" => s.rhs \in DOMAIN body.exprs
           /\ s.op \in {"for", "when"} => s.block \in DOMAIN body.blocks
<1>1. body.stmts \in Seq(Stmt) /\ Refers(body)
  BY BodiesAssumption
<1> QED
  BY <1>1 DEF Refers

LEMMA ExprRefers ==
    ASSUME body \in Bodies, NEW e \in DOMAIN body.exprs
    PROVE  LET x == body.exprs[e] IN
           /\ x \in Expr
           /\ x.op \notin {"slice", "offset"} => x.kids \in Seq(DOMAIN body.exprs)
           /\ x.blocks \in Seq(DOMAIN body.blocks)
           /\ x.outs \subseteq DOMAIN x.kids
<1>1. body.exprs \in Seq(Expr) /\ Refers(body)
  BY BodiesAssumption
<1>2. PICK x : x = body.exprs[e]
  OBVIOUS
<1>3. x \in Expr
  BY <1>1, <1>2
<1>4. x.kids \in Seq(Nat) /\ x.blocks \in Seq(Nat)
  BY <1>3 DEF Expr
<1>5. /\ \A i \in DOMAIN x.kids :
               x.kids[i] \in (IF x.op \in {"slice", "offset"} /\ i > 1 THEN 0 ELSE 1) .. e - 1
      /\ \A i \in DOMAIN x.blocks : x.blocks[i] \in DOMAIN body.blocks
      /\ x.outs \subseteq DOMAIN x.kids
  BY <1>1, <1>2 DEF Refers
<1>6. DOMAIN body.exprs = 1 .. Len(body.exprs) /\ Len(body.exprs) \in Nat
  BY <1>1
<1>7. ASSUME x.op \notin {"slice", "offset"}
      PROVE  x.kids \in Seq(DOMAIN body.exprs)
  <2>1. \A i \in DOMAIN x.kids : x.kids[i] \in DOMAIN body.exprs
    BY <1>5, <1>6, <1>7
  <2> QED
    BY <1>4, <2>1, Narrowed
<1>8. x.blocks \in Seq(DOMAIN body.blocks)
  BY <1>4, <1>5, Narrowed
<1> QED
  BY <1>2, <1>3, <1>5, <1>7, <1>8

LEMMA ListsOfDue ==
    ASSUME body \in Bodies, NEW ids
    PROVE  /\ ids \in Seq(DOMAIN body.exprs) => Calls("expr", ids) \in Seq(Due)
           /\ ids \in Seq(DOMAIN body.stmts) =>
                /\ Calls("stmt", ids) \in Seq(Due) /\ Calls("guarded", ids) \in Seq(Due)
                /\ Calls("bind", ids) \in Seq(Due)
           /\ ids \in Seq(DOMAIN body.blocks) =>
                Calls("block", ids) \in Seq(Due) /\ Calls("collect", ids) \in Seq(Due)
<1>1. \A id \in DOMAIN body.exprs : [call |-> "expr", id |-> id] \in Due
  BY DEF Due
<1>2. \A id \in DOMAIN body.stmts : /\ [call |-> "stmt", id |-> id] \in Due
                                    /\ [call |-> "guarded", id |-> id] \in Due
                                    /\ [call |-> "bind", id |-> id] \in Due
  BY DEF Due
<1>3. \A id \in DOMAIN body.blocks : /\ [call |-> "block", id |-> id] \in Due
                                     /\ [call |-> "collect", id |-> id] \in Due
  BY DEF Due
<1> QED
  BY <1>1, <1>2, <1>3, CallsAreDue

LEMMA CountedIsTyped ==
    ASSUME Walking, NEW es \in Seq(DOMAIN body.exprs), NEW which, CountPlaces(es, which)
    PROVE  drives' \in [DOMAIN body.locals -> Seq(Path)]
<1>1. es \in Seq(Nat) /\ \A k \in DOMAIN es : es[k] \in DOMAIN body.exprs
  <2>1. body.exprs \in Seq(Expr)
    BY BodiesAssumption DEF Walking
  <2>2. \A k \in DOMAIN es : es[k] \in Nat /\ es[k] \in DOMAIN body.exprs
    BY <2>1
  <2> QED
    BY <2>2, Narrowed
<1>2. \A l : Paths(l, es, which) \in Seq(Path)
  BY <1>1, PathsTyped DEF Walking
<1>3. ASSUME NEW l \in DOMAIN body.locals
      PROVE  drives[l] \o Paths(l, es, which) \in Seq(Path)
  BY <1>2 DEF Walking
<1> QED
  BY <1>3 DEF CountPlaces, Walking

LEMMA WalkingAtFirst == Init => Walking
<1> SUFFICES ASSUME Init PROVE Walking
  OBVIOUS
<1>1. body.blocks \in Seq(Block) /\ body.blocks # <<>>
  BY BodiesAssumption DEF Init
<1>2. Top \in DOMAIN body.blocks
  BY <1>1 DEF Top
<1>3. [call |-> "block", id |-> Top] \in Due
  BY <1>2 DEF Due
<1>4. <<>> \in Seq(Path)
  OBVIOUS
<1> QED
  BY <1>3, <1>4 DEF Init, Walking
LEMMA ShortLists ==
    ASSUME NEW S
    PROVE  /\ <<>> \in Seq(S)
           /\ \A x \in S : <<x>> \in Seq(S)
           /\ \A x, y \in S : <<x, y>> \in Seq(S)
  OBVIOUS

LEMMA WalkingKept == Walking /\ [Next]_vars => Walking'
<1> SUFFICES ASSUME Walking, [Next]_vars PROVE Walking'
  OBVIOUS
<1> DEFINE Exprs  == DOMAIN body.exprs
           Stmts  == DOMAIN body.stmts
           Blocks == DOMAIN body.blocks
<1>1. CASE Walks
  <2>1. todo # <<>> /\ UNCHANGED body
    BY <1>1 DEF Walks, CountBlock, Equation, AtStmt, OtherStmt, CollectWhenDrives,
                GuardedStmt, BindWhen, CountExpr
  <2>2. /\ Next1 \in Due /\ Rest \in Seq(Due)
        /\ Next1.call \in {"block", "collect"} => Next1.id \in Blocks
        /\ Next1.call \in {"stmt", "guarded", "bind"} => Next1.id \in Stmts
        /\ Next1.call = "expr" => Next1.id \in Exprs
    BY <2>1, NextIsDue
  <2>3. body \in Bodies
    BY DEF Walking
  <2>4. SUFFICES todo' \in Seq(Due) /\ drives' \in [DOMAIN body.locals -> Seq(Path)]
    BY <2>1, <2>3 DEF Walking, Due
  <2>5. \A s, t \in Seq(Due) : s \o t \in Seq(Due)
    OBVIOUS
  <2>6. UNCHANGED drives => drives' \in [DOMAIN body.locals -> Seq(Path)]
    BY DEF Walking
  <2>7. CASE CountBlock
    <3>1. PICK b, tail : /\ b = body.blocks[Next1.id] /\ Next1.id \in Blocks
                         /\ tail = IF b.tail = 0 THEN <<>> ELSE <<b.tail>>
                         /\ todo' = Calls("stmt", b.stmts) \o Calls("expr", tail) \o Rest
      BY <2>2, <2>7 DEF CountBlock
    <3>2. b.stmts \in Seq(Stmts) /\ (b.tail # 0 => b.tail \in Exprs)
      BY <2>3, <3>1, BlockRefers
    <3>3. tail \in Seq(Exprs)
      BY <3>1, <3>2, ShortLists
    <3>4. Calls("stmt", b.stmts) \in Seq(Due) /\ Calls("expr", tail) \in Seq(Due)
      BY <2>3, <3>2, <3>3, ListsOfDue
    <3>5. UNCHANGED drives
      BY <2>7 DEF CountBlock
    <3> QED
      BY <2>2, <2>5, <2>6, <3>1, <3>4, <3>5
  <2>8. CASE Equation
    <3>1. Next1.id \in Stmts /\ Stmt1.op = "equation"
      BY <2>2, <2>8 DEF Equation, AtStmt
    <3>2. Stmt1.lhs \in Exprs /\ Stmt1.rhs \in Exprs
      BY <2>3, <3>1, StmtRefers DEF Stmt1
    <3>3. <<Stmt1.lhs>> \in Seq(Exprs) /\ <<Stmt1.lhs, Stmt1.rhs>> \in Seq(Exprs)
      BY <3>2, ShortLists
    <3>4. Calls("expr", <<Stmt1.lhs, Stmt1.rhs>>) \in Seq(Due)
      BY <2>3, <3>3, ListsOfDue
    <3>5. PICK es : es = <<Stmt1.lhs>> /\ es \in Seq(Exprs)
      BY <3>3
    <3>6. CountPlaces(es, {1})
      BY <2>8, <3>5 DEF Equation
    <3>7. drives' \in [DOMAIN body.locals -> Seq(Path)]
      BY <3>5, <3>6, CountedIsTyped
    <3> QED
      BY <2>2, <2>5, <2>8, <3>4, <3>7 DEF Equation
  <2>9. CASE OtherStmt
    <3>1. Next1.id \in Stmts /\ UNCHANGED drives
      BY <2>2, <2>9 DEF OtherStmt, AtStmt
    <3>2. /\ Stmt1.op # "var" => <<Stmt1.rhs>> \in Seq(Exprs)
          /\ Stmt1.op \in {"for", "when"} => <<Stmt1.block>> \in Seq(Blocks)
          /\ <<Next1.id>> \in Seq(Stmts)
      <4>1. /\ Stmt1.op # "var" => Stmt1.rhs \in Exprs
            /\ Stmt1.op \in {"for", "when"} => Stmt1.block \in Blocks
        BY <2>3, <3>1, StmtRefers DEF Stmt1
      <4> QED
        BY <3>1, <4>1, ShortLists
    <3>3. CASE AtStmt("let") \/ AtStmt("return") \/ AtStmt("expr")
      <4>1. Calls("expr", <<Stmt1.rhs>>) \in Seq(Due)
        BY <2>3, <3>2, <3>3, ListsOfDue DEF AtStmt
      <4>2. todo' = Calls("expr", <<Stmt1.rhs>>) \o Rest
        BY <2>9, <3>3 DEF OtherStmt, AtStmt
      <4> QED
        BY <2>2, <2>5, <2>6, <3>1, <4>1, <4>2
    <3>4. CASE AtStmt("var")
      <4>1. todo' = Rest
        BY <2>9, <3>4 DEF OtherStmt, AtStmt
      <4> QED
        BY <2>2, <2>6, <3>1, <4>1
    <3>5. CASE AtStmt("for")
      <4>1. Calls("expr", <<Stmt1.rhs>>) \in Seq(Due) /\ Calls("block", <<Stmt1.block>>) \in Seq(Due)
        BY <2>3, <3>2, <3>5, ListsOfDue DEF AtStmt
      <4>2. todo' = Calls("expr", <<Stmt1.rhs>>) \o Calls("block", <<Stmt1.block>>) \o Rest
        BY <2>9, <3>5 DEF OtherStmt, AtStmt
      <4> QED
        BY <2>2, <2>5, <2>6, <3>1, <4>1, <4>2
    <3>6. CASE AtStmt("when")
      <4>1. /\ Calls("expr", <<Stmt1.rhs>>) \in Seq(Due)
            /\ Calls("collect", <<Stmt1.block>>) \in Seq(Due)
            /\ Calls("bind", <<Next1.id>>) \in Seq(Due)
        BY <2>3, <3>2, <3>6, ListsOfDue DEF AtStmt
      <4>2. todo' = Calls("expr", <<Stmt1.rhs>>) \o Calls("collect", <<Stmt1.block>>)
                        \o Calls("bind", <<Next1.id>>) \o Rest
        BY <2>9, <3>6 DEF OtherStmt, AtStmt
      <4> QED
        BY <2>2, <2>5, <2>6, <3>1, <4>1, <4>2
    <3> QED
      BY <2>9, <3>3, <3>4, <3>5, <3>6 DEF OtherStmt
  <2>10. CASE CollectWhenDrives
    <3>1. Next1.id \in Blocks
      BY <2>2, <2>10 DEF CollectWhenDrives
    <3>2. body.blocks[Next1.id].stmts \in Seq(Stmts)
      BY <2>3, <3>1, BlockRefers
    <3>3. Calls("guarded", body.blocks[Next1.id].stmts) \in Seq(Due)
      BY <2>3, <3>2, ListsOfDue
    <3> QED
      BY <2>2, <2>5, <2>6, <2>10, <3>3 DEF CollectWhenDrives
  <2>11. CASE GuardedStmt
    <3>1. Next1.id \in Stmts /\ UNCHANGED drives
      BY <2>2, <2>11 DEF GuardedStmt
    <3>2. PICK s, e : s = Stmt1 /\ e = body.exprs[s.rhs]
      OBVIOUS
    <3>3. s.op # "var" => s.rhs \in Exprs
      BY <2>3, <3>1, <3>2, StmtRefers DEF Stmt1
    <3>4. CASE s.op = "expr" /\ e.op = "if"
      <4>1. todo' = Calls("expr", e.kids) \o Calls("collect", e.blocks) \o Rest
        BY <2>11, <3>2, <3>4 DEF GuardedStmt
      <4>2. e.kids \in Seq(Exprs) /\ e.blocks \in Seq(Blocks)
        BY <2>3, <3>2, <3>3, <3>4, ExprRefers
      <4>3. Calls("expr", e.kids) \in Seq(Due) /\ Calls("collect", e.blocks) \in Seq(Due)
        BY <2>3, <4>2, ListsOfDue
      <4> QED
        BY <2>2, <2>5, <2>6, <3>1, <4>1, <4>3
    <3>5. CASE ~(s.op = "expr" /\ e.op = "if") /\ s.op \in {"equation", "let", "expr"}
      <4>1. todo' = Calls("expr", <<s.rhs>>) \o Rest
        BY <2>11, <3>2, <3>5 DEF GuardedStmt
      <4>2. <<s.rhs>> \in Seq(Exprs)
        BY <3>3, <3>5, ShortLists
      <4>3. Calls("expr", <<s.rhs>>) \in Seq(Due)
        BY <2>3, <4>2, ListsOfDue
      <4> QED
        BY <2>2, <2>5, <2>6, <3>1, <4>1, <4>3
    <3>6. CASE s.op \notin {"equation", "let", "expr"}
      <4>1. todo' = <<>> \o Rest
        BY <2>11, <3>2, <3>6 DEF GuardedStmt
      <4> QED
        BY <2>2, <2>5, <2>6, <3>1, <4>1
    <3> QED
      BY <3>4, <3>5, <3>6
  <2>12. CASE BindWhen
    <3>1. todo' \in Seq(Due)
      BY <2>2, <2>12 DEF BindWhen
    <3>2. drives' = [l \in DOMAIN drives |->
                    IF l \in Head(driven) THEN Append(drives[l], <<>>) ELSE drives[l]]
      BY <2>12 DEF BindWhen
    <3>3. \A s \in Seq(Path) : Append(s, <<>>) \in Seq(Path)
      <4>1. <<>> \in Path
        BY DEF Path
      <4> QED BY <4>1
    <3> QED
      BY <3>1, <3>2, <3>3 DEF Walking
  <2>13. CASE CountExpr
    <3>1. Next1.id \in Exprs
      BY <2>2, <2>13 DEF CountExpr
    <3>2. PICK e : e = body.exprs[Next1.id]
      OBVIOUS
    <3>3. /\ e.op \notin {"slice", "offset"} => e.kids \in Seq(Exprs)
          /\ e.blocks \in Seq(Blocks)
      BY <2>3, <3>1, <3>2, ExprRefers
    <3>4. CASE e.op \in {"if", "when", "block"}
      <4>1. todo' = Calls("block", e.blocks) \o Rest /\ UNCHANGED drives
        BY <2>13, <3>2, <3>4 DEF CountExpr
      <4>2. Calls("block", e.blocks) \in Seq(Due)
        BY <2>3, <3>3, ListsOfDue
      <4> QED
        BY <2>2, <2>5, <2>6, <4>1, <4>2
    <3>5. CASE e.op \in {"record", "method", "call"}
      <4>1. todo' = Calls("expr", e.kids) \o Rest /\ CountPlaces(e.kids, e.outs)
        BY <2>13, <3>2, <3>5 DEF CountExpr
      <4>2. e.kids \in Seq(Exprs)
        BY <3>3, <3>5
      <4>3. Calls("expr", e.kids) \in Seq(Due)
        BY <2>3, <4>2, ListsOfDue
      <4>4. PICK es, which : es = e.kids /\ which = e.outs /\ es \in Seq(Exprs)
        BY <4>2
      <4>5. CountPlaces(es, which)
        BY <4>1, <4>4
      <4>6. drives' \in [DOMAIN body.locals -> Seq(Path)]
        BY <4>4, <4>5, CountedIsTyped
      <4> QED
        BY <2>2, <2>5, <4>1, <4>3, <4>6
    <3>6. CASE e.op \notin {"if", "when", "block", "record", "method", "call"}
      <4>1. todo' = Rest /\ UNCHANGED drives
        BY <2>13, <3>2, <3>6 DEF CountExpr
      <4> QED
        BY <2>2, <2>6, <4>1
    <3> QED
      BY <3>4, <3>5, <3>6
  <2> QED
    BY <1>1, <2>7, <2>8, <2>9, <2>10, <2>11, <2>12, <2>13 DEF Walks
<1>2. CASE ~Walks
  <2>1. UNCHANGED <<body, todo, drives>>
    BY <1>2 DEF Next, Walks, Counted, CheckLocal, Done, vars
  <2> QED
    BY <2>1 DEF Walking, Due
<1> QED
  BY <1>1, <1>2
----------------------------------------------------------------------------
(* A path that covers an element, or leads to the leaf it is in, hits it.  *)

LEMMA MeantSegment ==
    ASSUME NEW p \in Path, NEW n, NEW i \in DOMAIN p
    PROVE  LET s == p[i]
               m == Meant(p, n)[i]
           IN  /\ s \in Seg /\ m.kind = s.kind
               /\ m.lo = IF s.lo = Elided THEN 0 ELSE s.lo
               /\ m.hi = IF s.hi = Elided THEN n ELSE s.hi
               /\ Len(Meant(p, n)) = Len(p) /\ DOMAIN Meant(p, n) = DOMAIN p
<1>1. p[i] \in Seg /\ DOMAIN p = 1 .. Len(p) /\ Len(p) \in Nat
  BY DEF Path
<1>2. PICK s : s = p[i] /\ s \in Seg
  BY <1>1
<1>3. Meant(p, n)[i] = [s EXCEPT !.lo = IF @ = Elided THEN 0 ELSE @,
                                 !.hi = IF @ = Elided THEN n ELSE @]
  BY <1>2 DEF Meant
<1>4. Len(Meant(p, n)) = Len(p) /\ DOMAIN Meant(p, n) = DOMAIN p
  BY <1>1 DEF Meant
<1> QED
  BY <1>1, <1>2, <1>3, <1>4, SegmentParts

LEMMA WholeHits ==
    ASSUME NEW n, NEW e \in Path
    PROVE  Provable(Meant(<<>>, n)) /\ Hits(Meant(<<>>, n), e)
<1>1. Meant(<<>>, n) = <<>>
  BY DEF Meant
<1>2. Len(e) \in Nat
  BY DEF Path
<1> QED
  BY <1>1, <1>2 DEF Provable, Hits

LEMMA FieldsHit ==
    ASSUME NEW p \in Path, NEW leaf \in FieldPath, NEW e \in Path, NEW n,
           IsPrefixOf(p, leaf), IsPrefixOf(leaf, e)
    PROVE  Provable(Meant(p, n)) /\ Hits(Meant(p, n), e)
<1>1. /\ Len(p) \in Nat /\ DOMAIN p = 1 .. Len(p)
      /\ Len(e) \in Nat /\ DOMAIN e = 1 .. Len(e)
      /\ \A i \in DOMAIN e : e[i] \in Seg
  BY DEF Path
<1>2. /\ Len(leaf) \in Nat /\ DOMAIN leaf = 1 .. Len(leaf)
      /\ \A i \in DOMAIN leaf : leaf[i] \in {Field(k) : k \in Nat}
  <2>1. PICK F : F = {Field(k) : k \in Nat} /\ leaf \in Seq(F)
    BY DEF FieldPath
  <2> QED
    BY <2>1
<1>3. DOMAIN Meant(p, n) = DOMAIN p /\ Len(Meant(p, n)) = Len(p)
  BY <1>1 DEF Meant
<1>4. ASSUME NEW i \in DOMAIN p
      PROVE  Meant(p, n)[i].kind = "field" /\ e[i] = Meant(p, n)[i]
  <2>1. p[i] = leaf[i] /\ leaf[i] = e[i] /\ i \in DOMAIN leaf
    BY <1>1, <1>2 DEF IsPrefixOf
  <2>2. PICK k \in Nat : p[i] = Field(k)
    BY <1>2, <2>1
  <2>3. PICK s : s = p[i] /\ s.kind = "field" /\ s.lo = k /\ s.hi = k
                 /\ s = [kind |-> "field", lo |-> k, hi |-> k]
    BY <2>2 DEF Field
  <2>4. k # Elided
    BY EndsAssumption
  <2>5. Meant(p, n)[i] = [s EXCEPT !.lo = IF @ = Elided THEN 0 ELSE @,
                                   !.hi = IF @ = Elided THEN n ELSE @]
    BY <2>3 DEF Meant
  <2> QED
    BY <2>1, <2>3, <2>4, <2>5
<1>5. Len(p) <= Len(e)
  BY <1>1, <1>2 DEF IsPrefixOf
<1> QED
  BY <1>3, <1>4, <1>5 DEF Provable, Hits, Within

LEMMA CoversHits ==
    ASSUME NEW p \in Path, Len(p) = 1, NEW n \in Nat, NEW k \in Nat,
           Covers(p[1], k, n), NEW e \in Path, e # <<>>, e[1] = At(k)
    PROVE  Provable(Meant(p, n)) /\ Hits(Meant(p, n), e)
<1>1. 1 \in DOMAIN p /\ DOMAIN p = {1} /\ Len(e) \in Nat /\ Len(e) >= 1
  BY DEF Path
<1>2. PICK s, m : s = p[1] /\ m = Meant(p, n)[1]
  OBVIOUS
<1>3. /\ s \in Seg /\ m.kind = s.kind
      /\ m.lo = IF s.lo = Elided THEN 0 ELSE s.lo
      /\ m.hi = IF s.hi = Elided THEN n ELSE s.hi
      /\ Len(Meant(p, n)) = 1 /\ DOMAIN Meant(p, n) = {1}
  BY <1>1, <1>2, MeantSegment
<1>4. Covers(s, k, n)
  BY <1>2
<1>5. CASE s.kind = "at"
  <2>1. m.lo = k /\ m.hi \in Int
    BY <1>3, <1>4, <1>5 DEF Covers
  <2>2. Low(m) = k /\ High(m) = k + 1 /\ Known(m)
    BY <1>3, <1>5, <2>1 DEF Low, High, Known
  <2> QED
    BY <1>1, <1>2, <1>3, <2>1, <2>2, <1>5 DEF Within, At, Provable, Hits
<1>6. CASE s.kind = "range"
  <2>1. m.lo \in Int /\ m.hi \in Int /\ m.lo <= k /\ k < m.hi
    BY <1>3, <1>4, <1>6 DEF Covers
  <2>2. Low(m) = m.lo /\ High(m) = m.hi /\ Known(m)
    BY <1>3, <1>6, <2>1 DEF Low, High, Known
  <2> QED
    BY <1>1, <1>2, <1>3, <2>1, <2>2, <1>6 DEF Within, At, Provable, Hits
<1>7. CASE s.kind = "offset"
  <2>1. m.lo \in Int /\ m.hi \in Int /\ m.lo <= k /\ k < m.lo + m.hi
    BY <1>3, <1>4, <1>7, EndsAssumption DEF Covers
  <2>2. Low(m) = m.lo /\ High(m) = m.lo + m.hi /\ Known(m)
    BY <1>3, <1>7, <2>1 DEF Low, High, Known
  <2> QED
    BY <1>1, <1>2, <1>3, <2>1, <2>2, <1>7 DEF Within, At, Provable, Hits
<1> QED
  BY <1>4, <1>5, <1>6, <1>7 DEF Covers
LEMMA StructDriven ==
    ASSUME Walking, NEW l \in DOMAIN body.locals, Missing(l) = {},
           body.types[body.locals[l].ty].kind = "struct",
           NEW e \in Elements[body.locals[l].ty], NEW n
    PROVE  \E i \in DOMAIN drives[l] : Provable(Meant(drives[l][i], n)) /\ Hits(Meant(drives[l][i], n), e)
<1>1. PICK t : t = body.locals[l].ty /\ t \in DOMAIN body.types
  BY TypesOf DEF Walking
<1>2. PICK T : T = body.types /\ TypeTable(T) /\ T[t].kind = "struct"
  BY <1>1, TypesOf DEF Walking
<1>3. PICK L : IsLeaves(L)
  BY LeavesDefined DEF Walking
<1>4. /\ L[t] = LeavesIn(T, L, t) /\ L[t] \in LeafSets /\ Leaves[t] = L[t][0]
      /\ 0 \in Depths
  BY <1>1, <1>2, <1>3, EndsAssumption DEF IsLeaves, Depths
<1>5. /\ Elements = [u \in DOMAIN T |-> ElementsIn(T, Elements, u)]
      /\ Elements[t] \in SUBSET Path /\ e \in Path /\ e \in Elements[t]
  BY <1>1, <1>2, ElementsDefined DEF Walking
<1>6. PICK f : f \in DOMAIN T[t].of
  <2>1. PICK E : E = Elements /\ E = [u \in DOMAIN T |-> ElementsIn(T, E, u)]
    BY <1>5
  <2>2. E[t] = ElementsOfStruct(T, E, t)
    BY <1>1, <1>2, <2>1 DEF ElementsIn, IsVector
  <2> QED
    BY <1>5, <2>1, <2>2 DEF ElementsOfStruct
<1>7. L[t][0] # {}
  <2>1. LeavesIn(T, L, t)[0] =
              IF 0 > MaxDepth \/ T[t].kind # "struct" THEN {}
              ELSE LeavesBelow(T, L, t, 0)
    BY <1>4, LeavesAt
  <2>2. L[t][0] = UNION {Below(T, L, t, g, 0) : g \in DOMAIN T[t].of}
    BY <1>2, <1>4, <2>1, EndsAssumption DEF LeavesBelow
  <2>3. Below(T, L, t, f, 0) # {}
    BY DEF Below
  <2> QED
    BY <1>6, <2>2, <2>3
<1>8. PICK leaf \in L[t][0] : IsPrefixOf(leaf, e)
  BY <1>1, <1>2, <1>3, <1>4, <1>5, <1>7, LeavesLeadToElements DEF Walking
<1>9. leaf \in FieldPath /\ leaf \in Leaves[t]
  BY <1>4, <1>8 DEF LeafSets
<1>10. PICK ps : ps = {drives[l][i] : i \in DOMAIN drives[l]}
  OBVIOUS
<1>11. Missing(l) = {x \in Leaves[t] : \A p \in ps : ~IsPrefixOf(p, x)}
  BY <1>1, <1>2, <1>10 DEF Missing
<1>12. PICK p \in ps : IsPrefixOf(p, leaf)
  BY <1>9, <1>11
<1>13. PICK i \in DOMAIN drives[l] : p = drives[l][i]
  BY <1>10, <1>12
<1>14. p \in Path
  <2>1. drives[l] \in Seq(Path)
    BY DEF Walking
  <2> QED BY <1>13, <2>1
<1>15. Provable(Meant(p, n)) /\ Hits(Meant(p, n), e)
  BY <1>5, <1>8, <1>9, <1>12, <1>14, FieldsHit
<1> QED
  BY <1>13, <1>15

LEMMA VecDriven ==
    ASSUME Walking, NEW l \in DOMAIN body.locals, Missing(l) = {}, ~Deep(l),
           \A i \in DOMAIN drives[l] : drives[l][i] # <<>>,
           NEW T, T = body.types[body.locals[l].ty], T.kind = "vec",
           NEW e \in Elements[body.locals[l].ty]
    PROVE  \E i \in DOMAIN drives[l] :
              Provable(Meant(drives[l][i], T.len)) /\ Hits(Meant(drives[l][i], T.len), e)
<1>1. PICK t : t = body.locals[l].ty /\ t \in DOMAIN body.types
  BY TypesOf DEF Walking
<1>2. PICK TT : TT = body.types /\ TypeTable(TT) /\ T = TT[t]
  BY <1>1, TypesOf DEF Walking
<1>3. T \in Type /\ T.len \in Nat /\ 1 \in DOMAIN T.of
  BY <1>1, <1>2, TypeOf DEF IsVector
<1>4. PICK E : /\ E = Elements /\ E = [u \in DOMAIN TT |-> ElementsIn(TT, E, u)]
               /\ \A u \in DOMAIN TT : E[u] \in SUBSET Path
  BY <1>2, ElementsDefined DEF Walking
<1>5. E[t] = ElementsOfVec(TT, E, t) /\ e \in E[t]
  BY <1>1, <1>2, <1>4 DEF ElementsIn, IsVector
<1>6. PICK k \in 0 .. T.len - 1 : e \in {<<At(k)>> \o d : d \in E[TT[t].of[1]]}
  <2> DEFINE A(k) == {<<At(k)>> \o d : d \in E[TT[t].of[1]]}
  <2>1. E[t] = UNION {A(k) : k \in 0 .. T.len - 1}
    BY <1>2, <1>5 DEF ElementsOfVec
  <2> HIDE DEF A
  <2>2. \E k \in 0 .. T.len - 1 : e \in A(k)
    BY <1>5, <2>1
  <2> QED
    BY <2>2 DEF A
<1>7. PICK d \in E[TT[t].of[1]] : e = <<At(k)>> \o d
  BY <1>6
<1>8. d \in Path /\ e \in Path
  <2>1. TT[t].of[1] \in DOMAIN TT
    BY <1>1, <1>2, <1>3, TypeOf
  <2> QED
    BY <1>1, <1>2, <1>4, <1>5, <2>1
<1>9. e # <<>> /\ e[1] = At(k)
  <2>1. PICK a : a = At(k)
    OBVIOUS
  <2>2. d \in Seq(Seg) /\ e = <<a>> \o d
    BY <1>7, <1>8, <2>1 DEF Path
  <2>3. Len(e) = 1 + Len(d) /\ e[1] = a /\ Len(d) \in Nat
    BY <2>2
  <2> QED
    BY <2>1, <2>3
<1>10. ASSUME NEW i \in DOMAIN drives[l]
       PROVE  /\ drives[l][i] \in Path /\ Len(drives[l][i]) = 1
              /\ drives[l][i][1].kind # "field"
  <2>1. drives[l] \in Seq(Path)
    BY DEF Walking
  <2>2. PICK p : p = drives[l][i] /\ p \in Path
    BY <2>1
  <2>3. ~(Len(p) > 1) /\ \A j \in DOMAIN p : p[j].kind # "field"
    BY <2>2 DEF Deep
  <2>4. p # <<>> /\ p \in Seq(Seg)
    BY <2>2 DEF Path
  <2>5. Len(p) = 1 /\ 1 \in DOMAIN p
    <3>1. Len(p) \in Nat \ {0} /\ DOMAIN p = 1 .. Len(p)
      BY <2>4, EmptySeq
    <3> QED
      BY <2>3, <3>1
  <2> QED
    BY <2>2, <2>3, <2>5
<1>11. PICK ps : ps = {drives[l][i] : i \in DOMAIN drives[l]}
  OBVIOUS
<1>12. \A p \in ps : p[1].kind # "field"
  BY <1>10, <1>11
<1>13. Missing(l) = {<<At(m)>> : m \in {m \in 0 .. T.len - 1 : \A p \in ps : ~Covers(p[1], m, T.len)}}
  BY <1>11, <1>12 DEF Missing
<1>14. PICK p \in ps : Covers(p[1], k, T.len)
  BY <1>6, <1>13
<1>15. PICK i \in DOMAIN drives[l] : p = drives[l][i]
  BY <1>11, <1>14
<1>16. k \in Nat /\ p \in Path /\ Len(p) = 1
  BY <1>3, <1>6, <1>10, <1>15
<1>17. Provable(Meant(p, T.len)) /\ Hits(Meant(p, T.len), e)
  BY <1>3, <1>8, <1>9, <1>14, <1>16, CoversHits
<1> QED
  BY <1>15, <1>17

(* In any body, of any shape and with any types: a `var` or an `out` that  *)
(* no diagnostic is about is driven in each of its elements, as long as    *)
(* completeness looks at what drives it (Deep says where it does not).     *)
THEOREM ElementsAreDriven == Spec => []EveryElementDriven
<1>1. Checked /\ Walking => EveryElementDriven
  <2> SUFFICES ASSUME Checked, Walking, pc = "done",
                      NEW l \in DOMAIN body.locals,
                      body.locals[l].kind \in {"var", "out"},
                      body.types[body.locals[l].ty].kind # "integer",
                      ~\E d \in diags : d.local = l, ~Deep(l),
                      NEW e \in Elements[body.locals[l].ty]
               PROVE  \E i \in DOMAIN drives[l] :
                        LET p == Meant(drives[l][i], body.types[body.locals[l].ty].len)
                        IN  Provable(p) /\ Hits(p, e)
    BY DEF EveryElementDriven
  <2>1. PICK T, n : T = body.types[body.locals[l].ty] /\ n = T.len
    OBVIOUS
  <2>2. e \in Path /\ T \in Type
    BY <2>1, TypesOf, ElementsDefined DEF Walking, TypeTable
  <2>3. T.kind \in {"bits", "integer", "part", "struct", "vec"}
    BY <2>2 DEF Type
  <2>4. DriverDiags(l) \cup CompletenessDiags(l) \subseteq diags
    BY LocalsAreNumbered DEF Checked
  <2>5. drives[l] # <<>>
    <3>1. SUFFICES ASSUME drives[l] = <<>> PROVE FALSE
      OBVIOUS
    <3>2. CASE body.locals[l].kind = "var"
      <4>1. [kind |-> "undriven", local |-> l, path |-> <<>>] \in DriverDiags(l)
        BY <3>1, <3>2 DEF DriverDiags, Only
      <4> QED
        BY <2>4, <4>1
    <3>3. CASE body.locals[l].kind = "out"
      <4>1. [kind |-> "undriven out", local |-> l, path |-> <<>>] \in CompletenessDiags(l)
        BY <3>1, <3>3 DEF CompletenessDiags, Only
      <4> QED
        BY <2>4, <4>1
    <3> QED
      BY <3>2, <3>3
  <2>6. CASE \E i \in DOMAIN drives[l] : drives[l][i] = <<>>
    BY <2>1, <2>2, <2>6, WholeHits
  <2>7. CASE \A i \in DOMAIN drives[l] : drives[l][i] # <<>>
    <3>1. Missing(l) = {}
      <4>1. CompletenessDiags(l) =
                {[kind |-> "undriven field", local |-> l, path |-> p] : p \in Missing(l)}
        BY <2>5, <2>7 DEF CompletenessDiags
      <4>2. \A p \in Missing(l) : [kind |-> "undriven field", local |-> l, path |-> p] \in diags
        BY <2>4, <4>1
      <4> QED
        BY <4>2
    <3>2. CASE T.kind = "struct"
      BY <2>1, <3>1, <3>2, StructDriven
    <3>3. CASE T.kind = "vec"
      <4>1. \E i \in DOMAIN drives[l] :
              Provable(Meant(drives[l][i], T.len)) /\ Hits(Meant(drives[l][i], T.len), e)
        BY <2>1, <2>7, <3>1, <3>3, VecDriven
      <4> QED
        BY <2>1, <4>1
    <3>4. CASE T.kind \in {"bits", "part"}
      <4>1. drives[l] \in Seq(Path)
        BY DEF Walking
      <4>2. 1 \in DOMAIN drives[l]
        BY <2>5, <4>1
      <4>3. drives[l][1] = <<>>
        BY <2>1, <3>4, <4>2 DEF Deep
      <4> QED
        BY <2>7, <4>2, <4>3
    <3> QED
      BY <2>1, <2>3, <3>2, <3>3, <3>4
  <2> QED
    BY <2>6, <2>7
<1> QED
  BY <1>1, CheckedAtFirst, CheckedKept, WalkingAtFirst, WalkingKept, PTL DEF Spec
----------------------------------------------------------------------------
(* What is reported was found at a local that has been checked.            *)
Grounded ==
    /\ pc = "walk" => diags = {}
    /\ \A d \in diags : \E l \in 0 .. at - 1 : d \in DriverDiags(l) \cup CompletenessDiags(l)

LEMMA GroundedKept == Checked /\ Grounded /\ [Next]_vars => Grounded'
<1> SUFFICES ASSUME Checked, Grounded, [Next]_vars PROVE Grounded'
  OBVIOUS
<1>1. CASE Walks
  <2>1. todo # <<>> /\ UNCHANGED <<pc, diags>>
    BY <1>1 DEF Walks, CountBlock, Equation, AtStmt, OtherStmt, CollectWhenDrives,
                GuardedStmt, BindWhen, CountExpr
  <2>2. pc = "walk"
    BY <2>1 DEF Checked
  <2> QED
    BY <2>1, <2>2 DEF Grounded
<1>2. CASE CheckLocal
  <2>1. /\ UNCHANGED <<body, drives, pc>> /\ at' = at + 1 /\ pc = "check" /\ at \in Nat
        /\ diags' = diags \cup DriverDiags(at) \cup CompletenessDiags(at)
    BY <1>2 DEF CheckLocal, Checked
  <2>2. ASSUME NEW d \in diags'
        PROVE  \E l \in 0 .. at : d \in DriverDiags(l) \cup CompletenessDiags(l)
    <3>1. CASE d \in diags
      <4>1. PICK l \in 0 .. at - 1 : d \in DriverDiags(l) \cup CompletenessDiags(l)
        BY <3>1 DEF Grounded
      <4> QED
        BY <2>1, <4>1
    <3>2. CASE d \in DriverDiags(at) \cup CompletenessDiags(at)
      BY <2>1, <3>2
    <3> QED
      BY <2>1, <3>1, <3>2
  <2>3. \A l : DriverDiags(l)' = DriverDiags(l) /\ CompletenessDiags(l)' = CompletenessDiags(l)
    BY <2>1, DiagsKept
  <2> QED
    BY <2>1, <2>2, <2>3 DEF Grounded
<1>3. CASE Counted \/ Done \/ UNCHANGED vars
  <2>1. UNCHANGED <<body, drives, diags, at>> /\ (pc' = "walk" => pc = "walk")
    BY <1>3 DEF Counted, Done, vars
  <2>2. \A l : DriverDiags(l)' = DriverDiags(l) /\ CompletenessDiags(l)' = CompletenessDiags(l)
    BY <2>1, DiagsKept
  <2> QED
    BY <2>1, <2>2 DEF Grounded
<1> QED
  BY <1>1, <1>2, <1>3 DEF Next, Walks

LEMMA ReportsConflict ==
    ASSUME Grounded, NEW l, Reported("multiple", l)
    PROVE  Conflicting(l)
<1>1. PICK d \in diags : d.kind = "multiple" /\ d.local = l
  BY DEF Reported
<1>2. PICK m \in 0 .. at - 1 : d \in DriverDiags(m) \cup CompletenessDiags(m)
  BY DEF Grounded
<1>3. d \notin CompletenessDiags(m)
  <2>1. \A x \in CompletenessDiags(m) : x.kind \in {"undriven out", "undriven field"}
    <3>1. PICK M : M = Missing(m)
      OBVIOUS
    <3> DEFINE Fields == {[kind |-> "undriven field", local |-> m, path |-> p] : p \in M}
    <3>2. ASSUME NEW x \in Fields PROVE x.kind = "undriven field"
      <4>1. PICK p \in M : x = [kind |-> "undriven field", local |-> m, path |-> p]
        OBVIOUS
      <4> QED
        BY <4>1
    <3> DEFINE Out == [kind |-> "undriven out", local |-> m, path |-> <<>>]
    <3>3. CompletenessDiags(m) \in {{}, Fields, {Out}}
      <4> DEFINE whole == \E i \in DOMAIN drives[m] : drives[m][i] = <<>>
                 local == body.locals[m]
      <4>1. CASE drives[m] = <<>>
        BY <4>1 DEF CompletenessDiags, Only
      <4>2. CASE drives[m] # <<>> /\ (whole \/ local.kind \notin {"var", "out"})
        <5>1. CompletenessDiags(m) = {}
          BY <4>2 DEF CompletenessDiags
        <5> QED
          BY <5>1
      <4>3. CASE drives[m] # <<>> /\ ~(whole \/ local.kind \notin {"var", "out"})
        <5>1. CompletenessDiags(m) = Fields
          BY <3>1, <4>3 DEF CompletenessDiags
        <5> QED
          BY <5>1
      <4> QED
        BY <4>1, <4>2, <4>3
    <3>4. Out.kind = "undriven out"
      OBVIOUS
    <3> HIDE DEF Fields, Out
    <3> QED
      BY <3>2, <3>3, <3>4
  <2> QED
    BY <1>1, <2>1
<1>4. d \in DriverDiags(m)
  BY <1>2, <1>3
<1>5. d.local = m /\ Conflicting(m)
  BY <1>1, <1>4 DEF DriverDiags, Only
<1> QED
  BY <1>1, <1>5

----------------------------------------------------------------------------
(* An element with one of its numbers lowered is an element as well.       *)
Lower(e, i, k) == [e EXCEPT ![i] = At(k)]
Closed(S) == \A e \in S : \A i \in DOMAIN e : \A b \in Nat :
                e[i] = At(b) => \A k \in 0 .. b : Lower(e, i, k) \in S

LEMMA Replaced ==
    ASSUME NEW S, NEW e \in Seq(S), NEW i \in 1 .. Len(e), NEW a \in S,
           NEW y, y = [e EXCEPT ![i] = a]
    PROVE  /\ y \in Seq(S) /\ Len(y) = Len(e)
           /\ \A j \in 1 .. Len(e) : y[j] = IF j = i THEN a ELSE e[j]
<1>1. PICK n : n = Len(e) /\ n \in Nat /\ e \in [1 .. n -> S]
  BY LenProperties
<1>2. y \in [1 .. n -> S] /\ \A j \in 1 .. n : y[j] = IF j = i THEN a ELSE e[j]
  BY <1>1
<1>3. [1 .. n -> S] \in {[1 .. m -> S] : m \in Nat}
  BY <1>1
<1>4. Seq(S) = UNION {[1 .. m -> S] : m \in Nat}
  BY SeqDef
<1>5. y \in Seq(S)
  BY <1>2, <1>3, <1>4
<1>6. Len(y) \in Nat /\ 1 .. Len(y) = 1 .. n
  <2>1. y \in [1 .. Len(y) -> S] /\ Len(y) \in Nat
    BY <1>5, LenProperties
  <2> QED
    BY <1>2, <2>1
<1>7. Len(y) = n
  BY <1>1, <1>6
<1> QED
  BY <1>1, <1>2, <1>5, <1>7

Behind(e, s, d) ==
    /\ Len(e) = 1 + Len(d) /\ DOMAIN e = 1 .. 1 + Len(d) /\ e \in Seq(Seg)
    /\ e[1] = s /\ \A j \in 2 .. 1 + Len(d) : e[j] = d[j - 1]

LEMMA IsBehind ==
    ASSUME NEW s \in Seg, NEW d \in Path
    PROVE  Behind(<<s>> \o d, s, d)
<1>1. d \in Seq(Seg) /\ Len(d) \in Nat
  BY DEF Path
<1> QED
  BY <1>1 DEF Behind

LowersBehind(e, s, d, i, k) ==
    /\ i = 1 => e[i] = s /\ Lower(e, i, k) = <<At(k)>> \o d
    /\ i # 1 => /\ i - 1 \in DOMAIN d /\ e[i] = d[i - 1]
                /\ Lower(e, i, k) = <<s>> \o Lower(d, i - 1, k)

LEMMA LowerBehind ==
    ASSUME NEW s \in Seg, NEW d \in Path, NEW e, Behind(e, s, d),
           NEW i \in DOMAIN e, NEW k \in Nat
    PROVE  LowersBehind(e, s, d, i, k)
<1>1. PICK a : a = At(k) /\ a \in Seg
  BY SegmentsAreTyped
<1>2. d \in Seq(Seg) /\ Len(d) \in Nat /\ DOMAIN d = 1 .. Len(d)
  BY DEF Path
<1>3. /\ Len(e) = 1 + Len(d) /\ DOMAIN e = 1 .. 1 + Len(d) /\ e \in Seq(Seg)
      /\ e[1] = s /\ \A j \in 2 .. 1 + Len(d) : e[j] = d[j - 1]
  BY DEF Behind
<1>4. CASE i = 1
  <2>1. PICK x : x = <<a>> \o d
    OBVIOUS
  <2>2. /\ Len(x) = 1 + Len(d) /\ DOMAIN x = 1 .. 1 + Len(d) /\ x \in Seq(Seg)
        /\ x[1] = a /\ \A j \in 2 .. 1 + Len(d) : x[j] = d[j - 1]
    BY <1>1, <1>2, <2>1
  <2>3. PICK y : y = [e EXCEPT ![1] = a]
    OBVIOUS
  <2>4. y \in Seq(Seg) /\ Len(y) = Len(e) /\ \A j \in 1 .. Len(e) : y[j] = IF j = 1 THEN a ELSE e[j]
    <3>1. 1 \in 1 .. Len(e)
      BY <1>2, <1>3
    <3> QED
      BY <1>1, <1>3, <2>3, <3>1, Replaced
  <2>5. x = y
    BY <1>2, <1>3, <2>2, <2>4, SeqEqual
  <2> QED
    BY <1>1, <1>3, <1>4, <2>1, <2>3, <2>5 DEF Lower, LowersBehind
<1>5. CASE i # 1
  <2>1. i - 1 \in DOMAIN d /\ e[i] = d[i - 1]
    BY <1>2, <1>3, <1>5
  <2>2. PICK c : c = [d EXCEPT ![i - 1] = a]
    OBVIOUS
  <2>3. c \in Seq(Seg) /\ Len(c) = Len(d) /\ \A j \in 1 .. Len(d) : c[j] = IF j = i - 1 THEN a ELSE d[j]
    BY <1>1, <1>2, <2>1, <2>2
  <2>4. PICK x : x = <<s>> \o c
    OBVIOUS
  <2>5. /\ Len(x) = 1 + Len(d) /\ x \in Seq(Seg)
        /\ x[1] = s /\ \A j \in 2 .. 1 + Len(d) : x[j] = c[j - 1]
    BY <2>3, <2>4
  <2>6. PICK y : y = [e EXCEPT ![i] = a]
    OBVIOUS
  <2>7. y \in Seq(Seg) /\ Len(y) = Len(e) /\ \A j \in 1 .. Len(e) : y[j] = IF j = i THEN a ELSE e[j]
    <3>1. i \in 1 .. Len(e)
      BY <1>3
    <3> QED
      BY <1>1, <1>3, <2>6, <3>1, Replaced
  <2>8. \A j \in 1 .. Len(x) : x[j] = y[j]
    <3>1. ASSUME NEW j \in 2 .. 1 + Len(d) PROVE x[j] = y[j]
      <4>1. x[j] = IF j - 1 = i - 1 THEN a ELSE d[j - 1]
        BY <1>2, <2>3, <2>5
      <4>2. y[j] = IF j = i THEN a ELSE d[j - 1]
        BY <1>2, <1>3, <2>7
      <4> QED
        BY <1>2, <1>3, <4>1, <4>2
    <3>2. x[1] = y[1]
      BY <1>2, <1>3, <1>5, <2>5, <2>7
    <3>3. ASSUME NEW j \in 1 .. Len(x) PROVE j = 1 \/ j \in 2 .. 1 + Len(d)
      BY <1>2, <2>5
    <3> QED
      BY <3>1, <3>2, <3>3
  <2>9. x = y
    BY <1>3, <2>5, <2>7, <2>8, SeqEqual
  <2> QED
    BY <1>1, <1>5, <2>1, <2>2, <2>4, <2>6, <2>9 DEF Lower, LowersBehind
<1> QED
  BY <1>4, <1>5
LowersWithin(D, e, s, i, k) == \E c \in D : Lower(e, i, k) = <<s>> \o c

LEMMA ClosedBehind ==
    ASSUME NEW D \in SUBSET Path, Closed(D), NEW s \in Seg, NEW d \in D,
           NEW e, Behind(e, s, d), NEW i \in DOMAIN e, i # 1, NEW b \in Nat, e[i] = At(b),
           NEW k \in 0 .. b
    PROVE  LowersWithin(D, e, s, i, k)
<1>1. /\ i - 1 \in DOMAIN d /\ e[i] = d[i - 1]
      /\ Lower(e, i, k) = <<s>> \o Lower(d, i - 1, k)
  <2>1. d \in Path /\ k \in Nat
    OBVIOUS
  <2>2. LowersBehind(e, s, d, i, k)
    BY <2>1, LowerBehind
  <2> QED
    BY <2>2 DEF LowersBehind
<1>2. Lower(d, i - 1, k) \in D
  BY <1>1 DEF Closed
<1> QED
  BY <1>1, <1>2 DEF LowersWithin

LEMMA ElementsInClosed ==
    ASSUME NEW T, TypeTable(T), NEW t \in DOMAIN T, NEW g,
           \A k \in 1 .. t - 1 : g[k] \in SUBSET Path /\ Closed(g[k])
    PROVE  Closed(ElementsIn(T, g, t))
<1>1. Closed(ElementsOfStruct(T, g, t))
  <2> DEFINE A(f) == {<<Field(f)>> \o e : e \in g[T[t].of[f]]}
  <2>1. ElementsOfStruct(T, g, t) = UNION {A(f) : f \in DOMAIN T[t].of}
    BY DEF ElementsOfStruct
  <2>2. ASSUME NEW f \in DOMAIN T[t].of, NEW e \in A(f), NEW i \in DOMAIN e,
               NEW b \in Nat, e[i] = At(b), NEW k \in 0 .. b
        PROVE  Lower(e, i, k) \in A(f)
    <3>1. PICK d \in g[T[t].of[f]] : e = <<Field(f)>> \o d
      BY <2>2
    <3>2. g[T[t].of[f]] \in SUBSET Path /\ Closed(g[T[t].of[f]]) /\ Field(f) \in Seg
      BY TypeOf, SegmentsAreTyped
    <3>3. Behind(e, Field(f), d)
      BY <3>1, <3>2, IsBehind
    <3>4. i # 1
      BY <2>2, <3>3 DEF Behind, Field, At
    <3>5. PICK D, s : /\ D = g[T[t].of[f]] /\ D \in SUBSET Path /\ Closed(D) /\ d \in D
                      /\ s = Field(f) /\ s \in Seg /\ Behind(e, s, d)
      BY <3>2, <3>3
    <3> HIDE DEF A
    <3>6. LowersWithin(D, e, s, i, k)
      <4>1. PICK u : u = e /\ i \in DOMAIN u /\ u[i] = At(b) /\ Behind(u, s, d)
        BY <2>2, <3>5
      <4> QED
        BY <3>4, <3>5, <4>1, ClosedBehind
    <3> QED
      BY <3>5, <3>6 DEF A, LowersWithin
  <2> HIDE DEF A
  <2>3. \A f \in DOMAIN T[t].of : A(f) \subseteq UNION {A(h) : h \in DOMAIN T[t].of}
    OBVIOUS
  <2>4. \A e \in ElementsOfStruct(T, g, t) : \E f \in DOMAIN T[t].of : e \in A(f)
    BY <2>1
  <2> QED
    BY <2>1, <2>2, <2>3, <2>4 DEF Closed
<1>2. ASSUME IsVector(T, t) PROVE Closed(ElementsOfVec(T, g, t))
  <2> DEFINE A(k) == {<<At(k)>> \o e : e \in g[T[t].of[1]]}
             I == 0 .. T[t].len - 1
  <2>1. ElementsOfVec(T, g, t) = UNION {A(k) : k \in I}
    BY DEF ElementsOfVec
  <2>2. ASSUME NEW m \in I, NEW e \in A(m), NEW i \in DOMAIN e,
               NEW b \in Nat, e[i] = At(b), NEW k \in 0 .. b
        PROVE  \E n \in I : Lower(e, i, k) \in A(n)
    <3>1. PICK d \in g[T[t].of[1]] : e = <<At(m)>> \o d
      BY <2>2
    <3>2. g[T[t].of[1]] \in SUBSET Path /\ Closed(g[T[t].of[1]]) /\ At(m) \in Seg
      BY <1>2, TypeOf, SegmentsAreTyped
    <3>3. Behind(e, At(m), d)
      BY <3>1, <3>2, IsBehind
    <3>4. CASE i # 1
      <4>1. PICK D, s : /\ D = g[T[t].of[1]] /\ D \in SUBSET Path /\ Closed(D) /\ d \in D
                        /\ s = At(m) /\ s \in Seg /\ Behind(e, s, d)
        BY <3>2, <3>3
      <4> HIDE DEF A
      <4>2. LowersWithin(D, e, s, i, k)
        <5>1. PICK u : u = e /\ i \in DOMAIN u /\ u[i] = At(b) /\ Behind(u, s, d)
          BY <2>2, <4>1
        <5> QED
          BY <3>4, <4>1, <5>1, ClosedBehind
      <4>3. Lower(e, i, k) \in A(m)
        BY <4>1, <4>2 DEF A, LowersWithin
      <4> QED
        BY <4>3
    <3>5. CASE i = 1
      <4>1. e[1] = At(m) /\ Lower(e, i, k) = <<At(k)>> \o d
        <5>1. LowersBehind(e, At(m), d, i, k)
          BY <3>2, <3>3, LowerBehind
        <5> QED
          BY <3>5, <5>1 DEF LowersBehind
      <4>2. m = b
        BY <2>2, <3>5, <4>1 DEF At
      <4>3. k \in I
        BY <2>2, <4>2, TypeOf
      <4>4. Lower(e, i, k) \in A(k)
        BY <3>1, <4>1
      <4> QED
        BY <4>3, <4>4
    <3> QED
      BY <3>4, <3>5
  <2> HIDE DEF A
  <2>3. \A m \in I : A(m) \subseteq UNION {A(n) : n \in I}
    OBVIOUS
  <2>4. \A e \in ElementsOfVec(T, g, t) : \E m \in I : e \in A(m)
    BY <2>1
  <2> HIDE DEF I
  <2> QED
    BY <2>1, <2>2, <2>3, <2>4 DEF Closed
<1>3. Closed(Bits(T, t))
  <2>1. ASSUME NEW e \in Bits(T, t), NEW i \in DOMAIN e, NEW b \in Nat, e[i] = At(b), NEW k \in 0 .. b
        PROVE  Lower(e, i, k) \in Bits(T, t)
    <3>1. PICK m \in 0 .. T[t].len - 1 : e = <<At(m)>>
      BY DEF Bits
    <3>2. PICK a, c : a = At(m) /\ c = At(k)
      OBVIOUS
    <3>3. i = 1 /\ e[1] = a
      BY <3>1, <3>2
    <3>4. m = b
      BY <2>1, <3>2, <3>3 DEF At
    <3>5. Lower(e, i, k) = <<c>>
      BY <3>1, <3>2, <3>3 DEF Lower
    <3>6. k \in 0 .. T[t].len - 1
      BY <3>4, TypeOf
    <3> QED
      BY <3>2, <3>5, <3>6 DEF Bits
  <2> QED
    BY <2>1 DEF Closed
<1>4. Closed({<<>>})
  BY DEF Closed
<1>5. CASE T[t].kind = "struct"
  <2>1. ElementsIn(T, g, t) = ElementsOfStruct(T, g, t)
    BY <1>5 DEF ElementsIn, IsVector
  <2> QED BY <1>1, <2>1
<1>6. CASE T[t].kind # "struct" /\ IsVector(T, t)
  <2>1. ElementsIn(T, g, t) = ElementsOfVec(T, g, t)
    BY <1>6 DEF ElementsIn, IsVector
  <2> QED BY <1>2, <1>6, <2>1
<1>7. CASE T[t].kind # "struct" /\ ~IsVector(T, t)
  <2>1. ElementsIn(T, g, t) \in {Bits(T, t), {<<>>}}
    BY <1>7 DEF ElementsIn
  <2> QED BY <1>3, <1>4, <2>1
<1> QED
  BY <1>5, <1>6, <1>7

LEMMA ElementsClosed ==
    ASSUME body \in Bodies, NEW t \in DOMAIN body.types
    PROVE  Closed(Elements[t])
<1>1. PICK T : T = body.types /\ TypeTable(T)
  BY TypesOf
<1>2. PICK n : n = Len(T) /\ n \in Nat /\ DOMAIN T = 1 .. n
  BY <1>1 DEF TypeTable
<1>3. PICK E : /\ E = Elements /\ E = [u \in DOMAIN T |-> ElementsIn(T, E, u)]
               /\ \A u \in DOMAIN T : E[u] \in SUBSET Path
  BY <1>1, ElementsDefined
<1>4. PICK G : G = {u \in 1 .. n : Closed(E[u])}
  OBVIOUS
<1>5. ASSUME NEW m \in 1 .. n, \A k \in 1 .. m - 1 : k \in G
      PROVE  m \in G
  <2>1. \A k \in 1 .. m - 1 : E[k] \in SUBSET Path /\ Closed(E[k])
    BY <1>2, <1>3, <1>4, <1>5
  <2>2. Closed(ElementsIn(T, E, m))
    BY <1>1, <1>2, <2>1, ElementsInClosed
  <2>3. E[m] = ElementsIn(T, E, m)
    BY <1>2, <1>3
  <2> QED
    BY <1>4, <2>2, <2>3
<1>6. \A m \in 1 .. n : m \in G
  BY <1>2, <1>5, AlongTheArena
<1> QED
  BY <1>1, <1>2, <1>3, <1>4, <1>6
----------------------------------------------------------------------------
(* Two places that conflict and lie within the type share an element.      *)
Fits(p, t) ==
    /\ \A k \in 1 .. Len(p) - 1 : p[k].kind \in {"field", "at"}
    /\ \E e \in Elements[t] : Hits(p, e)
Shares(p, q, t) == \E e \in Elements[t] : Hits(p, e) /\ Hits(q, e)

LEMMA RangeIsWhole ==
    ASSUME NEW s \in Seg, Known(s), Low(s) # High(s)
    PROVE  Low(s) \in Nat /\ High(s) \in Nat /\ Low(s) < High(s)
<1>1. /\ s.kind \in {"at", "range", "offset"} /\ s.lo \in Nat /\ s.hi \in Nat
  BY SegmentParts, EndsAssumption DEF Known, End
<1> QED
  BY <1>1 DEF Low, High

LEMMA PrefixShares ==
    ASSUME NEW p \in Path, NEW q \in Path, NEW t, Fits(q, t), Len(p) <= Len(q),
           \A i \in DOMAIN p : p[i] = q[i], body \in Bodies, t \in DOMAIN body.types
    PROVE  Shares(p, q, t)
<1>1. PICK e \in Elements[t] : Hits(q, e)
  BY DEF Fits
<1>2. /\ e \in Path /\ Len(e) \in Nat
      /\ Len(p) \in Nat /\ DOMAIN p = 1 .. Len(p)
      /\ Len(q) \in Nat /\ DOMAIN q = 1 .. Len(q)
  BY ElementsDefined DEF Path
<1>3. Hits(p, e)
  BY <1>1, <1>2 DEF Hits
<1> QED
  BY <1>1, <1>3 DEF Shares

(* The place that ends where they differ also has the first number of the  *)
(* other one's range there.                                                *)
LEMMA RangeShares ==
    ASSUME body \in Bodies, NEW t \in DOMAIN body.types, NEW p \in Path, NEW q \in Path,
           Provable(p), Provable(q), ~Empty(p), ~Empty(q), Fits(p, t), Fits(q, t),
           NEW i \in DOMAIN p \cap DOMAIN q, \A j \in 1 .. i - 1 : p[j] = q[j],
           Overlap(p[i], q[i]), p[i].kind # "at", Low(p[i]) <= Low(q[i])
    PROVE  Shares(p, q, t)
<1>1. /\ Len(p) \in Nat /\ DOMAIN p = 1 .. Len(p) /\ p[i] \in Seg
      /\ Len(q) \in Nat /\ DOMAIN q = 1 .. Len(q) /\ q[i] \in Seg
  BY DEF Path
<1>2. Known(p[i]) /\ Known(q[i]) /\ p[i].kind # "field" /\ q[i].kind # "field"
  BY DEF Overlap, Known
<1>3. PICK k : /\ k = Low(q[i]) /\ k \in Nat /\ High(q[i]) \in Nat /\ k < High(q[i])
               /\ Low(p[i]) <= k /\ k < High(p[i])
  <2>1. Low(q[i]) # High(q[i])
    BY <1>2 DEF Empty
  <2>2. Low(q[i]) \in Nat /\ High(q[i]) \in Nat /\ Low(q[i]) < High(q[i])
    BY <1>1, <1>2, <2>1, RangeIsWhole
  <2>3. Low(q[i]) < High(p[i])
    BY DEF Overlap
  <2> QED
    BY <2>2, <2>3
<1>4. Len(p) = i
  <2>1. ~ i \in 1 .. Len(p) - 1
    BY <1>2 DEF Fits
  <2> QED
    BY <1>1, <2>1
<1>5. PICK e \in Elements[t] : Hits(q, e)
  BY DEF Fits
<1>6. e \in Path
  BY ElementsDefined
<1>7. /\ e \in Seq(Seg) /\ Len(e) \in Nat /\ DOMAIN e = 1 .. Len(e)
      /\ Len(q) <= Len(e) /\ i \in 1 .. Len(e) /\ e[i] \in Seg
      /\ \A j \in DOMAIN q : Within(q[j], e[j])
  BY <1>1, <1>5, <1>6 DEF Hits, Path
<1>8. PICK b : b \in Nat /\ e[i] = At(b) /\ k <= b
  <2>1. e[i].kind = "at" /\ Low(q[i]) <= e[i].lo
    BY <1>2, <1>7 DEF Within
  <2>2. e[i].lo \in Nat /\ e[i] = At(e[i].lo)
    BY <1>7, <2>1, SegmentParts
  <2> QED
    BY <1>3, <2>1, <2>2
<1>9. PICK a : a = At(k) /\ a \in Seg /\ a.kind = "at" /\ a.lo = k
  <2>1. At(k) \in Seg
    BY <1>3, SegmentsAreTyped
  <2>2. At(k).kind = "at" /\ At(k).lo = k
    BY DEF At
  <2> QED
    BY <2>1, <2>2
<1>10. PICK f : f = Lower(e, i, k) /\ f \in Elements[t]
  <2>1. Closed(Elements[t])
    BY ElementsClosed
  <2>2. k \in 0 .. b
    BY <1>3, <1>8
  <2>3. i \in DOMAIN e
    BY <1>7
  <2> QED
    BY <1>5, <1>8, <2>1, <2>2, <2>3 DEF Closed
<1>11. Len(f) = Len(e) /\ \A j \in 1 .. Len(e) : f[j] = IF j = i THEN a ELSE e[j]
  <2>1. f = [e EXCEPT ![i] = a]
    BY <1>9, <1>10 DEF Lower
  <2> QED
    BY <1>7, <1>9, <2>1, Replaced
<1>12. Within(q[i], f[i]) /\ Within(p[i], f[i])
  <2>1. f[i] = a
    BY <1>7, <1>11
  <2> QED
    BY <1>2, <1>3, <1>9, <2>1 DEF Within
<1>13. Hits(q, f)
  <2>1. ASSUME NEW j \in DOMAIN q PROVE Within(q[j], f[j])
    <3>1. j # i => f[j] = e[j]
      BY <1>1, <1>7, <1>11
    <3> QED
      BY <1>7, <1>12, <3>1
  <2> QED
    BY <1>7, <1>11, <2>1 DEF Hits
<1>14. Hits(p, f)
  <2>1. ASSUME NEW j \in DOMAIN p PROVE Within(p[j], f[j])
    <3>1. CASE j = i
      BY <1>12, <3>1
    <3>2. CASE j # i
      <4>1. j \in 1 .. i - 1 /\ j \in DOMAIN q
        BY <1>1, <1>4, <3>2
      <4>2. p[j] = q[j] /\ f[j] = e[j]
        BY <1>1, <1>7, <1>11, <3>2, <4>1
      <4> QED
        BY <1>7, <4>1, <4>2
    <3> QED
      BY <3>1, <3>2
  <2>2. Len(p) <= Len(f)
    BY <1>4, <1>7, <1>11
  <2> QED
    BY <2>1, <2>2 DEF Hits
<1> QED
  BY <1>10, <1>13, <1>14 DEF Shares

LEMMA ConflictIsShared ==
    ASSUME body \in Bodies, NEW t \in DOMAIN body.types, NEW p \in Path, NEW q \in Path,
           Provable(p), Provable(q), ~Empty(p), ~Empty(q), Fits(p, t), Fits(q, t),
           PathsConflict(p, q)
    PROVE  Shares(p, q, t)
<1>1. /\ Len(p) \in Nat /\ DOMAIN p = 1 .. Len(p)
      /\ Len(q) \in Nat /\ DOMAIN q = 1 .. Len(q)
      /\ \A i \in DOMAIN p : p[i] \in Seg
      /\ \A i \in DOMAIN q : q[i] \in Seg
  BY DEF Path
<1>2. PICK D : D = {i \in DOMAIN p \cap DOMAIN q : p[i] # q[i]}
  OBVIOUS
<1>3. CASE D = {}
  <2>1. CASE Len(p) <= Len(q)
    <3>1. \A i \in DOMAIN p : p[i] = q[i]
      BY <1>1, <1>2, <1>3, <2>1
    <3> QED
      BY <2>1, <3>1, PrefixShares
  <2>2. CASE ~ Len(p) <= Len(q)
    <3>1. Len(q) <= Len(p) /\ \A i \in DOMAIN q : q[i] = p[i]
      BY <1>1, <1>2, <1>3, <2>2
    <3>2. Shares(q, p, t)
      BY <3>1, PrefixShares
    <3> QED
      BY <3>2 DEF Shares
  <2> QED
    BY <2>1, <2>2
<1>4. CASE D # {}
  <2>1. D \subseteq Nat
    BY <1>1, <1>2
  <2>2. PICK i \in D : \A j \in D : i <= j
    BY <1>4, <2>1, LeastNatural
  <2>3. /\ i \in DOMAIN p \cap DOMAIN q /\ p[i] # q[i]
        /\ \A j \in 1 .. i - 1 : p[j] = q[j] /\ q[j] = p[j]
    BY <1>1, <1>2, <2>2
  <2>4. Overlap(p[i], q[i]) /\ Overlap(q[i], p[i])
    BY <2>3 DEF PathsConflict, Overlap
  <2>5. Low(p[i]) \in Int /\ Low(q[i]) \in Int /\ High(p[i]) \in Int /\ High(q[i]) \in Int
        /\ Low(p[i]) < High(q[i]) /\ Low(q[i]) < High(p[i])
    BY <2>4, RangesAreNumbers DEF Overlap
  <2>6. \/ p[i].kind # "at" /\ Low(p[i]) <= Low(q[i])
        \/ q[i].kind # "at" /\ Low(q[i]) <= Low(p[i])
    <3>1. p[i] \in Seg /\ q[i] \in Seg
      BY <1>1, <2>3
    <3>2. \A s \in Seg : s.kind = "at" => Low(s) = s.lo /\ High(s) = Low(s) + 1 /\ s = At(s.lo)
      BY SegmentParts DEF Low, High
    <3>3. ~ (p[i].kind = "at" /\ q[i].kind = "at")
      BY <2>3, <2>5, <3>1, <3>2
    <3>4. CASE p[i].kind = "at"
      BY <2>5, <3>1, <3>2, <3>3, <3>4
    <3>5. CASE q[i].kind = "at"
      BY <2>5, <3>1, <3>2, <3>3, <3>5
    <3>6. CASE p[i].kind # "at" /\ q[i].kind # "at"
      BY <2>5, <3>6
    <3> QED
      BY <3>4, <3>5, <3>6
  <2>7. CASE p[i].kind # "at" /\ Low(p[i]) <= Low(q[i])
    BY <2>3, <2>4, <2>7, RangeShares
  <2>8. CASE q[i].kind # "at" /\ Low(q[i]) <= Low(p[i])
    <3>1. i \in DOMAIN q \cap DOMAIN p
      BY <2>3
    <3>2. Shares(q, p, t)
      BY <2>3, <2>4, <2>8, <3>1, RangeShares
    <3> QED
      BY <3>2 DEF Shares
  <2> QED
    BY <2>6, <2>7, <2>8
<1> QED
  BY <1>3, <1>4

(* In any body whose drives are of places within their types: where two    *)
(* drivers are reported, two of those counted do hit the same element, or  *)
(* at least one of the two is of no provable or of an empty range.         *)
THEOREM MultipleAreGenuine == Spec /\ []PlacesFit => []MultipleIsGenuine
<1>1. Checked /\ Walking /\ Grounded /\ PlacesFit => MultipleIsGenuine
  <2> SUFFICES ASSUME Checked, Walking, Grounded, PlacesFit, pc = "done",
                      NEW l \in DOMAIN body.locals, Reported("multiple", l)
               PROVE  \E i, j \in DOMAIN drives[l] : LET p == drives[l][i] q == drives[l][j] IN
                        /\ i < j
                        /\ \/ ~Provable(p) \/ ~Provable(q)
                           \/ \E e \in Elements[body.locals[l].ty] : Hits(p, e) /\ Hits(q, e)
                           \/ \E s \in {p[k] : k \in DOMAIN p} \cup {q[k] : k \in DOMAIN q} :
                                s.kind # "field" /\ Low(s) = High(s)
    BY DEF MultipleIsGenuine
  <2>1. PICK i \in DOMAIN drives[l], j \in DOMAIN drives[l] :
            i < j /\ PathsConflict(drives[l][i], drives[l][j])
    BY ReportsConflict DEF Conflicting
  <2>2. PICK p, q, t : p = drives[l][i] /\ q = drives[l][j] /\ t = body.locals[l].ty
    OBVIOUS
  <2>3. p \in Path /\ q \in Path /\ t \in DOMAIN body.types /\ body \in Bodies
    <3>1. drives[l] \in Seq(Path)
      BY DEF Walking
    <3> QED
      BY <2>2, <3>1, TypesOf DEF Walking
  <2>4. CASE Provable(p) /\ Provable(q) /\ ~Empty(p) /\ ~Empty(q)
    <3>1. Fits(p, t) /\ Fits(q, t)
      BY <2>2, <2>4 DEF PlacesFit, Fits
    <3>2. Shares(p, q, t)
      BY <2>1, <2>2, <2>3, <2>4, <3>1, ConflictIsShared
    <3> QED
      BY <2>1, <2>2, <3>2 DEF Shares
  <2>5. CASE ~Provable(p) \/ ~Provable(q)
    BY <2>1, <2>2, <2>5
  <2>6. CASE Empty(p) \/ Empty(q)
    <3>1. \E s \in {p[k] : k \in DOMAIN p} \cup {q[k] : k \in DOMAIN q} :
              s.kind # "field" /\ Low(s) = High(s)
      BY <2>6 DEF Empty
    <3> QED
      BY <2>1, <2>2, <3>1
  <2> QED
    BY <2>4, <2>5, <2>6
<1>2. Init => Grounded
  BY DEF Init, Grounded
<1> QED
  BY <1>1, <1>2, CheckedAtFirst, CheckedKept, WalkingAtFirst, WalkingKept, GroundedKept, PTL DEF Spec
=============================================================================
