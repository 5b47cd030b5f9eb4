-------------------------- MODULE MonoCheckProofs --------------------------
(***************************************************************************)
(* What holds of the walk of mono_check for any crate, fuel, budget and    *)
(* limits of the evaluator.                                                *)
(***************************************************************************)
EXTENDS MonoCheck, WellFoundedInduction, TLAPS

----------------------------------------------------------------------------
(* Lemmas about the operators. *)

LEMMA AddLast ==
    ASSUME NEW S, NEW s \in Seq(S), NEW e \in S
    PROVE  /\ Append(s, e) \in Seq(S)
           /\ Len(s) \in Nat /\ Len(Append(s, e)) = Len(s) + 1
           /\ Append(s, e)[Len(s) + 1] = e
           /\ \A i \in 1 .. Len(s) : Append(s, e)[i] = s[i]
  OBVIOUS

LEMMA OverType ==
    ASSUME NEW a \in Int, NEW b \in Int
    PROVE  Over(a, b) \in Number
  <1> DEFINE abs(n) == IF n < 0 THEN -n ELSE n
  <1>1. CASE b = 0
    BY <1>1 DEF Over, Number
  <1>2. CASE b # 0
    <2>1. abs(a) \in Nat /\ abs(b) \in Nat \ {0}
      BY <1>2
    <2> DEFINE q == abs(a) \div abs(b)
    <2>2. q \in Int
      <3> HIDE DEF abs
      <3> QED BY <2>1
    <2>3. Over(a, b) = IF (a < 0) = (b < 0) THEN q ELSE -q
      BY <1>2 DEF Over
    <2> HIDE DEF q
    <2> QED
      BY <2>2, <2>3 DEF Number
  <1> QED
    BY <1>1, <1>2

LEMMA SubstitutedType ==
    ASSUME NEW t \in Term, NEW subst \in Seq(Tree)
    PROVE  Substituted(t, subst) \in Tree
  <1>1. CASE t.op = "lit"
    BY <1>1 DEF Substituted, Tree, Term, Number
  <1>2. CASE t.op # "lit" /\ (t.op = "open" \/ t.of \notin DOMAIN subst)
    BY <1>2 DEF Substituted, Tree, Number
  <1>3. CASE t.op # "lit" /\ ~(t.op = "open" \/ t.of \notin DOMAIN subst)
    <2> DEFINE v == subst[t.of]
               over(n) == IF v.num \in {Open, Failed} THEN v.num ELSE n
    <2>1. v \in Tree /\ v.num \in Number /\ v.size \in Nat
      <3>1. subst[t.of] \in Tree
        BY <1>3
      <3> QED
        BY <3>1 DEF Tree
    <2>2. t.num \in Int /\ t.op \in {"par", "add", "twice", "div"}
      BY <1>3 DEF Term
    <2>3. over(v.num + t.num) \in Number /\ over(v.num + v.num) \in Number
      BY <2>1, <2>2 DEF Number
    <2>4. over(Over(t.num, v.num)) \in Number
      <3>1. CASE v.num \in {Open, Failed}
        BY <3>1, <2>1
      <3>2. CASE v.num \notin {Open, Failed}
        <4>1. v.num \in Int
          BY <3>2, <2>1 DEF Number
        <4> QED
          BY <3>2, <4>1, <2>2, OverType
      <3> QED BY <3>1, <3>2
    <2>5. Substituted(t, subst) =
            CASE t.op = "par"   -> v
              [] t.op = "add"   -> [num |-> over(v.num + t.num), size |-> v.size + 2]
              [] t.op = "twice" -> [num |-> over(v.num + v.num), size |-> 2 * v.size + 1]
              [] t.op = "div"   -> [num |-> over(Over(t.num, v.num)), size |-> v.size + 2]
      BY <1>3 DEF Substituted
    <2> HIDE DEF v, over
    <2>6. CASE t.op = "par"
      BY <2>6, <2>5, <2>1
    <2>7. CASE t.op = "add"
      BY <2>7, <2>5, <2>1, <2>3 DEF Tree
    <2>8. CASE t.op = "twice"
      BY <2>8, <2>5, <2>1, <2>3 DEF Tree
    <2>9. CASE t.op = "div"
      BY <2>9, <2>5, <2>1, <2>4 DEF Tree
    <2> QED
      BY <2>2, <2>6, <2>7, <2>8, <2>9
  <1> QED
    BY <1>1, <1>2, <1>3

LEMMA ValueType ==
    ASSUME NEW t \in Term, NEW subst \in Seq(Tree)
    PROVE  Value(t, subst) \in Number
  <1>1. Substituted(t, subst).num \in Number
    BY SubstitutedType DEF Tree
  <1> QED
    BY <1>1 DEF Value, Number

LEMMA ComposeType ==
    ASSUME NEW args \in Seq(Term), NEW subst \in Seq(Tree)
    PROVE  Compose(args, subst) \in Seq(Tree)
  <1>1. \A i \in 1 .. Len(args) : Substituted(args[i], subst) \in Tree
    BY SubstitutedType
  <1> QED
    BY <1>1 DEF Compose

(* The parts of a def of the crate. *)
LEMMA DefParts ==
    ASSUME crate \in Crates, NEW d \in DOMAIN crate
    PROVE  /\ crate[d].calls \in Seq(Call)
           /\ crate[d].obligations \in Seq(Obligation)
           /\ d \in Nat
           /\ \A i \in DOMAIN crate[d].calls :
                 /\ crate[d].calls[i].callee \in DOMAIN crate
                 /\ crate[d].calls[i].args \in Seq(Term)
  <1>1. crate \in Seq(Def)
    BY CratesAssumption
  <1>2. crate[d] \in Def /\ d \in Nat
    BY <1>1
  <1>3. crate[d].calls \in Seq(Call) /\ crate[d].obligations \in Seq(Obligation)
    BY <1>2 DEF Def
  <1>4. \A i \in DOMAIN crate[d].calls : crate[d].calls[i].args \in Seq(Term)
    <2>1. \A i \in DOMAIN crate[d].calls : crate[d].calls[i] \in Call
      BY <1>3
    <2> QED
      BY <2>1 DEF Call
  <1> QED
    BY <1>2, <1>3, <1>4, CratesAssumption

LEMMA PushesMessages ==
    ASSUME crate \in Crates, NEW d \in DOMAIN crate, NEW subst \in Seq(Tree)
    PROVE  CheckObligations(d, subst) \in SUBSET Message
  <1>1. d \in Nat /\ ObligationsOf(d) \subseteq Obligation
    BY DefParts DEF ObligationsOf
  <1>2. ASSUME NEW o \in Obligation
        PROVE  Says(o, d, subst) \in Message
    <2>1. o.left \in Term /\ o.right \in Term /\ o.kind \in Kinds
      BY DEF Obligation
    <2>2. Value(o.left, subst) \in Number /\ Value(o.right, subst) \in Number
      BY <2>1, ValueType
    <2> QED
      BY <1>1, <2>1, <2>2 DEF Says, Message
  <1> QED
    BY <1>1, <1>2 DEF CheckObligations

(* Entering compose_check keeps the types, and pushes at most what was     *)
(* found, at the call of `w`.                                              *)
LEMMA EntryKeeps ==
    ASSUME crate \in Crates, UNCHANGED crate, out \in Seq(Diagnostics), cut \in BOOLEAN,
           NEW w \in [def : DOMAIN crate, call : Nat], NEW left \in 0 .. Budget,
           NEW d \in DOMAIN crate, NEW subst \in Seq(Tree),
           NEW rest, Chain(rest), Len(rest) <= Fuel, NEW fuel, fuel = Fuel - Len(rest),
           ComposeCheck(w, left, d, subst, fuel, rest)
    PROVE  /\ Chain(stack)'
           /\ budget' \in 0 .. Budget
           /\ out' \in Seq(Diagnostics)
           /\ cut' \in BOOLEAN
  <1> DEFINE new == [callee |-> d, subst |-> subst, fuel |-> fuel, next |-> 1]
             diag == [def |-> w.def, span |-> w.call, msgs |-> CheckObligations(d, subst)]
  <1>1. rest \in Seq(Frame) /\ Len(rest) \in Nat
    BY DEF Chain
  <1>2. fuel \in Nat
    BY <1>1, LimitsAssumption
  <1>3. Len(crate[d].calls) \in Nat /\ d \in Nat
    BY DefParts
  <1>4. new \in Frame
    BY <1>2, <1>3 DEF Frame
  <1>5. diag \in Diagnostics
    <2>1. w.def \in Nat /\ w.call \in Nat
      BY DefParts
    <2> QED
      BY <2>1, PushesMessages DEF Diagnostics
  <1>6. fuel > 0 => Chain(Append(rest, new))
    <2>1. SUFFICES ASSUME fuel > 0
                   PROVE  Chain(Append(rest, new))
      OBVIOUS
    <2> DEFINE s == Append(rest, new)
    <2>2. /\ s \in Seq(Frame) /\ Len(s) = Len(rest) + 1
          /\ s[Len(rest) + 1] = new
          /\ \A i \in 1 .. Len(rest) : s[i] = rest[i]
      BY <1>1, <1>4, AddLast
    <2>3. SUFFICES ASSUME NEW i \in DOMAIN s
                   PROVE  /\ s[i].callee \in DOMAIN crate
                          /\ s[i].next \in 1 .. Len(crate[s[i].callee].calls) + 1
                          /\ s[i].fuel = Fuel - (i - 1) /\ s[i].fuel > 0
      BY <2>2 DEF Chain
    <2> HIDE DEF s
    <2>4. CASE i = Len(rest) + 1
      BY <2>4, <2>2, <2>1, <1>3, <1>1, LimitsAssumption
    <2>5. CASE i \in 1 .. Len(rest)
      <3>1. i \in DOMAIN rest /\ s[i] = rest[i]
        BY <2>5, <2>2, <1>1
      <3> QED
        BY <3>1 DEF Chain
    <2>6. i \in 1 .. Len(rest) + 1
      BY <2>2, <1>1
    <2> QED
      BY <2>4, <2>5, <2>6, <1>1
  <1>7. CASE left = 0
    BY <1>7 DEF ComposeCheck, Chain
  <1>8. CASE left # 0
    <2>1. /\ budget' = left - 1
          /\ out' = Append(out, diag)
          /\ stack' = IF fuel = 0 THEN rest ELSE Append(rest, new)
          /\ cut' = cut
      BY <1>8 DEF ComposeCheck
    <2>2. out' \in Seq(Diagnostics)
      BY <2>1, <1>5, AddLast
    <2>3. Chain(stack')
      BY <2>1, <1>6, <1>2
    <2>4. Chain(stack)'
      BY <2>3 DEF Chain
    <2>5. budget' \in 0 .. Budget
      BY <2>1, <1>8, LimitsAssumption
    <2> QED
      BY <2>1, <2>2, <2>4, <2>5
  <1> QED
    BY <1>7, <1>8

(* The innermost call under way and its caller's loop. *)
LEMMA Innermost ==
    ASSUME crate \in Crates, Chain(stack), stack # <<>>
    PROVE  /\ Last \in DOMAIN stack /\ Last \in Nat /\ Last = Len(stack) /\ Last <= Fuel
           /\ Top.callee \in DOMAIN crate /\ Top.subst \in Seq(Tree)
           /\ Top.next \in Nat \ {0} /\ Top.fuel = Fuel - (Last - 1)
           /\ Chain(SubSeq(stack, 1, Last - 1))
           /\ Top.next <= Len(crate[Top.callee].calls) => Chain(Advanced) /\ Len(Advanced) = Last
  <1>1. stack \in Seq(Frame) /\ Last \in DOMAIN stack /\ Last \in Nat \ {0}
    BY DEF Chain, Last
  <1>2. /\ Top \in Frame
        /\ Top.callee \in DOMAIN crate
        /\ Top.next \in 1 .. Len(crate[Top.callee].calls) + 1
        /\ Top.fuel = Fuel - (Last - 1) /\ Top.fuel > 0
    BY <1>1 DEF Top, Chain
  <1>3. Len(crate[Top.callee].calls) \in Nat
    BY <1>2, DefParts
  <1>4. Top.subst \in Seq(Tree)
    BY <1>2 DEF Frame
  <1>5. Last <= Fuel
    BY <1>1, <1>2, LimitsAssumption
  <1>6. Chain(SubSeq(stack, 1, Last - 1))
    <2> DEFINE s == SubSeq(stack, 1, Last - 1)
    <2>1. /\ s \in Seq(Frame) /\ DOMAIN s = 1 .. Last - 1
          /\ \A i \in 1 .. Last - 1 : s[i] = stack[i] /\ i \in DOMAIN stack
      BY <1>1 DEF Last
    <2>2. Chain(s)
      <3> HIDE DEF s
      <3> QED BY <2>1 DEF Chain
    <2> QED
      BY <2>2
  <1>7. ASSUME Top.next <= Len(crate[Top.callee].calls)
        PROVE  Chain(Advanced) /\ Len(Advanced) = Last
    <2> DEFINE s == Advanced
    <2>1. /\ Top.next + 1 \in 1 .. Len(crate[Top.callee].calls) + 1
          /\ [Top EXCEPT !.next = @ + 1] \in Frame
      BY <1>2, <1>3, <1>7 DEF Frame
    <2>2. /\ s \in Seq(Frame) /\ Len(s) = Last /\ DOMAIN s = DOMAIN stack
          /\ s[Last] = [Top EXCEPT !.next = @ + 1]
          /\ \A i \in DOMAIN stack : i # Last => s[i] = stack[i]
      BY <1>1, <2>1 DEF Advanced, Top, Last
    <2>3. SUFFICES ASSUME NEW i \in DOMAIN s
                   PROVE  /\ s[i].callee \in DOMAIN crate
                          /\ s[i].next \in 1 .. Len(crate[s[i].callee].calls) + 1
                          /\ s[i].fuel = Fuel - (i - 1) /\ s[i].fuel > 0
      BY <2>2 DEF Chain
    <2> HIDE DEF s
    <2>4. CASE i = Last
      <3>1. /\ s[i].callee = Top.callee /\ s[i].next = Top.next + 1
            /\ s[i].fuel = Top.fuel
        BY <2>4, <2>2, <1>2 DEF Frame
      <3>2. s[i].fuel = Fuel - (i - 1) /\ s[i].fuel > 0
        BY <3>1, <2>4, <1>2
      <3> QED
        BY <3>1, <3>2, <2>1, <1>2
    <2>5. CASE i # Last
      BY <2>5, <2>2 DEF Chain
    <2> QED
      BY <2>4, <2>5
  <1> QED
    BY <1>1, <1>2, <1>4, <1>5, <1>6, <1>7 DEF Last

----------------------------------------------------------------------------
(* The invariant: types, what a call has spent, and that what was pushed   *)
(* lies in the order of the defs.                                          *)

Spent == Len(checked) + budget <= Budget

DefsInOrder ==
    \A i, j \in DOMAIN out : i <= j =>
        out[i].def <= out[j].def /\ out[j].def <= at.def

LEMMA InitOK == Init => TypeOK /\ Spent /\ DefsInOrder
  <1> SUFFICES ASSUME Init
               PROVE  TypeOK /\ Spent /\ DefsInOrder
    OBVIOUS
  <1>1. 1 \in DOMAIN crate /\ Len(crate[1].calls) \in Nat
    <2>1. crate \in Seq(Def) /\ crate # <<>>
      BY CratesAssumption DEF Init
    <2>2. 1 \in DOMAIN crate
      BY <2>1
    <2> QED
      BY <2>2, DefParts DEF Init
  <1>2. Chain(<<>>)
    BY DEF Chain
  <1>3. TypeOK
    <2>1. at \in [def : DOMAIN crate, call : Nat] /\ at.call <= Len(crate[at.def].calls)
      BY <1>1 DEF Init
    <2>2. budget \in 0 .. Budget
      BY LimitsAssumption DEF Init
    <2>3. Chain(stack)
      BY <1>2 DEF Init
    <2>4. crate \in Crates /\ out \in Seq(Diagnostics) /\ checked \in Seq(Nat \X Seq(Tree))
      BY DEF Init
    <2> QED
      BY <2>1, <2>2, <2>3, <2>4 DEF Init, TypeOK
  <1> QED
    BY <1>3, LimitsAssumption DEF Init, Spent, DefsInOrder

(* An entry at a later place keeps the order of the defs. *)
LEMMA EntryKeepsOrder ==
    ASSUME TypeOK, DefsInOrder, TypeOK',
           at'.def >= at.def,
           \/ UNCHANGED out
           \/ \E ms : out' = Append(out, [def |-> at'.def, span |-> at'.call, msgs |-> ms])
    PROVE  DefsInOrder'
  <1>1. /\ out \in Seq(Diagnostics) /\ out' \in Seq(Diagnostics)
        /\ Len(out) \in Nat
        /\ at.def \in Nat /\ at'.def \in Nat
    <2>1. at.def \in DOMAIN crate /\ crate \in Seq(Def)
      BY CratesAssumption DEF TypeOK
    <2>2. at'.def \in DOMAIN crate' /\ crate' \in Seq(Def)
      BY CratesAssumption DEF TypeOK
    <2> QED
      BY <2>1, <2>2 DEF TypeOK
  <1>2. \A i \in DOMAIN out : out[i].def \in Nat
    <2>1. \A i \in DOMAIN out : out[i] \in Diagnostics
      BY <1>1
    <2> QED
      BY <2>1 DEF Diagnostics
  <1>3. CASE UNCHANGED out
    BY <1>1, <1>2, <1>3 DEF DefsInOrder
  <1>4. ASSUME NEW ms, out' = Append(out, [def |-> at'.def, span |-> at'.call, msgs |-> ms])
        PROVE  DefsInOrder'
    <2>1. /\ DOMAIN out' = 1 .. Len(out) + 1
          /\ out'[Len(out) + 1].def = at'.def
          /\ \A i \in 1 .. Len(out) : out'[i] = out[i]
      BY <1>1, <1>4
    <2>2. \A i \in DOMAIN out' : out'[i].def <= at'.def
      BY <2>1, <1>1, <1>2 DEF DefsInOrder
    <2> SUFFICES ASSUME NEW i \in DOMAIN out', NEW j \in DOMAIN out', i <= j
                 PROVE  out'[i].def <= out'[j].def
      BY <2>2 DEF DefsInOrder
    <2>3. CASE j = Len(out) + 1
      BY <2>3, <2>1, <2>2
    <2>4. CASE j # Len(out) + 1
      <3>1. i \in DOMAIN out /\ j \in DOMAIN out
        BY <2>4, <2>1, <1>1
      <3> QED
        BY <3>1, <2>1, <1>1 DEF DefsInOrder
    <2> QED
      BY <2>3, <2>4
  <1> QED
    BY <1>3, <1>4

LEMMA StepOK ==
    TypeOK /\ Spent /\ DefsInOrder /\ [Next]_vars => TypeOK' /\ Spent' /\ DefsInOrder'
  <1> SUFFICES ASSUME TypeOK, Spent, DefsInOrder, [Next]_vars
               PROVE  TypeOK' /\ Spent' /\ DefsInOrder'
    OBVIOUS
  <1>1. /\ crate \in Crates /\ crate \in Seq(Def) /\ DOMAIN crate = 1 .. Len(crate)
        /\ at \in [def : DOMAIN crate, call : Nat] /\ at.def \in DOMAIN crate
        /\ out \in Seq(Diagnostics) /\ cut \in BOOLEAN /\ Chain(stack)
        /\ checked \in Seq(Nat \X Seq(Tree)) /\ Len(checked) \in Nat
        /\ budget \in Nat
    BY CratesAssumption DEF TypeOK
  <1>2. CASE CheckCall
    <2> DEFINE w == [at EXCEPT !.call = @ + 1]
               c == crate[w.def].calls[w.call]
               subst == Compose(c.args, <<>>)
    <2>1. /\ at' = w /\ UNCHANGED <<crate, done>>
          /\ ComposeCheck(w, Budget, c.callee, subst, Fuel, <<>>)
          /\ Checked(<<c.callee, subst>>, Budget, <<>>)
          /\ at.call < Len(crate[at.def].calls)
      BY <1>2 DEF CheckCall
    <2>2. /\ w \in [def : DOMAIN crate, call : Nat]
          /\ w.def = at.def /\ w.call = at.call + 1 /\ at.call \in Nat
      BY <1>1
    <2>3. w.call \in DOMAIN crate[w.def].calls
      <3>1. crate[at.def].calls \in Seq(Call)
        BY <1>1, DefParts
      <3> QED
        BY <3>1, <2>1, <2>2
    <2>4. c.callee \in DOMAIN crate /\ subst \in Seq(Tree) /\ c.callee \in Nat
      <3>1. c.callee \in DOMAIN crate /\ c.args \in Seq(Term)
        BY <1>1, <2>2, <2>3, DefParts
      <3>2. <<>> \in Seq(Tree)
        OBVIOUS
      <3>3. subst \in Seq(Tree)
        <4> HIDE DEF c
        <4> QED BY <3>1, <3>2, ComposeType
      <3>4. c.callee \in Nat
        <4> HIDE DEF c
        <4> QED BY <3>1, <1>1
      <3> QED
        BY <3>1, <3>3, <3>4
    <2> HIDE DEF w, c, subst
    <2>5. Chain(<<>>) /\ Len(<<>>) <= Fuel /\ Fuel = Fuel - Len(<<>>) /\ Budget \in 0 .. Budget
      BY LimitsAssumption DEF Chain
    <2>6. /\ Chain(stack)' /\ budget' \in 0 .. Budget
          /\ out' \in Seq(Diagnostics) /\ cut' \in BOOLEAN
      BY <1>1, <2>1, <2>2, <2>4, <2>5, EntryKeeps
    <2>7. /\ checked' = IF Budget = 0 THEN <<>> ELSE Append(<<>>, <<c.callee, subst>>)
          /\ budget' = IF Budget = 0 THEN 0 ELSE Budget - 1
      BY <2>1 DEF Checked, ComposeCheck
    <2>8. checked' \in Seq(Nat \X Seq(Tree)) /\ Spent'
      <3>1. CASE Budget = 0
        BY <3>1, <2>7 DEF Spent
      <3>2. CASE Budget # 0
        <4>1. checked' = Append(<<>>, <<c.callee, subst>>) /\ budget' = Budget - 1
          BY <3>2, <2>7
        <4>2. <<c.callee, subst>> \in Nat \X Seq(Tree) /\ <<>> \in Seq(Nat \X Seq(Tree))
          BY <2>4
        <4>3. checked' \in Seq(Nat \X Seq(Tree)) /\ Len(checked') = Len(<<>>) + 1
          BY <4>1, <4>2, AddLast
        <4> QED
          BY <4>1, <4>3, LimitsAssumption DEF Spent
      <3> QED
        BY <3>1, <3>2
    <2>9. TypeOK'
      <3>1. w.call <= Len(crate[w.def].calls)
        BY <2>1, <2>2, <1>1, DefParts
      <3> QED
        BY <2>1, <2>2, <2>6, <2>8, <3>1 DEF TypeOK
    <2>10. DefsInOrder'
      <3>1. \/ UNCHANGED out
            \/ \E ms : out' = Append(out, [def |-> at'.def, span |-> at'.call, msgs |-> ms])
        BY <2>1 DEF ComposeCheck
      <3>2. at'.def >= at.def
        BY <2>1, <2>2, <1>1
      <3> QED
        BY <2>9, <3>1, <3>2, EntryKeepsOrder
    <2> QED
      BY <2>8, <2>9, <2>10
  <1>3. CASE NextDef
    <2>1. /\ UNCHANGED <<crate, stack, budget, out, checked, cut>>
          /\ \/ at.def < Len(crate) /\ at' = [def |-> at.def + 1, call |-> 0] /\ done' = done
             \/ at' = at /\ done' = TRUE
      BY <1>3 DEF NextDef
    <2>2. /\ at' \in [def : DOMAIN crate, call : Nat]
          /\ at'.call <= Len(crate[at'.def].calls)
          /\ at'.def >= at.def
      <3>1. CASE at' = at
        BY <3>1, <1>1 DEF TypeOK
      <3>2. CASE at.def < Len(crate) /\ at' = [def |-> at.def + 1, call |-> 0]
        <4>1. at.def + 1 \in DOMAIN crate
          BY <3>2, <1>1
        <4>2. Len(crate[at.def + 1].calls) \in Nat
          BY <4>1, <1>1, DefParts
        <4> QED
          BY <3>2, <4>1, <4>2, <1>1
      <3> QED
        BY <2>1, <3>1, <3>2
    <2>3. TypeOK'
      BY <2>1, <2>2 DEF TypeOK, Chain
    <2>4. DefsInOrder'
      BY <2>1, <2>2, <2>3, EntryKeepsOrder
    <2> QED
      BY <2>1, <2>3, <2>4 DEF Spent
  <1>4. CASE SkipGround
    <2>1. /\ UNCHANGED <<crate, at, budget, out, done, checked, cut>>
          /\ stack' = Advanced /\ stack # <<>>
          /\ Top.next <= Len(crate[Top.callee].calls)
      BY <1>4 DEF SkipGround
    <2>2. Chain(Advanced)
      BY <1>1, <2>1, Innermost
    <2>3. Chain(stack)'
      BY <2>1, <2>2 DEF Chain
    <2> QED
      BY <2>1, <2>3 DEF TypeOK, Spent, DefsInOrder
  <1>5. CASE Descend
    <2> DEFINE callee == InnerCall.callee
               subst == Compose(InnerCall.args, Top.subst)
    <2>1. /\ UNCHANGED <<crate, at, done>>
          /\ stack # <<>> /\ Top.next <= Len(crate[Top.callee].calls)
          /\ ComposeCheck(at, budget, callee, subst, Top.fuel - 1, Advanced)
          /\ Checked(<<callee, subst>>, budget, checked)
      BY <1>5 DEF Descend
    <2>2. /\ Top.callee \in DOMAIN crate /\ Top.subst \in Seq(Tree)
          /\ Top.next \in Nat \ {0} /\ Last \in Nat /\ Last <= Fuel
          /\ Top.fuel = Fuel - (Last - 1)
          /\ Chain(Advanced) /\ Len(Advanced) = Last
      BY <1>1, <2>1, Innermost
    <2>3. Top.next \in DOMAIN crate[Top.callee].calls
      <3>1. crate[Top.callee].calls \in Seq(Call)
        BY <1>1, <2>2, DefParts
      <3> QED
        BY <3>1, <2>1, <2>2
    <2>4. callee \in DOMAIN crate /\ subst \in Seq(Tree) /\ callee \in Nat
      <3>1. callee \in DOMAIN crate /\ InnerCall.args \in Seq(Term)
        BY <1>1, <2>2, <2>3, DefParts DEF InnerCall
      <3> QED
        BY <1>1, <2>2, <3>1, ComposeType
    <2> HIDE DEF callee, subst
    <2>5. /\ Len(Advanced) <= Fuel /\ Top.fuel - 1 = Fuel - Len(Advanced)
          /\ budget \in 0 .. Budget
      BY <2>2, LimitsAssumption DEF TypeOK
    <2>6. /\ Chain(stack)' /\ budget' \in 0 .. Budget
          /\ out' \in Seq(Diagnostics) /\ cut' \in BOOLEAN
      BY <1>1, <2>1, <2>2, <2>4, <2>5, EntryKeeps
    <2>7. /\ checked' = IF budget = 0 THEN checked ELSE Append(checked, <<callee, subst>>)
          /\ budget' = IF budget = 0 THEN 0 ELSE budget - 1
      BY <2>1 DEF Checked, ComposeCheck
    <2>8. checked' \in Seq(Nat \X Seq(Tree)) /\ Spent'
      <3>1. CASE budget = 0
        BY <3>1, <2>7, <1>1 DEF Spent
      <3>2. CASE budget # 0
        <4>1. checked' = Append(checked, <<callee, subst>>) /\ budget' = budget - 1
          BY <3>2, <2>7
        <4>2. <<callee, subst>> \in Nat \X Seq(Tree)
          BY <2>4
        <4>3. checked' \in Seq(Nat \X Seq(Tree)) /\ Len(checked') = Len(checked) + 1
          BY <4>1, <4>2, <1>1, AddLast
        <4> QED
          BY <4>1, <4>3, <1>1, LimitsAssumption DEF Spent
      <3> QED
        BY <3>1, <3>2
    <2>9. TypeOK'
      BY <2>1, <2>6, <2>8 DEF TypeOK
    <2>10. DefsInOrder'
      <3>1. \/ UNCHANGED out
            \/ \E ms : out' = Append(out, [def |-> at'.def, span |-> at'.call, msgs |-> ms])
        BY <2>1 DEF ComposeCheck
      <3>2. at'.def >= at.def
        BY <2>1, <1>1
      <3> QED
        BY <2>9, <3>1, <3>2, EntryKeepsOrder
    <2> QED
      BY <2>8, <2>9, <2>10
  <1>6. CASE Return
    <2>1. /\ UNCHANGED <<crate, at, budget, out, done, checked, cut>>
          /\ stack' = SubSeq(stack, 1, Last - 1) /\ stack # <<>>
      BY <1>6 DEF Return
    <2>2. Chain(SubSeq(stack, 1, Last - 1))
      BY <1>1, <2>1, Innermost
    <2>3. Chain(stack)'
      BY <2>1, <2>2 DEF Chain
    <2> QED
      BY <2>1, <2>3 DEF TypeOK, Spent, DefsInOrder
  <1>7. CASE UNCHANGED vars
    BY <1>7 DEF vars, TypeOK, Chain, Spent, DefsInOrder
  <1> QED
    BY <1>2, <1>3, <1>4, <1>5, <1>6, <1>7 DEF Next

LEMMA Invariant == Spec => [](TypeOK /\ Spent /\ DefsInOrder)
  BY InitOK, StepOK, PTL DEF Spec

(* Every step of the walk keeps the types: in particular every instance    *)
(* under way is of a def of the crate, with as much fuel as its depth      *)
(* leaves it.                                                              *)
THEOREM TypeCorrect == Spec => []TypeOK
  BY Invariant, PTL

(* The walk is bounded for any calls, recursive ones included.             *)
THEOREM Bounded == Spec => []WorkBounded
  <1>1. TypeOK /\ Spent => WorkBounded
    <2> SUFFICES ASSUME TypeOK, Spent
                 PROVE  WorkBounded
      OBVIOUS
    <2>1. Len(stack) <= Fuel
      <3>1. CASE stack = <<>>
        BY <3>1, LimitsAssumption
      <3>2. CASE stack # <<>>
        BY <3>2, Innermost DEF TypeOK
      <3> QED
        BY <3>1, <3>2
    <2>2. Len(checked) <= Budget
      BY LimitsAssumption DEF TypeOK, Spent
    <2> QED
      BY <2>1, <2>2 DEF WorkBounded
  <1> QED
    BY <1>1, Invariant, PTL

----------------------------------------------------------------------------
(* Reporting once. *)

LEMMA Least ==
    ASSUME NEW T, T \subseteq Nat, T # {}
    PROVE  \E m \in T : \A k \in T : m <= k
  <1> DEFINE R == {p \in Nat \X Nat : p[1] < p[2]}
  <1>1. IsWellFoundedOn(R, Nat)
    BY NatLessThanWellFounded DEF OpToRel
  <1>2. PICK m \in T : \A k \in T : ~(<<k, m>> \in R)
    <2> HIDE DEF R
    <2> QED BY <1>1, WFMin
  <1>3. ASSUME NEW k \in T
        PROVE  m <= k
    <2>1. m \in Nat /\ k \in Nat /\ ~(<<k, m>> \in R)
      BY <1>2
    <2>2. k < m => <<k, m>> \in R
      BY <2>1
    <2> QED
      BY <2>1, <2>2
  <1> QED
    BY <1>3

LEMMA Greatest ==
    ASSUME NEW T, NEW b \in Nat, T \subseteq 0 .. b, T # {}
    PROVE  \E m \in T : \A k \in T : k <= m
  <1> DEFINE R == {b - k : k \in T}
  <1>1. R \subseteq Nat /\ R # {}
    <2>1. \A k \in T : b - k \in Nat
      OBVIOUS
    <2>2. PICK k \in T : TRUE
      OBVIOUS
    <2>3. b - k \in R
      BY <2>2
    <2> QED
      BY <2>1, <2>3
  <1>2. PICK r \in R : \A q \in R : r <= q
    BY <1>1, Least
  <1>3. PICK m \in T : r = b - m
    OBVIOUS
  <1>4. ASSUME NEW k \in T
        PROVE  k <= m
    <2>1. b - k \in R
      OBVIOUS
    <2>2. b - m <= b - k
      BY <1>2, <1>3, <2>1
    <2>3. m \in Int /\ k \in Int
      OBVIOUS
    <2> HIDE DEF R
    <2> QED
      BY <2>2, <2>3
  <1> QED
    BY <1>4

(* Because defs are walked in order, what was pushed for a call lies       *)
(* together among all of its span, and the report has each message of a    *)
(* call exactly once.                                                      *)
THEOREM ReportedOnce == Spec => []EachReportedOnce
  <1>1. TypeOK /\ DefsInOrder => EachReportedOnce
    <2> SUFFICES ASSUME TypeOK, DefsInOrder, NEW i \in DOMAIN out, NEW m \in out[i].msgs
                 PROVE  \E k \in Kept(m) : /\ SameCall(k, i)
                                          /\ \A j \in Kept(m) : SameCall(j, i) => j = k
      BY DEF EachReportedOnce
    <2> DEFINE T == {k \in DOMAIN out : m \in out[k].msgs /\ SameCall(k, i)}
    <2>1. /\ DOMAIN out = 1 .. Len(out) /\ Len(out) \in Nat
          /\ \A k \in DOMAIN out : out[k].def \in Nat
      <3>1. out \in Seq(Diagnostics)
        BY DEF TypeOK
      <3>2. \A k \in DOMAIN out : out[k] \in Diagnostics
        BY <3>1
      <3> QED
        BY <3>1, <3>2 DEF Diagnostics
    <2>2. i \in T /\ T \subseteq Nat
      BY <2>1 DEF SameCall
    <2>3. PICK k \in T : \A j \in T : k <= j
      BY <2>2, Least
    <2>4. k \in DOMAIN out /\ m \in out[k].msgs /\ SameCall(k, i)
      BY <2>3
    <2>5. k \in Kept(m)
      <3> SUFFICES ASSUME NEW j \in DOMAIN out, Neighbours(j, k, m), out[j].def = out[k].def
                   PROVE  FALSE
        BY <2>4 DEF Kept
      <3>1. j < k /\ m \in out[j].msgs /\ out[j].span = out[k].span
        BY DEF Neighbours
      <3>2. j \in T
        BY <3>1, <2>4 DEF SameCall
      <3> QED
        BY <3>1, <3>2, <2>3, <2>1, <2>4
    <2>6. ASSUME NEW j \in Kept(m), SameCall(j, i), j # k
          PROVE  FALSE
      <3>1. j \in DOMAIN out /\ m \in out[j].msgs
        BY DEF Kept
      <3>2. j \in T
        BY <3>1, <2>6
      <3>3. k < j
        BY <3>2, <2>3, <2>6, <2>1, <2>4
      <3> DEFINE R == {h \in DOMAIN out :
                         h < j /\ m \in out[h].msgs /\ out[h].span = out[j].span}
      <3>4. k \in R
        BY <3>3, <2>4, <2>6 DEF SameCall
      <3>5. PICK h \in R : \A g \in R : g <= h
        <4>1. R \subseteq 0 .. Len(out) /\ R # {}
          BY <3>4, <2>1
        <4> QED
          BY <4>1, <2>1, Greatest
      <3>6. h \in DOMAIN out /\ h < j /\ m \in out[h].msgs /\ out[h].span = out[j].span
        BY <3>5
      <3>7. Neighbours(h, j, m)
        <4>1. \A g \in DOMAIN out : h < g /\ g < j =>
                ~(m \in out[g].msgs /\ out[g].span = out[j].span)
          BY <3>5, <3>6, <2>1, <3>1
        <4> QED
          BY <3>6, <4>1 DEF Neighbours
      <3>8. out[h].def = out[j].def
        <4>1. k <= h /\ h <= j
          BY <3>4, <3>5, <3>6, <2>1, <3>1
        <4>2. out[k].def <= out[h].def /\ out[h].def <= out[j].def
          BY <4>1, <3>6, <3>1, <2>4 DEF DefsInOrder
        <4>3. out[k].def = out[j].def
          BY <2>4, <2>6 DEF SameCall
        <4> QED
          BY <4>2, <4>3, <2>1, <3>6, <3>1, <2>4
      <3> QED
        BY <3>6, <3>7, <3>8 DEF Kept
    <2> QED
      BY <2>4, <2>5, <2>6
  <1> QED
    BY <1>1, Invariant, PTL
----------------------------------------------------------------------------
(* The report is exact: it has nothing but what is wrong with an           *)
(* instantiation within the fuel of the call it is reported at, and,       *)
(* unless a budget ran out, everything that is.                            *)

----------------------------------------------------------------------------
(* Instantiations, and those below one.                                    *)

Insts == (DOMAIN crate) \X Seq(Tree)

CallsOf(x) == crate[x[1]].calls
Step(x, i) == <<CallsOf(x)[i].callee, Compose(CallsOf(x)[i].args, x[2])>>

(* The walk goes on below call i: its arguments are not ground yet.        *)
Followed(x, i) == ~ConstsClosed(CallsOf(x)[i].args)

TopInst(d, k) == <<crate[d].calls[k].callee, Compose(crate[d].calls[k].args, <<>>)>>

LEMMA InstParts ==
    /\ \A x \in Insts : x = <<x[1], x[2]>> /\ x[1] \in DOMAIN crate /\ x[2] \in Seq(Tree)
    /\ \A a \in DOMAIN crate, b \in Seq(Tree) : <<a, b>> \in Insts
  <1> DEFINE A == DOMAIN crate
             B == Seq(Tree)
  <1>1. Insts = A \X B
    BY DEF Insts
  <1> HIDE DEF A, B
  <1>2. ASSUME NEW x \in A \X B
        PROVE  x = <<x[1], x[2]>> /\ x[1] \in A /\ x[2] \in B
    OBVIOUS
  <1>3. ASSUME NEW a \in A, NEW b \in B
        PROVE  <<a, b>> \in A \X B
    OBVIOUS
  <1> QED
    BY <1>1, <1>2, <1>3 DEF A, B

LEMMA StepType ==
    ASSUME crate \in Crates, NEW x \in Insts, NEW i \in DOMAIN CallsOf(x)
    PROVE  /\ Step(x, i) \in Insts /\ Step(x, i) \in Steps(x)
           /\ x = <<x[1], x[2]>> /\ x[1] \in DOMAIN crate /\ x[2] \in Seq(Tree)
           /\ CallsOf(x)[i].args \in Seq(Term)
  <1>1. x = <<x[1], x[2]>> /\ x[1] \in DOMAIN crate /\ x[2] \in Seq(Tree)
    BY InstParts
  <1>2. CallsOf(x)[i].callee \in DOMAIN crate /\ CallsOf(x)[i].args \in Seq(Term)
    BY <1>1, DefParts DEF CallsOf
  <1>3. Step(x, i) \in Insts
    BY <1>1, <1>2, ComposeType, InstParts DEF Step
  <1> QED
    BY <1>1, <1>2, <1>3 DEF Steps, Step, CallsOf

LEMMA TopInstType ==
    ASSUME crate \in Crates, NEW d \in DOMAIN crate, NEW k \in DOMAIN crate[d].calls
    PROVE  TopInst(d, k) \in Insts
  <1>1. crate[d].calls[k].callee \in DOMAIN crate /\ crate[d].calls[k].args \in Seq(Term)
    BY DefParts
  <1>2. Compose(crate[d].calls[k].args, <<>>) \in Seq(Tree)
    <2>1. <<>> \in Seq(Tree)
      OBVIOUS
    <2> QED
      BY <1>1, <2>1, ComposeType
  <1> QED
    BY <1>1, <1>2, InstParts DEF TopInst

(* A call that is ground asks for the same wherever it is made.            *)
LEMMA GroundStep ==
    ASSUME NEW args, ConstsClosed(args), NEW subst
    PROVE  Compose(args, subst) = Compose(args, <<>>)
  <1>1. \A i \in DOMAIN args : Substituted(args[i], subst) = Substituted(args[i], <<>>)
    BY DEF ConstsClosed, Substituted
  <1> QED
    BY <1>1 DEF Compose

----------------------------------------------------------------------------
(* The levels below an instantiation.                                      *)

Below1(g, x, n) ==
    g = [i \in 0 .. n |-> IF i = 0 THEN {x} ELSE UNION {Steps(j) : j \in g[i - 1]}]

LEMMA LevelsExist ==
    ASSUME NEW x, NEW n \in Nat
    PROVE  \E g : Below1(g, x, n)
  <1> SUFFICES ASSUME ~ \E g : Below1(g, x, n)
               PROVE  FALSE
    OBVIOUS
  <1> DEFINE T == {m \in Nat : ~ \E g : Below1(g, x, m)}
  <1>1. PICK m \in T : \A k \in T : m <= k
    <2>1. T \in SUBSET Nat /\ T # {}
      OBVIOUS
    <2> HIDE DEF T
    <2> QED BY <2>1, Least
  <1>2. m \in Nat /\ ~ \E g : Below1(g, x, m)
    OBVIOUS
  <1>3. CASE m = 0
    <2> DEFINE g == [i \in 0 .. 0 |-> {x}]
    <2>1. Below1(g, x, 0)
      BY DEF Below1
    <2> QED
      BY <1>2, <1>3, <2>1
  <1>4. CASE m # 0
    <2>1. m - 1 \in Nat /\ m - 1 \notin T
      BY <1>1, <1>2, <1>4
    <2>2. PICK g : Below1(g, x, m - 1)
      BY <2>1
    <2> DEFINE h == [i \in 0 .. m |-> IF i = 0 THEN {x} ELSE UNION {Steps(j) : j \in g[i - 1]}]
    <2>3. \A i \in 0 .. m - 1 : h[i] = g[i]
      BY <2>1, <2>2 DEF Below1
    <2>4. \A i \in 1 .. m : g[i - 1] = h[i - 1]
      <3> HIDE DEF h
      <3> QED BY <2>3, <1>2
    <2>5. h = [i \in 0 .. m |-> IF i = 0 THEN {x} ELSE UNION {Steps(j) : j \in h[i - 1]}]
      <3> DEFINE e(i) == IF i = 0 THEN {x} ELSE UNION {Steps(j) : j \in g[i - 1]}
                 f(i) == IF i = 0 THEN {x} ELSE UNION {Steps(j) : j \in h[i - 1]}
      <3>1. \A i \in 0 .. m : e(i) = f(i)
        <4> HIDE DEF h
        <4> QED BY <2>4, <1>2
      <3>2. h = [i \in 0 .. m |-> e(i)]
        OBVIOUS
      <3> HIDE DEF h, e, f
      <3>3. h = [i \in 0 .. m |-> f(i)]
        BY <3>1, <3>2
      <3> QED
        BY <3>3 DEF f
    <2> HIDE DEF h
    <2> QED
      BY <2>5, <1>2 DEF Below1
  <1> QED
    BY <1>3, <1>4

LEMMA LevelsAre ==
    ASSUME NEW x, NEW n \in Nat
    PROVE  /\ Levels(x, n)[0] = {x}
           /\ \A i \in 1 .. n : Levels(x, n)[i] = UNION {Steps(j) : j \in Levels(x, n)[i - 1]}
  <1> DEFINE L == Levels(x, n)
  <1>1. L = CHOOSE g : Below1(g, x, n)
    BY DEF Levels, Below1
  <1>2. Below1(L, x, n)
    <2> HIDE DEF L
    <2> QED BY <1>1, LevelsExist
  <1> HIDE DEF L
  <1> DEFINE e(i) == IF i = 0 THEN {x} ELSE UNION {Steps(j) : j \in L[i - 1]}
  <1>3. L = [i \in 0 .. n |-> e(i)]
    BY <1>2 DEF Below1
  <1>4. e(0) = {x} /\ \A i \in 1 .. n : e(i) = UNION {Steps(j) : j \in L[i - 1]}
    OBVIOUS
  <1> HIDE DEF e
  <1>5. \A i \in 0 .. n : L[i] = e(i)
    <2> SUFFICES ASSUME NEW i \in 0 .. n PROVE L[i] = e(i)
      OBVIOUS
    <2> DEFINE M == L
    <2>1. M[i] = e(i)
      BY <1>3
    <2> QED
      BY <2>1
  <1> QED
    BY <1>4, <1>5 DEF L

----------------------------------------------------------------------------
(* What is covered: all that fails within n calls that are followed below  *)
(* an instantiation has been said.  The sets of pairs that justify each    *)
(* other stand for a recursion over n.                                     *)

Found(x) == CheckObligations(x[1], x[2]) \subseteq Said

Justified(P) ==
    /\ P \subseteq Insts \X Nat
    /\ \A x, n : <<x, n>> \in P =>
          /\ Found(x)
          /\ n > 0 => \A i \in DOMAIN CallsOf(x) : Followed(x, i) => <<Step(x, i), n - 1>> \in P

Covered(x, n) == \E P : Justified(P) /\ <<x, n>> \in P

LEMMA CoveredParts ==
    ASSUME NEW x, NEW n, Covered(x, n)
    PROVE  /\ x \in Insts /\ n \in Nat /\ Found(x)
           /\ n > 0 => \A i \in DOMAIN CallsOf(x) : Followed(x, i) => Covered(Step(x, i), n - 1)
  <1>1. PICK P : Justified(P) /\ <<x, n>> \in P
    BY DEF Covered
  <1>2. x \in Insts /\ n \in Nat
    <2>1. <<x, n>> \in Insts \X Nat
      BY <1>1 DEF Justified
    <2> QED BY <2>1
  <1>3. Found(x)
    BY <1>1 DEF Justified
  <1>4. ASSUME n > 0, NEW i \in DOMAIN CallsOf(x), Followed(x, i)
        PROVE  Covered(Step(x, i), n - 1)
    <2>1. <<Step(x, i), n - 1>> \in P
      BY <1>1, <1>4 DEF Justified
    <2> QED
      BY <1>1, <2>1 DEF Covered
  <1> QED
    BY <1>2, <1>3, <1>4

LEMMA CoverBy ==
    ASSUME NEW x \in Insts, NEW n \in Nat, Found(x),
           n > 0 => \A i \in DOMAIN CallsOf(x) : Followed(x, i) => Covered(Step(x, i), n - 1)
    PROVE  Covered(x, n)
  <1> DEFINE C == {p \in Insts \X Nat : Covered(p[1], p[2])}
             P == C \union {<<x, n>>}
  <1>1. ASSUME NEW y, NEW m, Covered(y, m)
        PROVE  <<y, m>> \in C
    <2>1. y \in Insts /\ m \in Nat
      BY <1>1, CoveredParts
    <2>2. <<y, m>> \in Insts \X Nat /\ <<y, m>>[1] = y /\ <<y, m>>[2] = m
      BY <2>1
    <2> QED
      BY <1>1, <2>2
  <1>2. ASSUME NEW y, NEW m, <<y, m>> \in C
        PROVE  Covered(y, m)
    <2>1. Covered(<<y, m>>[1], <<y, m>>[2])
      BY <1>2
    <2> QED
      BY <2>1
  <1>3. C \subseteq Insts \X Nat
    OBVIOUS
  <1> HIDE DEF C
  <1>4. Justified(P)
    <2>1. P \subseteq Insts \X Nat
      <3>1. <<x, n>> \in Insts \X Nat
        OBVIOUS
      <3> QED BY <1>3, <3>1
    <2>2. ASSUME NEW y, NEW m, <<y, m>> \in P
          PROVE  /\ Found(y)
                 /\ m > 0 => \A i \in DOMAIN CallsOf(y) :
                       Followed(y, i) => <<Step(y, i), m - 1>> \in P
      <3>1. CASE <<y, m>> \in C
        <4>1. Covered(y, m)
          BY <1>2, <3>1
        <4>2. /\ Found(y)
              /\ m > 0 => \A i \in DOMAIN CallsOf(y) : Followed(y, i) => Covered(Step(y, i), m - 1)
          BY <4>1, CoveredParts
        <4> QED
          BY <4>2, <1>1
      <3>2. CASE <<y, m>> = <<x, n>>
        <4>1. y = x /\ m = n
          BY <3>2
        <4> QED
          BY <4>1, <1>1
      <3> QED
        BY <2>2, <3>1, <3>2
    <2> QED
      BY <2>1, <2>2 DEF Justified
  <1> QED
    BY <1>4 DEF Covered

(* What was said is not taken back.                                        *)
LEMMA CoveredStays ==
    ASSUME UNCHANGED crate, Said \subseteq Said'
    PROVE  /\ \A x : Found(x) => Found(x)'
           /\ \A x, n : Covered(x, n) => Covered(x, n)'
           /\ \A x, i : (Step(x, i)' = Step(x, i)) /\ (Followed(x, i)' <=> Followed(x, i))
           /\ \A x : CallsOf(x)' = CallsOf(x)
           /\ \A d, k : TopInst(d, k)' = TopInst(d, k)
           /\ Insts' = Insts
  <1>1. /\ \A x, i : (Step(x, i)' = Step(x, i)) /\ (Followed(x, i)' <=> Followed(x, i))
        /\ \A x : CallsOf(x)' = CallsOf(x)
        /\ \A d, k : TopInst(d, k)' = TopInst(d, k)
        /\ Insts' = Insts
    BY DEF Step, Followed, CallsOf, Insts, TopInst
  <1>2. \A x : Found(x) => Found(x)'
    <2>1. \A d, s : CheckObligations(d, s)' = CheckObligations(d, s)
      BY DEF CheckObligations, NothingToCheck, ObligationsOf
    <2> QED
      BY <2>1 DEF Found
  <1>3. ASSUME NEW P, Justified(P)
        PROVE  Justified(P)'
    BY <1>1, <1>2, <1>3 DEF Justified
  <1>4. \A x, n : Covered(x, n) => Covered(x, n)'
    BY <1>3 DEF Covered
  <1> QED
    BY <1>1, <1>2, <1>4

(* With less to spend less is covered.                                     *)
LEMMA CoveredLess ==
    ASSUME NEW x, NEW n, Covered(x, n), NEW m \in Nat, m <= n
    PROVE  Covered(x, m)
  <1> DEFINE P == {p \in Insts \X Nat : \E k \in Nat : p[2] <= k /\ Covered(p[1], k)}
  <1>1. ASSUME NEW y, NEW j \in Nat, NEW k, Covered(y, k), j <= k
        PROVE  <<y, j>> \in P
    <2>1. y \in Insts /\ k \in Nat
      BY <1>1, CoveredParts
    <2>2. <<y, j>> \in Insts \X Nat /\ <<y, j>>[1] = y /\ <<y, j>>[2] = j
      BY <2>1
    <2> QED
      BY <1>1, <2>1, <2>2
  <1>2. ASSUME NEW y, NEW j, <<y, j>> \in P
        PROVE  j \in Nat /\ \E k \in Nat : j <= k /\ Covered(y, k)
    <2>1. <<y, j>> \in Insts \X Nat /\ \E k \in Nat : <<y, j>>[2] <= k /\ Covered(<<y, j>>[1], k)
      BY <1>2
    <2> QED
      BY <2>1
  <1>3. P \subseteq Insts \X Nat
    OBVIOUS
  <1> HIDE DEF P
  <1>4. Justified(P)
    <2>1. ASSUME NEW y, NEW j, <<y, j>> \in P
          PROVE  /\ Found(y)
                 /\ j > 0 => \A i \in DOMAIN CallsOf(y) :
                       Followed(y, i) => <<Step(y, i), j - 1>> \in P
      <3>1. PICK k \in Nat : j \in Nat /\ j <= k /\ Covered(y, k)
        BY <2>1, <1>2
      <3>2. /\ Found(y)
            /\ k > 0 => \A i \in DOMAIN CallsOf(y) : Followed(y, i) => Covered(Step(y, i), k - 1)
        BY <3>1, CoveredParts
      <3>3. ASSUME j > 0, NEW i \in DOMAIN CallsOf(y), Followed(y, i)
            PROVE  <<Step(y, i), j - 1>> \in P
        <4>1. j - 1 \in Nat /\ j - 1 <= k - 1 /\ k > 0
          BY <3>1, <3>3
        <4>2. Covered(Step(y, i), k - 1)
          BY <3>2, <3>3, <4>1
        <4> QED
          BY <4>1, <4>2, <1>1
      <3> QED
        BY <3>2, <3>3
    <2> QED
      BY <1>3, <2>1 DEF Justified
  <1>5. <<x, m>> \in P
    BY <1>1
  <1> QED
    BY <1>4, <1>5 DEF Covered
----------------------------------------------------------------------------
(* The stack: each call under way was made by the one under it, and the    *)
(* first is the call the walk is below.  Frames and places are named by    *)
(* bound variables, so that what is said of them can be said of a step.    *)

Inst(f) == <<f.callee, f.subst>>

Calls(f, g) ==
    /\ f.next > 1 /\ f.next - 1 \in DOMAIN CallsOf(Inst(f))
    /\ Inst(g) = Step(Inst(f), f.next - 1)
    /\ g.fuel = f.fuel - 1

Linked ==
    /\ \A j \in DOMAIN stack : \A f, g :
          j < Len(stack) /\ f = stack[j] /\ g = stack[j + 1] => Calls(f, g)
    /\ stack # <<>> => at.call > 0
    /\ \A f, d, k : stack # <<>> /\ f = stack[1] /\ d = at.def /\ k = at.call =>
          Inst(f) = TopInst(d, k)
    /\ done => at.def = Len(crate) /\ at.call = Len(crate[at.def].calls) /\ stack = <<>>

LEMMA StackParts ==
    ASSUME TypeOK
    PROVE  /\ stack \in Seq(Frame) /\ Len(stack) \in Nat /\ DOMAIN stack = 1 .. Len(stack)
           /\ Len(stack) <= Fuel
           /\ \A f, j : j \in DOMAIN stack /\ f = stack[j] =>
                 /\ f \in Frame /\ Inst(f) \in Insts
                 /\ f.next \in Nat \ {0} /\ f.next <= Len(CallsOf(Inst(f))) + 1
                 /\ f.fuel = Fuel - (j - 1) /\ f.fuel \in Nat /\ f.fuel > 0
                 /\ CallsOf(Inst(f)) = crate[f.callee].calls
                 /\ DOMAIN CallsOf(Inst(f)) = 1 .. Len(CallsOf(Inst(f)))
                 /\ Len(CallsOf(Inst(f))) \in Nat
  <1>1. stack \in Seq(Frame) /\ Chain(stack) /\ crate \in Crates
    BY DEF TypeOK, Chain
  <1>2. Len(stack) \in Nat /\ DOMAIN stack = 1 .. Len(stack)
    BY <1>1
  <1>3. ASSUME NEW f, NEW j, j \in DOMAIN stack, f = stack[j]
        PROVE  /\ f \in Frame /\ Inst(f) \in Insts
               /\ f.next \in Nat \ {0} /\ f.next <= Len(CallsOf(Inst(f))) + 1
               /\ f.fuel = Fuel - (j - 1) /\ f.fuel \in Nat /\ f.fuel > 0
               /\ CallsOf(Inst(f)) = crate[f.callee].calls
               /\ DOMAIN CallsOf(Inst(f)) = 1 .. Len(CallsOf(Inst(f)))
               /\ Len(CallsOf(Inst(f))) \in Nat
    <2>1. f \in Frame
      BY <1>1, <1>3
    <2>2. /\ f.callee \in DOMAIN crate /\ f.next \in 1 .. Len(crate[f.callee].calls) + 1
          /\ f.fuel = Fuel - (j - 1) /\ f.fuel > 0
      BY <1>1, <1>3 DEF Chain
    <2>3. f.subst \in Seq(Tree) /\ f.fuel \in Nat /\ f.next \in Nat
      BY <2>1 DEF Frame
    <2>4. Inst(f) \in Insts /\ CallsOf(Inst(f)) = crate[f.callee].calls
      BY <2>2, <2>3, InstParts DEF Inst, CallsOf
    <2>5. crate[f.callee].calls \in Seq(Call)
      BY <1>1, <2>2, DefParts
    <2> QED
      BY <2>1, <2>2, <2>3, <2>4, <2>5
  <1>4. Len(stack) <= Fuel
    <2>1. CASE Len(stack) = 0
      BY <2>1, LimitsAssumption
    <2>2. CASE Len(stack) # 0
      <3>1. PICK f : f = stack[Len(stack)]
        OBVIOUS
      <3>2. f.fuel = Fuel - (Len(stack) - 1) /\ f.fuel > 0
        BY <1>2, <1>3, <2>2, <3>1
      <3> QED
        BY <1>2, <3>2, LimitsAssumption
    <2> QED
      BY <2>1, <2>2
  <1> QED
    BY <1>1, <1>2, <1>3, <1>4

(* The call the walk is at is one of the crate's.                          *)
LEMMA AtCrateCall ==
    ASSUME TypeOK, at.call > 0
    PROVE  /\ at.def \in DOMAIN crate /\ at.call \in DOMAIN crate[at.def].calls
           /\ \A d, k : d = at.def /\ k = at.call => TopInst(d, k) \in Insts
  <1>1. at \in [def : DOMAIN crate, call : Nat] /\ at.call <= Len(crate[at.def].calls) /\ crate \in Crates
    BY DEF TypeOK
  <1>2. crate[at.def].calls \in Seq(Call)
    BY <1>1, DefParts
  <1> QED
    BY <1>1, <1>2, TopInstType

(* Each instantiation under way is on its level below the call.            *)
LEMMA OnLevel ==
    ASSUME TypeOK, Linked, NEW d, NEW k, d = at.def, k = at.call
    PROVE  \A j \in DOMAIN stack : \A f : f = stack[j] =>
               Inst(f) \in Levels(TopInst(d, k), Fuel)[j - 1]
  <1> DEFINE On(j) == \A f : f = stack[j] => Inst(f) \in Levels(TopInst(d, k), Fuel)[j - 1]
             T == {j \in DOMAIN stack : ~ On(j)}
  <1> SUFFICES ASSUME T # {} PROVE FALSE
    OBVIOUS
  <1>1. DOMAIN stack = 1 .. Len(stack) /\ Len(stack) \in Nat /\ Len(stack) <= Fuel /\ Fuel \in Nat
    BY StackParts, LimitsAssumption
  <1>2. PICK j \in T : \A i \in T : j <= i
    <2>1. T \subseteq Nat
      BY <1>1
    <2> HIDE DEF T
    <2> QED BY <2>1, Least
  <1>3. j \in DOMAIN stack /\ ~ On(j)
    OBVIOUS
  <1>4. PICK f : f = stack[j] /\ Inst(f) \notin Levels(TopInst(d, k), Fuel)[j - 1]
    BY <1>3
  <1>5. CASE j = 1
    <2>1. Inst(f) = TopInst(d, k)
      BY <1>3, <1>4, <1>5 DEF Linked
    <2>2. Levels(TopInst(d, k), Fuel)[0] = {TopInst(d, k)}
      BY <1>1, LevelsAre
    <2> QED
      BY <1>4, <1>5, <2>1, <2>2
  <1>6. CASE j # 1
    <2>1. j - 1 \in DOMAIN stack /\ j - 1 < j /\ j - 1 < Len(stack) /\ j - 1 \in 1 .. Fuel
      BY <1>1, <1>3, <1>6
    <2>2. On(j - 1)
      BY <1>1, <1>2, <1>3, <2>1
    <2>3. PICK e : e = stack[j - 1]
      OBVIOUS
    <2>4. Inst(e) \in Levels(TopInst(d, k), Fuel)[j - 1 - 1]
      BY <2>2, <2>3
    <2>5. Calls(e, f)
      <3>1. stack[j - 1 + 1] = f
        BY <1>1, <1>3, <1>4
      <3> QED
        BY <2>1, <2>3, <3>1 DEF Linked
    <2>6. Inst(f) \in Steps(Inst(e))
      <3>1. Inst(e) \in Insts /\ crate \in Crates
        BY <2>1, <2>3, StackParts DEF TypeOK
      <3> QED
        BY <2>5, <3>1, StepType DEF Calls
    <2>7. Levels(TopInst(d, k), Fuel)[j - 1]
            = UNION {Steps(x) : x \in Levels(TopInst(d, k), Fuel)[j - 1 - 1]}
      <3> HIDE DEF On, T
      <3> QED BY <1>1, <2>1, LevelsAre
    <2> QED
      BY <1>4, <2>4, <2>6, <2>7
  <1> QED
    BY <1>5, <1>6
----------------------------------------------------------------------------
(* The steps of the walk on the stack.                                     *)

Same(f, g) == Inst(g) = Inst(f) /\ g.fuel = f.fuel

LEMMA AdvancedParts ==
    ASSUME TypeOK, stack # <<>>
    PROVE  /\ Advanced \in Seq(Frame) /\ Len(Advanced) = Len(stack)
           /\ DOMAIN Advanced = 1 .. Len(stack) /\ Len(stack) \in DOMAIN stack
           /\ \A f, g, j : j \in DOMAIN stack /\ f = stack[j] /\ g = Advanced[j] =>
                 /\ Same(f, g)
                 /\ j = Len(stack) => g.next = f.next + 1
                 /\ j # Len(stack) => g = f
  <1>1. stack \in Seq(Frame) /\ Len(stack) \in Nat \ {0} /\ DOMAIN stack = 1 .. Len(stack)
    BY StackParts
  <1>2. PICK n : n = Len(stack)
    OBVIOUS
  <1>3. n \in DOMAIN stack /\ Last = n
    BY <1>1, <1>2 DEF Last
  <1>4. PICK t : t = stack[n] /\ t \in Frame /\ t.next \in Nat
    <2>1. stack[n] \in Frame
      BY <1>1, <1>3
    <2> QED BY <2>1 DEF Frame
  <1>5. PICK u : u = [t EXCEPT !.next = @ + 1]
    OBVIOUS
  <1>6. u \in Frame /\ Same(t, u) /\ u.next = t.next + 1
    BY <1>4, <1>5 DEF Frame, Same, Inst
  <1>7. Advanced = [stack EXCEPT ![n] = u]
    BY <1>3, <1>4, <1>5 DEF Advanced
  <1>8. /\ Advanced \in Seq(Frame) /\ Len(Advanced) = n /\ DOMAIN Advanced = 1 .. n
        /\ Advanced[n] = u /\ \A j \in DOMAIN stack : j # n => Advanced[j] = stack[j]
    BY <1>1, <1>2, <1>3, <1>6, <1>7
  <1> HIDE DEF Advanced
  <1> QED
    BY <1>2, <1>3, <1>4, <1>6, <1>8 DEF Same

(* What Descend goes on with.                                              *)
LEMMA DescendParts ==
    ASSUME TypeOK, Descend
    PROVE  \E f, x, n :
              /\ n = Len(stack) /\ n \in DOMAIN stack /\ f = stack[n]
              /\ f.next \in DOMAIN CallsOf(Inst(f)) /\ Followed(Inst(f), f.next)
              /\ x = Step(Inst(f), f.next) /\ x \in Insts
              /\ ComposeCheck(at, budget, x[1], x[2], f.fuel - 1, Advanced)
  <1>1. /\ stack # <<>> /\ Top.next <= Len(crate[Top.callee].calls)
        /\ ~ConstsClosed(InnerCall.args)
        /\ ComposeCheck(at, budget, InnerCall.callee, Compose(InnerCall.args, Top.subst),
                        Top.fuel - 1, Advanced)
    BY DEF Descend
  <1>2. PICK n : n = Len(stack) /\ n \in DOMAIN stack
    BY <1>1, AdvancedParts
  <1>3. PICK f : f = stack[n] /\ f = Top
    BY <1>2 DEF Top, Last
  <1>4. f.next \in DOMAIN CallsOf(Inst(f)) /\ CallsOf(Inst(f)) = crate[f.callee].calls /\ Inst(f) \in Insts
    <2>1. /\ f.next \in Nat \ {0} /\ CallsOf(Inst(f)) = crate[f.callee].calls
          /\ DOMAIN CallsOf(Inst(f)) = 1 .. Len(CallsOf(Inst(f)))
          /\ Inst(f) \in Insts /\ Len(CallsOf(Inst(f))) \in Nat
      BY <1>2, <1>3, StackParts
    <2> QED
      BY <1>1, <1>3, <2>1
  <1>5. InnerCall = CallsOf(Inst(f))[f.next]
    BY <1>3, <1>4 DEF InnerCall
  <1>6. PICK x : x = Step(Inst(f), f.next)
    OBVIOUS
  <1>7. x \in Insts
    BY <1>4, <1>6, StepType DEF TypeOK
  <1>8. x[1] = InnerCall.callee /\ x[2] = Compose(InnerCall.args, Top.subst)
    BY <1>3, <1>5, <1>6 DEF Step, Inst
  <1>9. Followed(Inst(f), f.next)
    BY <1>1, <1>5 DEF Followed
  <1>10. ComposeCheck(at, budget, x[1], x[2], f.fuel - 1, Advanced)
    <2>1. PICK a, b : a = InnerCall.callee /\ b = Compose(InnerCall.args, Top.subst)
      OBVIOUS
    <2>2. ComposeCheck(at, budget, a, b, Top.fuel - 1, Advanced)
      BY <1>1, <2>1
    <2>3. x[1] = a /\ x[2] = b
      BY <1>8, <2>1
    <2> QED
      BY <1>3, <2>2, <2>3
  <1> QED
    BY <1>2, <1>3, <1>4, <1>6, <1>7, <1>9, <1>10

(* What compose_check does when its budget allows it.                      *)
LEMMA EntryParts ==
    ASSUME UNCHANGED crate, out \in Seq(Diagnostics), NEW w, NEW left, NEW d, NEW s, NEW fuel,
           NEW rest, rest \in Seq(Frame), ComposeCheck(w, left, d, s, fuel, rest)
    PROVE  /\ stack' = rest \/ \E g : /\ stack' = Append(rest, g) /\ Inst(g) = <<d, s>>
                                     /\ g.fuel = fuel /\ g.next = 1 /\ fuel # 0
           /\ out' = out \/ \E o : /\ out' = Append(out, o)
                                  /\ o.def = w.def /\ o.span = w.call
                                  /\ o.msgs = CheckObligations(d, s)
           /\ ~cut' => ~cut /\ out' # out /\ (fuel # 0 => stack' # rest)
  <1>1. CASE left = 0
    BY <1>1 DEF ComposeCheck
  <1>2. CASE left # 0
    <2>1. PICK o, g :
            /\ o = [def |-> w.def, span |-> w.call, msgs |-> CheckObligations(d, s)]
            /\ g = [callee |-> d, subst |-> s, fuel |-> fuel, next |-> 1]
      OBVIOUS
    <2>2. /\ out' = Append(out, o)
          /\ stack' = IF fuel = 0 THEN rest ELSE Append(rest, g)
          /\ cut' = cut
      BY <1>2, <2>1 DEF ComposeCheck
    <2>3. /\ o.def = w.def /\ o.span = w.call /\ o.msgs = CheckObligations(d, s)
          /\ Inst(g) = <<d, s>> /\ g.fuel = fuel /\ g.next = 1
      BY <2>1 DEF Inst
    <2>4. Append(out, o) # out /\ Append(rest, g) # rest
      <3>1. Len(Append(out, o)) = Len(out) + 1 /\ Len(out) \in Nat
        OBVIOUS
      <3>2. Len(Append(rest, g)) = Len(rest) + 1 /\ Len(rest) \in Nat
        OBVIOUS
      <3> QED
        BY <3>1, <3>2
    <2> QED
      BY <2>2, <2>3, <2>4
  <1> QED
    BY <1>1, <1>2

LEMMA SaidGrows ==
    ASSUME TypeOK, [Next]_vars
    PROVE  Said \subseteq Said'
  <1>1. out \in Seq(Diagnostics)
    BY DEF TypeOK
  <1>2. out' = out \/ \E o : out' = Append(out, o)
    <2>1. CASE CheckCall \/ Descend
      BY <2>1 DEF CheckCall, Descend, ComposeCheck
    <2> QED
      BY <2>1 DEF Next, NextDef, SkipGround, Return, vars
  <1>3. CASE out' = out
    BY <1>3 DEF Said
  <1>4. CASE \E o : out' = Append(out, o)
    <2>1. PICK o : out' = Append(out, o)
      BY <1>4
    <2>2. \A i \in DOMAIN out : i \in DOMAIN out' /\ out'[i] = out[i]
      BY <1>1, <2>1
    <2> QED
      BY <2>2 DEF Said
  <1> QED
    BY <1>2, <1>3, <1>4

LEMMA SaysPushed ==
    ASSUME out \in Seq(Diagnostics), NEW o, out' = Append(out, o)
    PROVE  o.msgs \subseteq Said'
  <1>1. Len(out) + 1 \in DOMAIN out' /\ out'[Len(out) + 1] = o
    OBVIOUS
  <1> QED
    BY <1>1 DEF Said

LEMMA CheckCallParts ==
    ASSUME TypeOK, CheckCall
    PROVE  \E x, d, k :
              /\ d = at.def /\ k = at.call + 1 /\ d = at'.def /\ k = at'.call
              /\ <<d, k>> \in CallsOfCrate
              /\ stack = <<>> /\ x = TopInst(d, k) /\ x \in Insts
              /\ ComposeCheck(at', Budget, x[1], x[2], Fuel, <<>>)
  <1>1. /\ crate \in Crates /\ at \in [def : DOMAIN crate, call : Nat]
        /\ at.call < Len(crate[at.def].calls)
    BY DEF TypeOK, CheckCall
  <1>2. PICK w, d, k : w = [at EXCEPT !.call = @ + 1] /\ d = at.def /\ k = at.call + 1
    OBVIOUS
  <1>3. w.def = d /\ w.call = k /\ d \in DOMAIN crate /\ k \in DOMAIN crate[d].calls
    <2>1. crate[at.def].calls \in Seq(Call)
      BY <1>1, DefParts
    <2> QED
      BY <1>1, <1>2, <2>1
  <1>4. PICK x : x = TopInst(d, k)
    OBVIOUS
  <1>5. at' = w /\ stack = <<>> /\ ComposeCheck(w, Budget, x[1], x[2], Fuel, <<>>)
    <2>1. PICK a, b : /\ a = crate[w.def].calls[w.call].callee
                     /\ b = Compose(crate[w.def].calls[w.call].args, <<>>)
      OBVIOUS
    <2>2. at' = w /\ stack = <<>> /\ ComposeCheck(w, Budget, a, b, Fuel, <<>>)
      BY <1>2, <2>1 DEF CheckCall
    <2>3. x[1] = a /\ x[2] = b
      BY <1>3, <1>4, <2>1 DEF TopInst
    <2> QED
      BY <2>2, <2>3
  <1>6. <<d, k>> \in CallsOfCrate
    BY <1>3 DEF CallsOfCrate
  <1>7. x \in Insts
    BY <1>1, <1>3, <1>4, TopInstType
  <1> QED
    BY <1>2, <1>3, <1>4, <1>5, <1>6, <1>7

(* The same links, with instantiations in the place of the frames.         *)
LEMMA LinkKept ==
    ASSUME UNCHANGED crate
    PROVE  \A f, g : Calls(f, g)' <=> Calls(f, g)
  BY DEF Calls, CallsOf, Step

LEMMA AdvancedLinked ==
    ASSUME TypeOK, Linked, stack # <<>>
    PROVE  /\ \A j \in DOMAIN Advanced : \A f, g :
                 j < Len(Advanced) /\ f = Advanced[j] /\ g = Advanced[j + 1] => Calls(f, g)
           /\ \A f, d, k : f = Advanced[1] /\ d = at.def /\ k = at.call => Inst(f) = TopInst(d, k)
  <1>1. /\ Len(Advanced) = Len(stack) /\ DOMAIN Advanced = 1 .. Len(stack)
        /\ Len(stack) \in DOMAIN stack /\ DOMAIN stack = 1 .. Len(stack) /\ Len(stack) \in Nat
    BY AdvancedParts, StackParts
  <1>2. ASSUME NEW j \in DOMAIN Advanced, NEW f, NEW g,
               j < Len(Advanced), f = Advanced[j], g = Advanced[j + 1]
        PROVE  Calls(f, g)
    <2>1. j \in DOMAIN stack /\ j + 1 \in DOMAIN stack /\ j # Len(stack) /\ j < Len(stack)
      BY <1>1, <1>2
    <2>2. PICK h : h = stack[j + 1]
      OBVIOUS
    <2>3. f = stack[j]
      <3>1. PICK e : e = stack[j]
        OBVIOUS
      <3> QED BY <1>2, <2>1, <3>1, AdvancedParts
    <2>4. Same(h, g)
      BY <1>2, <2>1, <2>2, AdvancedParts
    <2>5. Calls(f, h)
      BY <2>1, <2>2, <2>3 DEF Linked
    <2> QED
      BY <2>4, <2>5 DEF Calls, Same
  <1>3. ASSUME NEW f, NEW d, NEW k, f = Advanced[1], d = at.def, k = at.call
        PROVE  Inst(f) = TopInst(d, k)
    <2>1. PICK h : h = stack[1]
      OBVIOUS
    <2>2. 1 \in DOMAIN stack
      BY <1>1
    <2>3. Same(h, f)
      BY <1>3, <2>1, <2>2, AdvancedParts
    <2>4. Inst(h) = TopInst(d, k)
      BY <1>3, <2>1 DEF Linked
    <2> QED
      BY <2>3, <2>4 DEF Same
  <1> QED
    BY <1>2, <1>3

LEMMA NextLinked == TypeOK /\ Linked /\ [Next]_vars => Linked'
  <1> SUFFICES ASSUME TypeOK, Linked, [Next]_vars PROVE Linked'
    OBVIOUS
  <1>1. crate' = crate /\ out \in Seq(Diagnostics)
    BY DEF Next, CheckCall, NextDef, SkipGround, Descend, Return, vars, TypeOK
  <1>2. /\ \A f, g : Calls(f, g)' <=> Calls(f, g)
        /\ \A d, k : TopInst(d, k)' = TopInst(d, k)
    BY <1>1, LinkKept DEF TopInst
  <1>3. CASE CheckCall
    <2>1. PICK x, d, k :
              /\ k = at.call + 1 /\ d = at'.def /\ k = at'.call
              /\ stack = <<>> /\ x = TopInst(d, k) /\ x \in Insts
              /\ ComposeCheck(at', Budget, x[1], x[2], Fuel, <<>>)
      BY <1>3, CheckCallParts
    <2>2. /\ ~done' /\ at'.call > 0
      <3>1. ~done /\ done' = done /\ at.call \in Nat
        BY <1>3 DEF CheckCall, TypeOK
      <3> QED BY <2>1, <3>1
    <2>3. \/ stack' = <<>>
          \/ \E g : stack' = Append(<<>>, g) /\ Inst(g) = <<x[1], x[2]>>
      <3>1. PICK w, r : w = at' /\ r = <<>>
        OBVIOUS
      <3>2. r \in Seq(Frame)
        BY <3>1
      <3>3. ComposeCheck(w, Budget, x[1], x[2], Fuel, r)
        BY <2>1, <3>1
      <3>4. stack' = r \/ \E g : stack' = Append(r, g) /\ Inst(g) = <<x[1], x[2]>>
        BY <1>1, <3>2, <3>3, EntryParts
      <3> QED
        BY <3>1, <3>4
    <2>4. <<x[1], x[2]>> = x
      BY <2>1, InstParts
    <2>5. CASE stack' = <<>>
      BY <2>2, <2>5 DEF Linked
    <2>6. CASE \E g : stack' = Append(<<>>, g) /\ Inst(g) = <<x[1], x[2]>>
      <3>1. PICK g : stack' = Append(<<>>, g) /\ Inst(g) = x
        BY <2>4, <2>6
      <3>2. Len(stack') = 1 /\ stack'[1] = g /\ DOMAIN stack' = 1 .. 1
        BY <3>1
      <3>3. \A j \in DOMAIN stack' : ~ j < Len(stack')
        BY <3>2
      <3> QED
        BY <1>2, <2>1, <2>2, <3>1, <3>2, <3>3 DEF Linked
    <2> QED
      BY <2>3, <2>5, <2>6
  <1>4. CASE NextDef
    <2>1. /\ stack = <<>> /\ stack' = stack
          /\ \/ done' = done /\ ~done
             \/ done' /\ at' = at /\ at.call = Len(crate[at.def].calls) /\ ~ at.def < Len(crate)
      BY <1>4 DEF NextDef
    <2>2. at.def \in 1 .. Len(crate) /\ Len(crate) \in Nat
      <3>1. crate \in Seq(Def) /\ at.def \in DOMAIN crate
        BY CratesAssumption DEF TypeOK
      <3> QED BY <3>1
    <2>3. \A j \in DOMAIN stack' : FALSE
      BY <2>1
    <2> QED
      BY <1>1, <2>1, <2>2, <2>3 DEF Linked
  <1>5. CASE SkipGround
    <2>1. /\ stack # <<>> /\ stack' = Advanced /\ UNCHANGED <<at, done>>
      BY <1>5 DEF SkipGround
    <2>2. stack' # <<>>
      <3>1. DOMAIN Advanced # {}
        BY <2>1, AdvancedParts, StackParts
      <3> QED BY <2>1, <3>1
    <2> QED
      BY <1>1, <1>2, <2>1, <2>2, AdvancedLinked DEF Linked
  <1>6. CASE Descend
    <2>1. PICK f, x, n :
              /\ n = Len(stack) /\ n \in DOMAIN stack /\ f = stack[n]
              /\ f.next \in DOMAIN CallsOf(Inst(f))
              /\ x = Step(Inst(f), f.next) /\ x \in Insts
              /\ ComposeCheck(at, budget, x[1], x[2], f.fuel - 1, Advanced)
      BY <1>6, DescendParts
    <2>2. UNCHANGED <<at, done>> /\ stack # <<>>
      BY <1>6 DEF Descend
    <2>3. /\ Advanced \in Seq(Frame) /\ Len(Advanced) = n /\ DOMAIN Advanced = 1 .. n
          /\ n \in Nat \ {0}
      BY <2>1, <2>2, AdvancedParts, StackParts
    <2>4. \/ stack' = Advanced
          \/ \E g : stack' = Append(Advanced, g) /\ Inst(g) = <<x[1], x[2]>> /\ g.fuel = f.fuel - 1
      BY <1>1, <2>1, <2>3, EntryParts
    <2>5. <<x[1], x[2]>> = x
      BY <2>1, InstParts
    <2>6. CASE stack' = Advanced
      <3>1. stack' # <<>>
        BY <2>3, <2>6
      <3> QED
        BY <1>1, <1>2, <2>2, <2>6, <3>1, AdvancedLinked DEF Linked
    <2>7. CASE \E g : stack' = Append(Advanced, g) /\ Inst(g) = <<x[1], x[2]>> /\ g.fuel = f.fuel - 1
      <3>1. PICK g : stack' = Append(Advanced, g) /\ Inst(g) = x /\ g.fuel = f.fuel - 1
        BY <2>5, <2>7
      <3>2. /\ DOMAIN stack' = 1 .. n + 1 /\ Len(stack') = n + 1 /\ stack'[n + 1] = g
            /\ \A j \in 1 .. n : stack'[j] = Advanced[j]
        BY <2>3, <3>1
      <3>3. PICK h : h = Advanced[n]
        OBVIOUS
      <3>4. Same(f, h) /\ h.next = f.next + 1
        BY <2>1, <2>2, <3>3, AdvancedParts
      <3>5. f.next \in Nat \ {0}
        BY <2>1, StackParts
      <3>6. Calls(h, g)
        BY <2>1, <3>1, <3>4, <3>5 DEF Calls, Same
      <3>7. ASSUME NEW j \in DOMAIN stack', NEW a, NEW b,
                   j < Len(stack'), a = stack'[j], b = stack'[j + 1]
            PROVE  Calls(a, b)
        <4>1. CASE j = n
          BY <3>2, <3>3, <3>6, <3>7, <4>1, <2>3
        <4>2. CASE j # n
          <5>1. j \in DOMAIN Advanced /\ j < Len(Advanced) /\ j \in 1 .. n /\ j + 1 \in 1 .. n
            BY <2>3, <3>2, <3>7, <4>2
          <5>2. a = Advanced[j] /\ b = Advanced[j + 1]
            BY <3>2, <3>7, <5>1
          <5> QED
            BY <2>2, <5>1, <5>2, AdvancedLinked
        <4> QED
          BY <4>1, <4>2
      <3>8. stack' # <<>> /\ stack'[1] = Advanced[1]
        BY <2>3, <3>2
      <3>9. at.call > 0 /\ ~done
        BY <2>2 DEF Linked
      <3>10. \A e, d, k : e = stack'[1] /\ d = at'.def /\ k = at'.call => Inst(e) = TopInst(d, k)
        BY <2>2, <3>8, AdvancedLinked
      <3> QED
        BY <1>2, <2>2, <3>7, <3>8, <3>9, <3>10 DEF Linked
    <2> QED
      BY <2>4, <2>6, <2>7
  <1>7. CASE Return
    <2>1. stack # <<>> /\ stack' = SubSeq(stack, 1, Len(stack) - 1) /\ UNCHANGED <<at, done>>
      BY <1>7 DEF Return, Last
    <2>2. stack \in Seq(Frame) /\ Len(stack) \in Nat \ {0} /\ DOMAIN stack = 1 .. Len(stack)
      BY <2>1, StackParts
    <2>3. /\ DOMAIN stack' = 1 .. Len(stack) - 1 /\ Len(stack') = Len(stack) - 1
          /\ \A j \in 1 .. Len(stack) - 1 : stack'[j] = stack[j]
      BY <2>1, <2>2
    <2>4. ASSUME NEW j \in DOMAIN stack', NEW a, NEW b,
                 j < Len(stack'), a = stack'[j], b = stack'[j + 1]
          PROVE  Calls(a, b)
      <3>1. /\ j \in DOMAIN stack /\ j < Len(stack) /\ a = stack[j] /\ b = stack[j + 1]
        BY <2>2, <2>3, <2>4
      <3> QED
        BY <3>1 DEF Linked
    <2>5. stack' # <<>> => stack'[1] = stack[1]
      BY <2>2, <2>3
    <2>6. at.call > 0 /\ ~done
      BY <2>1 DEF Linked
    <2>7. \A e, d, k : stack' # <<>> /\ e = stack'[1] /\ d = at'.def /\ k = at'.call => Inst(e) = TopInst(d, k)
      BY <2>1, <2>5 DEF Linked
    <2> QED
      BY <1>2, <2>1, <2>4, <2>6, <2>7 DEF Linked
  <1>8. CASE UNCHANGED vars
    BY <1>2, <1>8 DEF Linked, vars
  <1> QED
    BY <1>3, <1>4, <1>5, <1>6, <1>7, <1>8 DEF Next

LEMMA InitLinked == Init => Linked
  BY DEF Init, Linked

LEMMA AlwaysLinked == Spec => [](TypeOK /\ Linked)
  <1>1. Spec => []TypeOK
    BY TypeCorrect
  <1> QED
    BY <1>1, InitLinked, NextLinked, PTL DEF Spec

----------------------------------------------------------------------------
(* Nothing is invented: what was pushed last is of an instantiation on one *)
(* of the levels below the call.                                           *)

LEMMA FailuresKept ==
    ASSUME UNCHANGED crate
    PROVE  \A d, k : FailuresBelow(d, k)' = FailuresBelow(d, k)
  BY DEF FailuresBelow, Below, Reach, Levels, Steps, CheckObligations, NothingToCheck, ObligationsOf

LEMMA FailsOnLevel ==
    ASSUME NEW d, NEW k, NEW i \in 0 .. Fuel, NEW x, x \in Levels(TopInst(d, k), Fuel)[i]
    PROVE  CheckObligations(x[1], x[2]) \subseteq FailuresBelow(d, k)
  <1>1. x \in Below(d, k)
    BY DEF Below, Reach, TopInst
  <1> QED
    BY <1>1 DEF FailuresBelow
LEMMA PushGenuine ==
    ASSUME TypeOK, UNCHANGED crate, NothingInvented, NEW o, out' = Append(out, o),
           o.msgs \subseteq FailuresBelow(o.def, o.span)
    PROVE  NothingInvented'
  <1>1. /\ DOMAIN out' = DOMAIN out \union {Len(out) + 1}
        /\ out'[Len(out) + 1] = o /\ \A i \in DOMAIN out : out'[i] = out[i]
    BY DEF TypeOK
  <1>2. ASSUME NEW i \in DOMAIN out', NEW e, e = out'[i]
        PROVE  e.msgs \subseteq FailuresBelow(e.def, e.span)
    BY <1>1, <1>2 DEF NothingInvented
  <1>3. \A i \in DOMAIN out' : out'[i].msgs \subseteq FailuresBelow(out'[i].def, out'[i].span)
    BY <1>2
  <1> QED
    BY <1>3, FailuresKept DEF NothingInvented

LEMMA SameGenuine ==
    ASSUME UNCHANGED <<crate, out>>, NothingInvented
    PROVE  NothingInvented'
  BY FailuresKept DEF NothingInvented

LEMMA NextGenuine ==
    ASSUME TypeOK, Linked, NothingInvented, [Next]_vars
    PROVE  NothingInvented'
  <1>1. crate' = crate /\ out \in Seq(Diagnostics) /\ crate \in Crates
    BY DEF Next, CheckCall, NextDef, SkipGround, Descend, Return, vars, TypeOK
  <1>2. CASE CheckCall
    <2>1. PICK x, d, k :
              /\ d = at'.def /\ k = at'.call
              /\ x = TopInst(d, k) /\ x \in Insts
              /\ ComposeCheck(at', Budget, x[1], x[2], Fuel, <<>>)
      BY <1>2, CheckCallParts
    <2>2. PICK w, r : w = at' /\ r = <<>>
      OBVIOUS
    <2>3. r \in Seq(Frame) /\ ComposeCheck(w, Budget, x[1], x[2], Fuel, r)
      BY <2>1, <2>2
    <2>4. out' = out \/ \E o : /\ out' = Append(out, o) /\ o.def = w.def /\ o.span = w.call
                               /\ o.msgs = CheckObligations(x[1], x[2])
      BY <1>1, <2>3, EntryParts
    <2>5. CheckObligations(x[1], x[2]) \subseteq FailuresBelow(d, k)
      <3>1. Fuel \in Nat /\ 0 \in 0 .. Fuel
        BY LimitsAssumption
      <3>2. x \in Levels(TopInst(d, k), Fuel)[0]
        BY <2>1, <3>1, LevelsAre
      <3> QED
        BY <3>1, <3>2, FailsOnLevel
    <2> QED
      BY <1>1, <2>1, <2>2, <2>4, <2>5, PushGenuine, SameGenuine
  <1>3. CASE Descend
    <2>1. PICK f, x, n :
              /\ n = Len(stack) /\ n \in DOMAIN stack /\ f = stack[n]
              /\ f.next \in DOMAIN CallsOf(Inst(f))
              /\ x = Step(Inst(f), f.next) /\ x \in Insts
              /\ ComposeCheck(at, budget, x[1], x[2], f.fuel - 1, Advanced)
      BY <1>3, DescendParts
    <2>2. PICK w, r, d, k : w = at /\ r = Advanced /\ d = at.def /\ k = at.call
      OBVIOUS
    <2>3. r \in Seq(Frame) /\ ComposeCheck(w, budget, x[1], x[2], f.fuel - 1, r)
      BY <1>3, <2>1, <2>2, AdvancedParts DEF Descend
    <2>4. out' = out \/ \E o : /\ out' = Append(out, o) /\ o.def = w.def /\ o.span = w.call
                               /\ o.msgs = CheckObligations(x[1], x[2])
      BY <1>1, <2>3, EntryParts
    <2>5. CheckObligations(x[1], x[2]) \subseteq FailuresBelow(d, k)
      <3>1. n \in 1 .. Fuel /\ Fuel \in Nat /\ n \in 0 .. Fuel /\ n - 1 \in 0 .. Fuel
        BY <2>1, StackParts, LimitsAssumption
      <3>2. Inst(f) \in Levels(TopInst(d, k), Fuel)[n - 1]
        BY <2>1, <2>2, OnLevel
      <3>3. x \in Steps(Inst(f))
        <4>1. Inst(f) \in Insts
          BY <2>1, StackParts
        <4> QED
          BY <1>1, <2>1, <4>1, StepType
      <3>4. Levels(TopInst(d, k), Fuel)[n]
              = UNION {Steps(y) : y \in Levels(TopInst(d, k), Fuel)[n - 1]}
        BY <3>1, LevelsAre
      <3>5. x \in Levels(TopInst(d, k), Fuel)[n]
        BY <3>2, <3>3, <3>4
      <3> QED
        BY <3>1, <3>5, FailsOnLevel
    <2> QED
      BY <1>1, <2>2, <2>4, <2>5, PushGenuine, SameGenuine
  <1>4. CASE NextDef \/ SkipGround \/ Return \/ UNCHANGED vars
    <2>1. UNCHANGED <<crate, out>>
      BY <1>4 DEF NextDef, SkipGround, Return, vars
    <2> QED
      BY <2>1, SameGenuine
  <1> QED
    BY <1>2, <1>3, <1>4 DEF Next

----------------------------------------------------------------------------
(* Nothing is missed: what the loop of each call under way has passed is   *)
(* covered, and so is each call of the crate behind the walk.              *)

Begun(f, l) ==
    /\ Found(Inst(f))
    /\ \A i \in DOMAIN CallsOf(Inst(f)) :
          i < l /\ Followed(Inst(f), i) => Covered(Step(Inst(f), i), f.fuel - 1)

Walked ==
    ~cut => \A f, j : j \in DOMAIN stack /\ f = stack[j] =>
               /\ j = Len(stack) => Begun(f, f.next)
               /\ j # Len(stack) => Begun(f, f.next - 1)

Behind(d, k) ==
    d < at.def \/ (d = at.def /\ (k < at.call \/ (k = at.call /\ stack = <<>>)))

Swept ==
    ~cut => \A d, k : <<d, k>> \in CallsOfCrate /\ Behind(d, k) =>
               Covered(TopInst(d, k), Fuel)

LEMMA BegunOn ==
    ASSUME NEW f, NEW l \in Nat, Begun(f, l),
           l \in DOMAIN CallsOf(Inst(f)) /\ Followed(Inst(f), l) =>
               Covered(Step(Inst(f), l), f.fuel - 1),
           DOMAIN CallsOf(Inst(f)) \subseteq Nat
    PROVE  Begun(f, l + 1)
  <1>1. ASSUME NEW i \in DOMAIN CallsOf(Inst(f)), i < l + 1, Followed(Inst(f), i)
        PROVE  Covered(Step(Inst(f), i), f.fuel - 1)
    <2>1. i = l \/ i < l
      BY <1>1
    <2> QED
      BY <1>1, <2>1 DEF Begun
  <1> QED
    BY <1>1 DEF Begun

LEMMA BegunCovers ==
    ASSUME NEW f, NEW l, Begun(f, l), Inst(f) \in Insts, f.fuel \in Nat,
           \A i \in DOMAIN CallsOf(Inst(f)) : i < l
    PROVE  Covered(Inst(f), f.fuel)
  <1>1. PICK x, n : x = Inst(f) /\ n = f.fuel
    OBVIOUS
  <1>2. Found(x) /\ \A i \in DOMAIN CallsOf(x) : Followed(x, i) => Covered(Step(x, i), n - 1)
    BY <1>1 DEF Begun
  <1> QED
    BY <1>1, <1>2, CoverBy

LEMMA BegunSame ==
    ASSUME NEW f, NEW g, Same(f, g), NEW l, Begun(f, l)
    PROVE  Begun(g, l)
  BY DEF Begun, Same

(* These facts hold in the next state as well.                             *)
BegunFacts ==
    /\ \A f : \A l \in Nat :
          /\ Begun(f, l)
          /\ l \in DOMAIN CallsOf(Inst(f)) /\ Followed(Inst(f), l) =>
                Covered(Step(Inst(f), l), f.fuel - 1)
          /\ DOMAIN CallsOf(Inst(f)) \subseteq Nat
          => Begun(f, l + 1)
    /\ \A f, g, l : Same(f, g) /\ Begun(f, l) => Begun(g, l)
    /\ \A x \in Insts : Found(x) => Covered(x, 0)

LEMMA BegunAlways == BegunFacts
  <1>1. ASSUME NEW x \in Insts, Found(x)
        PROVE  Covered(x, 0)
    BY <1>1, CoverBy
  <1> QED
    BY <1>1, BegunOn, BegunSame DEF BegunFacts

LEMMA BegunStays ==
    ASSUME TypeOK, [Next]_vars
    PROVE  /\ BegunFacts' /\ UNCHANGED crate
           /\ \A f, l : Begun(f, l) => Begun(f, l)'
           /\ \A x, n : Covered(x, n) => Covered(x, n)'
           /\ \A x : CheckObligations(x[1], x[2]) \subseteq Said' => Found(x)'
           /\ \A x, i : (Step(x, i)' = Step(x, i)) /\ (Followed(x, i)' <=> Followed(x, i))
           /\ \A x : CallsOf(x)' = CallsOf(x)
           /\ \A d, k : TopInst(d, k)' = TopInst(d, k)
           /\ Insts' = Insts /\ CallsOfCrate' = CallsOfCrate
           /\ \A f, g : Same(f, g)' <=> Same(f, g)
  <1>1. crate' = crate
    BY DEF Next, CheckCall, NextDef, SkipGround, Descend, Return, vars
  <1>2. BegunFacts'
    BY BegunAlways, PTL
  <1>3. Said \subseteq Said'
    BY SaidGrows
  <1>4. /\ \A x : Found(x) => Found(x)'
        /\ \A x, n : Covered(x, n) => Covered(x, n)'
        /\ \A x, i : (Step(x, i)' = Step(x, i)) /\ (Followed(x, i)' <=> Followed(x, i))
        /\ \A x : CallsOf(x)' = CallsOf(x)
        /\ \A d, k : TopInst(d, k)' = TopInst(d, k)
        /\ Insts' = Insts
    BY <1>1, <1>3, CoveredStays
  <1>5. \A f, l : Begun(f, l) => Begun(f, l)'
    BY <1>4 DEF Begun
  <1>6. \A x : CheckObligations(x[1], x[2]) \subseteq Said' => Found(x)'
    <2>1. \A d, s : CheckObligations(d, s)' = CheckObligations(d, s)
      BY <1>1 DEF CheckObligations, NothingToCheck, ObligationsOf
    <2> QED
      BY <2>1 DEF Found
  <1>7. CallsOfCrate' = CallsOfCrate
    BY <1>1 DEF CallsOfCrate
  <1>8. \A f, g : Same(f, g)' <=> Same(f, g)
    BY DEF Same, Inst
  <1> QED
    BY <1>1, <1>2, <1>4, <1>5, <1>6, <1>7, <1>8
(* Entering an instantiation: it is found, and either under way from its   *)
(* first call on, or covered with nothing left to spend.                   *)
LEMMA EntryBegun ==
    ASSUME TypeOK, [Next]_vars, NEW w, NEW left, NEW x, x \in Insts, NEW fuel, fuel \in Nat,
           NEW rest, rest \in Seq(Frame), ComposeCheck(w, left, x[1], x[2], fuel, rest), ~cut'
    PROVE  /\ ~cut /\ Found(x)'
           /\ \/ stack' = rest /\ fuel = 0 /\ Covered(x, 0)'
              \/ \E g : /\ stack' = Append(rest, g) /\ Inst(g) = x /\ g.fuel = fuel
                        /\ g.next = 1 /\ fuel # 0 /\ Begun(g, 1)'
  <1>1. crate' = crate /\ out \in Seq(Diagnostics)
    BY BegunStays DEF TypeOK
  <1>2. /\ stack' = rest \/ \E g : /\ stack' = Append(rest, g) /\ Inst(g) = <<x[1], x[2]>>
                                  /\ g.fuel = fuel /\ g.next = 1 /\ fuel # 0
        /\ out' = out \/ \E o : out' = Append(out, o) /\ o.msgs = CheckObligations(x[1], x[2])
        /\ ~cut /\ out' # out /\ (fuel # 0 => stack' # rest)
    BY <1>1, EntryParts
  <1>3. CheckObligations(x[1], x[2]) \subseteq Said'
    BY <1>1, <1>2, SaysPushed
  <1>4. Found(x)'
    BY <1>3, BegunStays
  <1>5. Covered(x, 0)'
    BY <1>4, BegunStays DEF BegunFacts
  <1>6. ASSUME NEW g, Inst(g) = x
        PROVE  Begun(g, 1)'
    <2>1. Found(Inst(g))'
      BY <1>4, <1>6 DEF Inst
    <2>2. x \in Insts' /\ crate' \in Crates
      BY <1>1, BegunStays DEF TypeOK
    <2>3. \A i \in (DOMAIN CallsOf(x))' : ~ i < 1
      <3>1. crate[x[1]].calls \in Seq(Call)
        BY InstParts, DefParts DEF TypeOK
      <3> QED
        BY <1>1, <3>1 DEF CallsOf
    <2> QED
      BY <1>6, <2>1, <2>3 DEF Begun, Inst
  <1>7. <<x[1], x[2]>> = x
    BY InstParts
  <1> QED
    BY <1>2, <1>4, <1>5, <1>6, <1>7

LEMMA CheckCallSweeps ==
    ASSUME TypeOK, Swept, CheckCall
    PROVE  Walked' /\ Swept'
  <1> SUFFICES ASSUME ~cut' PROVE Walked' /\ Swept'
    BY DEF Walked, Swept
  <1>1. [Next]_vars /\ crate' = crate
    BY DEF Next, CheckCall
  <1>2. PICK x, d, k :
            /\ d = at.def /\ k = at.call + 1 /\ d = at'.def /\ k = at'.call
            /\ stack = <<>> /\ x = TopInst(d, k) /\ x \in Insts
            /\ ComposeCheck(at', Budget, x[1], x[2], Fuel, <<>>)
    BY CheckCallParts
  <1>3. PICK w, r : w = at' /\ r = <<>>
    OBVIOUS
  <1>4. /\ ~cut
        /\ \/ stack' = r /\ Fuel = 0 /\ Covered(x, 0)'
           \/ \E g : stack' = Append(r, g) /\ g.next = 1 /\ Begun(g, 1)'
    <2>1. r \in Seq(Frame) /\ ComposeCheck(w, Budget, x[1], x[2], Fuel, r) /\ Fuel \in Nat
      BY <1>2, <1>3, LimitsAssumption
    <2>2. x \in Insts /\ ~cut'
      BY <1>2
    <2>3. /\ ~cut /\ Found(x)'
          /\ \/ stack' = r /\ Fuel = 0 /\ Covered(x, 0)'
             \/ \E g : /\ stack' = Append(r, g) /\ Inst(g) = x /\ g.fuel = Fuel
                       /\ g.next = 1 /\ Fuel # 0 /\ Begun(g, 1)'
      BY <1>1, <2>1, <2>2, EntryBegun
    <2> QED
      BY <2>3
  <1>5. Walked'
    <2>1. CASE stack' = r
      BY <1>3, <2>1 DEF Walked
    <2>2. CASE \E g : stack' = Append(r, g) /\ g.next = 1 /\ Begun(g, 1)'
      <3>1. PICK g : stack' = Append(r, g) /\ g.next = 1 /\ Begun(g, 1)'
        BY <2>2
      <3>2. Len(stack') = 1 /\ DOMAIN stack' = {1} /\ stack'[1] = g
        BY <1>3, <3>1
      <3>3. ASSUME NEW f, NEW j, j \in DOMAIN stack', f = stack'[j]
            PROVE  j = Len(stack') /\ Begun(f, f.next)'
        BY <3>1, <3>2, <3>3
      <3> QED
        BY <3>3 DEF Walked
    <2> QED
      BY <1>4, <2>1, <2>2
  <1>6. ASSUME NEW d2, NEW k2, <<d2, k2>> \in CallsOfCrate, Behind(d2, k2)'
        PROVE  Covered(TopInst(d2, k2), Fuel)'
    <2>1. at.call \in Nat /\ k2 \in Nat
      <3>1. /\ d2 \in DOMAIN crate /\ k2 \in DOMAIN crate[d2].calls /\ crate \in Crates
            /\ at.call \in Nat
        BY <1>6 DEF CallsOfCrate, TypeOK
      <3>2. crate[d2].calls \in Seq(Call)
        BY <3>1, DefParts
      <3> QED
        BY <3>1, <3>2
    <2>2. CASE Behind(d2, k2)
      <3>1. Covered(TopInst(d2, k2), Fuel)
        BY <1>4, <1>6, <2>2 DEF Swept
      <3> QED
        BY <1>1, <3>1, BegunStays
    <2>3. CASE ~ Behind(d2, k2)
      <3>1. d2 = d /\ k2 = k /\ stack' = <<>>
        BY <1>2, <1>6, <2>1, <2>3 DEF Behind
      <3>2. Fuel = 0 /\ Covered(x, 0)'
        <4>1. ~ \E g : stack' = Append(r, g)
          <5>1. \A g : Append(r, g) # <<>>
            <6>1. \A g : Len(Append(r, g)) = 1 /\ Len(<<>>) = 0
              BY <1>3
            <6> QED BY <6>1
          <5> QED BY <3>1, <5>1
        <4> QED BY <1>4, <4>1
      <3> QED
        BY <1>1, <1>2, <3>1, <3>2, BegunStays
    <2> QED
      BY <2>2, <2>3
  <1>7. Swept'
    BY <1>1, <1>6, BegunStays DEF Swept
  <1> QED
    BY <1>5, <1>7

LEMMA NextDefSweeps ==
    ASSUME TypeOK, Swept, NextDef
    PROVE  Walked' /\ Swept'
  <1>1. [Next]_vars /\ crate' = crate /\ cut' = cut /\ stack = <<>> /\ stack' = <<>>
    BY DEF Next, NextDef
  <1>2. Walked'
    BY <1>1 DEF Walked
  <1>3. \/ at' = at
        \/ at'.def = at.def + 1 /\ at'.call = 0
    BY DEF NextDef
  <1>4. ASSUME ~cut, NEW d, NEW k, <<d, k>> \in CallsOfCrate, Behind(d, k)'
        PROVE  Covered(TopInst(d, k), Fuel)'
    <2>1. /\ d \in Nat /\ k \in 1 .. Len(crate[d].calls) /\ Len(crate[d].calls) \in Nat
          /\ at.def \in Nat /\ at.call = Len(crate[at.def].calls)
      <3>1. /\ d \in DOMAIN crate /\ k \in DOMAIN crate[d].calls /\ crate \in Crates
            /\ at.def \in DOMAIN crate /\ at.call = Len(crate[at.def].calls)
        BY <1>4 DEF CallsOfCrate, TypeOK, NextDef
      <3>2. crate[d].calls \in Seq(Call) /\ d \in Nat /\ at.def \in Nat
        BY <3>1, DefParts
      <3> QED
        BY <3>1, <3>2
    <2>2. Behind(d, k)
      BY <1>1, <1>3, <1>4, <2>1 DEF Behind
    <2>3. Covered(TopInst(d, k), Fuel)
      BY <1>4, <2>2 DEF Swept
    <2> QED
      BY <1>1, <2>3, BegunStays
  <1>5. Swept'
    BY <1>1, <1>4, BegunStays DEF Swept
  <1> QED
    BY <1>2, <1>5

(* While calls are under way nothing more of the crate comes to lie behind. *)
LEMMA SweptStays ==
    ASSUME TypeOK, Swept, [Next]_vars, ~cut' => ~cut,
           at' = at, stack # <<>> \/ stack = stack', stack' # <<>> \/ stack = stack'
    PROVE  Swept'
  <1>1. \A d, k : Behind(d, k)' <=> Behind(d, k)
    BY DEF Behind
  <1>2. ASSUME ~cut', NEW d, NEW k, <<d, k>> \in CallsOfCrate, Behind(d, k)
        PROVE  Covered(TopInst(d, k), Fuel)'
    <2>1. Covered(TopInst(d, k), Fuel)
      BY <1>2 DEF Swept
    <2> QED
      BY <2>1, BegunStays
  <1> QED
    BY <1>1, <1>2, BegunStays DEF Swept
(* What the walk has passed, after the innermost loop went on by a call.   *)
LEMMA AdvancedBegun ==
    ASSUME TypeOK, Walked, ~cut, [Next]_vars, stack # <<>>,
           NEW f, f = stack[Len(stack)], NEW h, h = Advanced[Len(stack)]
    PROVE  /\ \A e, j : j \in DOMAIN stack /\ j # Len(stack) /\ e = Advanced[j] =>
                 Begun(e, e.next - 1)'
           /\ Begun(h, h.next - 1)'
           /\ (/\ f.next \in DOMAIN CallsOf(Inst(f)) /\ Followed(Inst(f), f.next)
               => Covered(Step(Inst(f), f.next), f.fuel - 1)') => Begun(h, h.next)'
  <1>1. ASSUME NEW e, NEW j, j \in DOMAIN stack, j # Len(stack), e = Advanced[j]
        PROVE  Begun(e, e.next - 1)'
    <2>1. PICK b : b = stack[j]
      OBVIOUS
    <2>2. e = b
      BY <1>1, <2>1, AdvancedParts
    <2>3. Begun(b, b.next - 1)
      BY <1>1, <2>1 DEF Walked
    <2> QED
      BY <2>2, <2>3, BegunStays
  <1>2. /\ Len(stack) \in DOMAIN stack /\ Same(f, h) /\ h.next = f.next + 1
    BY AdvancedParts
  <1>3. /\ f.next \in Nat \ {0} /\ DOMAIN CallsOf(Inst(f)) \subseteq Nat
    <2>1. /\ f.next \in Nat \ {0} /\ DOMAIN CallsOf(Inst(f)) = 1 .. Len(CallsOf(Inst(f)))
      BY <1>2, StackParts
    <2> QED BY <2>1
  <1>4. Begun(f, f.next)'
    <2>1. Begun(f, f.next)
      BY <1>2 DEF Walked
    <2> QED
      BY <2>1, BegunStays
  <1>5. PICK l : l = f.next
    OBVIOUS
  <1>6. Begun(h, l)'
    <2>1. Same(f, h)'
      BY <1>2, BegunStays
    <2> QED
      BY <1>4, <1>5, <2>1, BegunStays DEF BegunFacts
  <1>7. ASSUME l \in DOMAIN CallsOf(Inst(f)) /\ Followed(Inst(f), l)
                 => Covered(Step(Inst(f), l), f.fuel - 1)'
        PROVE  Begun(h, l + 1)'
    <2>1. /\ (Inst(h) = Inst(f))' /\ h.fuel = f.fuel
      BY <1>2 DEF Same, Inst
    <2>2. PICK x : x = Inst(h)
      OBVIOUS
    <2>3. x = Inst(h)' /\ x = Inst(f)
      BY <1>2, <2>2 DEF Inst, Same
    <2>4. /\ (l \in DOMAIN CallsOf(x) /\ Followed(x, l) => Covered(Step(x, l), h.fuel - 1))'
          /\ (DOMAIN CallsOf(x) \subseteq Nat)'
      BY <1>3, <1>7, <2>1, <2>3, BegunStays
    <2>5. /\ (l \in DOMAIN CallsOf(Inst(h)) /\ Followed(Inst(h), l)
                => Covered(Step(Inst(h), l), h.fuel - 1))'
          /\ (DOMAIN CallsOf(Inst(h)) \subseteq Nat)'
      BY <2>3, <2>4
    <2>6. l \in Nat /\ BegunFacts'
      BY <1>3, <1>5, BegunStays
    <2> QED
      BY <1>6, <2>5, <2>6 DEF BegunFacts
  <1>8. h.next = l + 1 /\ h.next - 1 = l
    BY <1>2, <1>3, <1>5
  <1> QED
    BY <1>1, <1>5, <1>6, <1>7, <1>8

LEMMA SkipGroundSweeps ==
    ASSUME TypeOK, Walked, Swept, SkipGround
    PROVE  Walked' /\ Swept'
  <1>1. /\ [Next]_vars /\ crate' = crate /\ cut' = cut /\ at' = at /\ stack # <<>>
        /\ stack' = Advanced /\ ConstsClosed(InnerCall.args)
    BY DEF Next, SkipGround
  <1>2. /\ DOMAIN Advanced = DOMAIN stack /\ Len(Advanced) = Len(stack)
        /\ Len(stack) \in DOMAIN stack
    BY <1>1, AdvancedParts, StackParts
  <1>3. PICK f, h : f = stack[Len(stack)] /\ h = Advanced[Len(stack)]
    OBVIOUS
  <1>4. ~ Followed(Inst(f), f.next)
    <2>1. f = Top /\ CallsOf(Inst(f)) = crate[f.callee].calls
      BY <1>2, <1>3, StackParts DEF Top, Last
    <2> QED
      BY <1>1, <2>1 DEF Followed, InnerCall
  <1>5. ASSUME ~cut
        PROVE  Walked'
    <2>1. Begun(h, h.next)'
      BY <1>1, <1>3, <1>4, <1>5, AdvancedBegun
    <2>2. \A e, j : j \in DOMAIN stack /\ j # Len(stack) /\ e = Advanced[j] =>
              Begun(e, e.next - 1)'
      BY <1>1, <1>3, <1>5, AdvancedBegun
    <2> QED
      BY <1>1, <1>2, <1>3, <2>1, <2>2 DEF Walked
  <1>6. stack' # <<>>
    BY <1>1, <1>2
  <1> QED
    BY <1>1, <1>5, <1>6, SweptStays DEF Walked

LEMMA DescendSweeps ==
    ASSUME TypeOK, Walked, Swept, Descend
    PROVE  Walked' /\ Swept'
  <1>1. [Next]_vars /\ crate' = crate /\ at' = at /\ stack # <<>>
    BY DEF Next, Descend
  <1>2. PICK f, x, n :
            /\ n = Len(stack) /\ n \in DOMAIN stack /\ f = stack[n]
            /\ x = Step(Inst(f), f.next) /\ x \in Insts
            /\ ComposeCheck(at, budget, x[1], x[2], f.fuel - 1, Advanced)
    BY DescendParts
  <1>3. PICK w, r, m, b : w = at /\ r = Advanced /\ m = f.fuel - 1 /\ b = budget
    OBVIOUS
  <1>4. /\ r \in Seq(Frame) /\ Len(r) = n /\ DOMAIN r = 1 .. n /\ n \in Nat \ {0}
        /\ DOMAIN stack = 1 .. n /\ m \in Nat
    BY <1>1, <1>2, <1>3, AdvancedParts, StackParts
  <1>5. PICK h : h = r[n]
    OBVIOUS
  <1>6. ASSUME ~cut'
        PROVE  /\ ~cut
               /\ \/ stack' = r /\ Covered(x, m)'
                  \/ \E g : stack' = Append(r, g) /\ g.next = 1 /\ Begun(g, 1)'
    <2>1. ComposeCheck(w, b, x[1], x[2], m, r) /\ x \in Insts /\ ~cut'
      BY <1>2, <1>3, <1>6
    <2>2. /\ ~cut /\ Found(x)'
          /\ \/ stack' = r /\ m = 0 /\ Covered(x, 0)'
             \/ \E g : /\ stack' = Append(r, g) /\ Inst(g) = x /\ g.fuel = m
                       /\ g.next = 1 /\ m # 0 /\ Begun(g, 1)'
      BY <1>1, <1>4, <2>1, EntryBegun
    <2> QED
      BY <2>2
  <1>7. stack' # <<>> /\ (~cut' => ~cut)
    <2>1. stack' = r \/ \E g : stack' = Append(r, g)
      BY <1>2, <1>3 DEF ComposeCheck
    <2>2. r # <<>> /\ \A g : Append(r, g) # <<>>
      <3>1. \A g : Len(Append(r, g)) = n + 1
        BY <1>4
      <3> QED BY <1>4, <3>1
    <2> QED
      BY <1>6, <2>1, <2>2
  <1>8. ASSUME ~cut'
        PROVE  Walked'
    <2>1. ~cut
      BY <1>6, <1>8
    <2>2. /\ \A e, j : j \in DOMAIN stack /\ j # n /\ e = r[j] => Begun(e, e.next - 1)'
          /\ Begun(h, h.next - 1)'
          /\ Covered(x, m)' => Begun(h, h.next)'
      <3>1. f = stack[Len(stack)] /\ h = Advanced[Len(stack)]
        BY <1>2, <1>3, <1>5
      <3>2. /\ \A e, j : j \in DOMAIN stack /\ j # Len(stack) /\ e = Advanced[j] =>
                  Begun(e, e.next - 1)'
            /\ Begun(h, h.next - 1)'
            /\ (/\ f.next \in DOMAIN CallsOf(Inst(f)) /\ Followed(Inst(f), f.next)
                => Covered(Step(Inst(f), f.next), f.fuel - 1)') => Begun(h, h.next)'
        BY <1>1, <2>1, <3>1, AdvancedBegun
      <3>3. Covered(x, m)' => Covered(Step(Inst(f), f.next), f.fuel - 1)'
        <4>1. x = Step(Inst(f), f.next)'
          BY <1>1, <1>2, BegunStays DEF Inst
        <4> QED
          BY <1>3, <4>1
      <3> QED
        BY <1>2, <1>3, <3>2, <3>3
    <2>3. CASE stack' = r /\ Covered(x, m)'
      BY <1>4, <1>5, <2>2, <2>3 DEF Walked
    <2>4. CASE \E g : stack' = Append(r, g) /\ g.next = 1 /\ Begun(g, 1)'
      <3>1. PICK g : stack' = Append(r, g) /\ g.next = 1 /\ Begun(g, 1)'
        BY <2>4
      <3>2. /\ DOMAIN stack' = 1 .. n + 1 /\ Len(stack') = n + 1 /\ stack'[n + 1] = g
            /\ \A j \in 1 .. n : stack'[j] = r[j]
        BY <1>4, <3>1
      <3>3. ASSUME NEW e, NEW j, j \in DOMAIN stack', e = stack'[j]
            PROVE  /\ j = Len(stack') => Begun(e, e.next)'
                   /\ j # Len(stack') => Begun(e, e.next - 1)'
        <4>1. CASE j = n + 1
          BY <3>1, <3>2, <3>3, <4>1
        <4>2. CASE j # n + 1
          <5>1. j \in 1 .. n /\ e = r[j] /\ j # Len(stack')
            BY <1>4, <3>2, <3>3, <4>2
          <5> QED
            BY <1>4, <1>5, <2>2, <5>1
        <4> QED
          BY <4>1, <4>2
      <3> QED
        BY <3>3 DEF Walked
    <2> QED
      BY <1>6, <1>8, <2>3, <2>4
  <1> QED
    BY <1>1, <1>7, <1>8, SweptStays DEF Walked

LEMMA ReturnSweeps ==
    ASSUME TypeOK, Linked, Walked, Swept, Return
    PROVE  Walked' /\ Swept'
  <1> SUFFICES ASSUME ~cut' PROVE Walked' /\ Swept'
    BY DEF Walked, Swept
  <1>1. /\ [Next]_vars /\ crate' = crate /\ at' = at /\ cut' = cut /\ ~cut
        /\ stack # <<>> /\ stack' = SubSeq(stack, 1, Len(stack) - 1)
    BY DEF Next, Return, Last
  <1>2. PICK n, f : n = Len(stack) /\ f = stack[n]
    OBVIOUS
  <1>3. /\ stack \in Seq(Frame) /\ n \in Nat \ {0} /\ DOMAIN stack = 1 .. n
        /\ DOMAIN stack' = 1 .. n - 1 /\ Len(stack') = n - 1
        /\ \A j \in 1 .. n - 1 : stack'[j] = stack[j]
    <2>1. stack \in Seq(Frame) /\ n \in Nat \ {0} /\ DOMAIN stack = 1 .. n
      BY <1>1, <1>2, StackParts
    <2> QED
      BY <1>1, <1>2, <2>1
  <1>4. Covered(Inst(f), f.fuel)
    <2>1. /\ Inst(f) \in Insts /\ f.fuel \in Nat /\ f.next \in Nat
          /\ CallsOf(Inst(f)) = crate[f.callee].calls
          /\ DOMAIN CallsOf(Inst(f)) = 1 .. Len(CallsOf(Inst(f)))
          /\ Len(CallsOf(Inst(f))) \in Nat
      BY <1>2, <1>3, StackParts
    <2>2. f.next > Len(crate[f.callee].calls)
      BY <1>2 DEF Return, Top, Last
    <2>3. \A i \in DOMAIN CallsOf(Inst(f)) : i < f.next
      BY <2>1, <2>2
    <2>4. Begun(f, f.next)
      BY <1>1, <1>2, <1>3 DEF Walked
    <2> QED
      BY <2>1, <2>3, <2>4, BegunCovers
  <1>5. Walked'
    <2>1. ASSUME NEW e, NEW j, j \in DOMAIN stack', e = stack'[j], j # n - 1
          PROVE  Begun(e, e.next - 1)'
      <3>1. j \in DOMAIN stack /\ e = stack[j] /\ j # Len(stack)
        BY <1>2, <1>3, <2>1
      <3>2. Begun(e, e.next - 1)
        BY <1>1, <3>1 DEF Walked
      <3> QED
        BY <1>1, <3>2, BegunStays
    <2>2. ASSUME NEW e, n - 1 \in DOMAIN stack', e = stack'[n - 1]
          PROVE  Begun(e, e.next)'
      <3>1. n - 1 \in DOMAIN stack /\ e = stack[n - 1] /\ n - 1 # Len(stack) /\ n - 1 < Len(stack)
        BY <1>2, <1>3, <2>2
      <3>2. Begun(e, e.next - 1)
        BY <1>1, <3>1 DEF Walked
      <3>3. Calls(e, f)
        <4>1. stack[n - 1 + 1] = f
          BY <1>2, <1>3
        <4> QED
          BY <3>1, <4>1 DEF Linked
      <3>4. PICK l : l = e.next - 1
        OBVIOUS
      <3>5. l \in Nat /\ l + 1 = e.next /\ DOMAIN CallsOf(Inst(e)) \subseteq Nat
        <4>1. /\ e.next \in Nat \ {0}
              /\ DOMAIN CallsOf(Inst(e)) = 1 .. Len(CallsOf(Inst(e)))
          BY <3>1, StackParts
        <4> QED BY <3>4, <4>1
      <3>6. Covered(Step(Inst(e), l), e.fuel - 1)
        <4>1. PICK x, m : x = Inst(f) /\ m = f.fuel
          OBVIOUS
        <4>2. x = Step(Inst(e), l) /\ m = e.fuel - 1
          BY <3>3, <3>4, <4>1 DEF Calls
        <4> QED
          BY <1>4, <4>1, <4>2
      <3>7. Begun(e, l + 1)
        BY <3>2, <3>4, <3>5, <3>6, BegunOn
      <3> QED
        BY <1>1, <3>5, <3>7, BegunStays
    <2> QED
      BY <1>3, <2>1, <2>2 DEF Walked
  <1>6. CASE n = 1
    <2>1. ASSUME NEW d, NEW k, <<d, k>> \in CallsOfCrate, Behind(d, k)'
          PROVE  Covered(TopInst(d, k), Fuel)'
      <3>1. CASE Behind(d, k)
        <4>1. Covered(TopInst(d, k), Fuel)
          BY <1>1, <2>1, <3>1 DEF Swept
        <4> QED
          BY <1>1, <4>1, BegunStays
      <3>2. CASE ~Behind(d, k)
        <4>1. d = at.def /\ k = at.call
          BY <1>1, <2>1, <3>2 DEF Behind
        <4>2. Inst(f) = TopInst(d, k) /\ f.fuel = Fuel
          <5>1. Inst(f) = TopInst(d, k)
            BY <1>1, <1>2, <1>6, <4>1 DEF Linked
          <5>2. f.fuel = Fuel - (1 - 1)
            BY <1>2, <1>3, <1>6, StackParts
          <5> QED
            BY <5>1, <5>2, LimitsAssumption
        <4>3. PICK x : x = Inst(f)
          OBVIOUS
        <4>4. Covered(x, Fuel)
          BY <1>4, <4>2, <4>3
        <4>5. Covered(x, Fuel)'
          BY <1>1, <4>4, BegunStays
        <4>6. x = TopInst(d, k)'
          BY <1>1, <4>2, <4>3, BegunStays
        <4> QED
          BY <4>5, <4>6
      <3> QED
        BY <3>1, <3>2
    <2> QED
      BY <1>1, <1>5, <2>1, BegunStays DEF Swept
  <1>7. CASE n # 1
    <2>1. stack' # <<>>
      BY <1>3, <1>7
    <2> QED
      BY <1>1, <1>5, <2>1, SweptStays
  <1> QED
    BY <1>6, <1>7
LEMMA InitSwept == Init => Walked /\ Swept /\ NothingInvented
  <1> SUFFICES ASSUME Init PROVE Walked /\ Swept /\ NothingInvented
    OBVIOUS
  <1>1. Walked
    BY DEF Init, Walked
  <1>2. NothingInvented
    BY DEF Init, NothingInvented
  <1>3. ASSUME NEW d, NEW k, <<d, k>> \in CallsOfCrate, Behind(d, k)
        PROVE  FALSE
    <2>1. d \in DOMAIN crate /\ k \in DOMAIN crate[d].calls /\ crate \in Crates
      BY <1>3 DEF CallsOfCrate, Init
    <2>2. crate[d].calls \in Seq(Call) /\ crate \in Seq(Def)
      BY <2>1, DefParts, CratesAssumption
    <2>3. d \in Nat \ {0} /\ k \in Nat \ {0}
      BY <2>1, <2>2
    <2> QED
      BY <1>3, <2>3 DEF Behind, Init
  <1> QED
    BY <1>1, <1>2, <1>3 DEF Swept

LEMMA NextSwept ==
    ASSUME TypeOK, Linked, Walked, Swept, [Next]_vars
    PROVE  Walked' /\ Swept'
  <1>1. CASE UNCHANGED vars
    <2>1. [Next]_vars /\ stack = stack' /\ at' = at /\ cut' = cut
      BY <1>1 DEF vars
    <2>2. Swept'
      BY <2>1, SweptStays
    <2>3. ASSUME ~cut', NEW f, NEW j, j \in DOMAIN stack', f = stack'[j]
          PROVE  /\ j = Len(stack') => Begun(f, f.next)'
                 /\ j # Len(stack') => Begun(f, f.next - 1)'
      <3>1. ~cut /\ j \in DOMAIN stack /\ f = stack[j] /\ Len(stack') = Len(stack)
        BY <2>1, <2>3
      <3> QED
        BY <2>1, <3>1, BegunStays DEF Walked
    <2> QED
      BY <2>2, <2>3 DEF Walked
  <1> QED
    BY <1>1, CheckCallSweeps, NextDefSweeps, SkipGroundSweeps, DescendSweeps, ReturnSweeps
    DEF Next

LEMMA LevelsCovered ==
    ASSUME TypeOK, \A d, k : <<d, k>> \in CallsOfCrate => Covered(TopInst(d, k), Fuel),
           NEW d, NEW k, <<d, k>> \in CallsOfCrate
    PROVE  \A i \in 0 .. Fuel : \A x \in Levels(TopInst(d, k), Fuel)[i] : Covered(x, Fuel - i)
  <1> DEFINE L == Levels(TopInst(d, k), Fuel)
             On(i) == \A x \in L[i] : Covered(x, Fuel - i)
             T == {i \in 0 .. Fuel : ~ On(i)}
  <1> SUFFICES ASSUME T # {} PROVE FALSE
    OBVIOUS
  <1>1. Fuel \in Nat
    BY LimitsAssumption
  <1>2. L[0] = {TopInst(d, k)} /\ \A i \in 1 .. Fuel : L[i] = UNION {Steps(y) : y \in L[i - 1]}
    BY <1>1, LevelsAre
  <1> HIDE DEF L
  <1>3. PICK i \in T : \A j \in T : i <= j
    <2>1. T \subseteq Nat
      BY <1>1
    <2> HIDE DEF T
    <2> QED BY <2>1, Least
  <1>4. PICK x \in L[i] : ~ Covered(x, Fuel - i)
    OBVIOUS
  <1>5. CASE i = 0
    <2>1. x = TopInst(d, k) /\ Fuel - i = Fuel
      BY <1>1, <1>2, <1>4, <1>5
    <2> QED
      BY <1>4, <2>1
  <1>6. CASE i # 0
    <2>1. i \in 1 .. Fuel /\ i - 1 \in 0 .. Fuel /\ i - 1 \notin T
      BY <1>1, <1>3, <1>6
    <2>2. PICK y \in L[i - 1] : x \in Steps(y)
      BY <1>2, <1>4, <2>1
    <2>3. PICK n : n = Fuel - i /\ Fuel - (i - 1) = n + 1 /\ n \in Nat /\ n <= Fuel
      BY <1>1, <2>1
    <2>4. Covered(y, n + 1)
      BY <2>1, <2>2, <2>3
    <2>5. /\ y \in Insts
          /\ \A j \in DOMAIN CallsOf(y) : Followed(y, j) => Covered(Step(y, j), n)
      <3>1. PICK m : m = n + 1 /\ m > 0 /\ m - 1 = n
        BY <2>3
      <3>2. Covered(y, m)
        BY <2>4, <3>1
      <3>3. /\ y \in Insts
            /\ m > 0 => \A j \in DOMAIN CallsOf(y) : Followed(y, j) => Covered(Step(y, j), m - 1)
        BY <3>2, CoveredParts
      <3> QED
        BY <3>1, <3>3
    <2>6. PICK j \in DOMAIN CallsOf(y) : x = Step(y, j)
      BY <2>2 DEF Steps, Step, CallsOf
    <2>7. CASE Followed(y, j)
      BY <1>4, <2>3, <2>5, <2>6, <2>7
    <2>8. CASE ~ Followed(y, j)
      <3>1. Step(y, j) = TopInst(y[1], j)
        BY <2>8, GroundStep DEF Followed, Step, TopInst, CallsOf
      <3>2. <<y[1], j>> \in CallsOfCrate
        <4>1. y[1] \in DOMAIN crate
          BY <2>5, InstParts
        <4> QED
          BY <4>1, <2>6 DEF CallsOfCrate, CallsOf
      <3>3. Covered(x, Fuel)
        BY <2>6, <3>1, <3>2
      <3>4. Covered(x, n)
        BY <2>3, <3>3, CoveredLess
      <3> QED
        BY <1>4, <2>3, <3>4
    <2> QED
      BY <2>7, <2>8
  <1> QED
    BY <1>5, <1>6

LEMMA SweptMissesNone ==
    ASSUME TypeOK, Linked, Swept
    PROVE  NothingMissed
  <1> SUFFICES ASSUME done, ~cut
               PROVE  \A c \in CallsOfCrate : FailuresBelow(c[1], c[2]) \subseteq Said
    BY DEF NothingMissed
  <1>1. at.def = Len(crate) /\ at.call = Len(crate[at.def].calls) /\ stack = <<>>
    BY DEF Linked
  <1>2. ASSUME NEW d, NEW k, <<d, k>> \in CallsOfCrate
        PROVE  Covered(TopInst(d, k), Fuel)
    <2>1. /\ d \in 1 .. Len(crate) /\ k \in 1 .. Len(crate[d].calls)
          /\ Len(crate) \in Nat /\ Len(crate[d].calls) \in Nat
      <3>1. d \in DOMAIN crate /\ k \in DOMAIN crate[d].calls /\ crate \in Crates
        BY <1>2 DEF CallsOfCrate, TypeOK
      <3>2. crate[d].calls \in Seq(Call) /\ crate \in Seq(Def)
        BY <3>1, DefParts, CratesAssumption
      <3> QED
        BY <3>1, <3>2
    <2>2. Behind(d, k)
      BY <1>1, <2>1 DEF Behind
    <2> QED
      BY <1>2, <2>2 DEF Swept
  <1>3. ASSUME NEW d, NEW k, <<d, k>> \in CallsOfCrate
        PROVE  FailuresBelow(d, k) \subseteq Said
    <2>1. ASSUME NEW i \in 0 .. Fuel, NEW x \in Levels(TopInst(d, k), Fuel)[i]
          PROVE  CheckObligations(x[1], x[2]) \subseteq Said
      <3>1. PICK n : n = Fuel - i
        OBVIOUS
      <3>2. Covered(x, n)
        BY <1>2, <1>3, <2>1, <3>1, LevelsCovered
      <3> QED
        BY <3>2, CoveredParts DEF Found
    <2> QED
      BY <2>1 DEF FailuresBelow, Below, Reach, TopInst
  <1>4. ASSUME NEW c \in CallsOfCrate
        PROVE  FailuresBelow(c[1], c[2]) \subseteq Said
    <2>1. PICK d, k : c = <<d, k>>
      BY DEF CallsOfCrate
    <2>2. c[1] = d /\ c[2] = k
      BY <2>1
    <2> QED
      BY <1>3, <2>1, <2>2
  <1> QED
    BY <1>4

(* The report of mono_check is what is wrong with the instantiations: it   *)
(* has nothing that no instantiation below the call decides, and, when no  *)
(* budget ran out, all that any of them within the fuel decides, also      *)
(* where the walk skips calls that are ground already.                     *)
THEOREM ReportIsExact == Spec => []ReportsExact
  <1>1. Spec => [](TypeOK /\ Linked)
    BY AlwaysLinked
  <1>2. TypeOK /\ Linked /\ Walked /\ Swept /\ NothingInvented /\ [Next]_vars
            => (Walked /\ Swept /\ NothingInvented)'
    BY NextSwept, NextGenuine
  <1>3. TypeOK /\ Linked /\ Swept /\ NothingInvented => ReportsExact
    BY SweptMissesNone DEF ReportsExact
  <1> QED
    BY <1>1, <1>2, <1>3, InitSwept, PTL DEF Spec
=============================================================================
