----------------------------- MODULE MonoCheck -----------------------------
(***************************************************************************)
(* The query mono_check (backend/mono_check.rs): from every call of the    *)
(* crate, walk the tree of instantiations below it and report what infer   *)
(* left open and the instantiation decides against: mismatched widths,     *)
(* literals that do not fit, slices out of range, negative widths.         *)
(*                                                                         *)
(* The walk is the recursion of compose_check with its stack made          *)
(* explicit.  A def is a number, its place in map.defs().  A const         *)
(* argument is a literal, a parameter of the caller, arithmetic over one,  *)
(* or something that stays symbolic (a local, an associated const).        *)
(* Callees are told apart where messages would give their names.           *)
(***************************************************************************)
EXTENDS Integers, Sequences, FiniteSets

CONSTANTS
    Crates,     \* the crates to check
    Fuel,       \* COMPOSE_FUEL
    Budget,     \* COMPOSE_BUDGET
    MaxSteps,   \* the evaluator's MAX_STEPS
    WideWidth,  \* the width from which a fit is not decided (127)
    Open,       \* the value of what is symbolic
    Failed      \* the value of what has none (a division by zero)

Number == Int \cup {Open, Failed}

(* A tree with parameters substituted: its value and its number of nodes. *)
Tree == [num : Number, size : Nat]

(* A term: the literal `num`, something symbolic, parameter `of`, it and   *)
(* `num` added, it twice, or `num` divided by it.                          *)
Term == [op : {"lit", "open", "par", "add", "twice", "div"}, of : Nat, num : Int]

Kinds      == {"equal", "ufit", "sfit", "slice", "width"}
Obligation == [kind : Kinds, left : Term, right : Term]

(* Of the `const if` arms calls are in the code knows nothing here.        *)
Call == [callee : Nat, args : Seq(Term)]
Def  == [calls : Seq(Call), obligations : Seq(Obligation)]

ASSUME CratesAssumption ==
    \A c \in Crates :
        /\ c \in Seq(Def) /\ c # <<>>
        /\ \A d \in DOMAIN c : \A i \in DOMAIN c[d].calls :
              c[d].calls[i].callee \in DOMAIN c
ASSUME LimitsAssumption ==
    Fuel \in Nat /\ Budget \in Nat /\ MaxSteps \in Nat /\ WideWidth \in Nat
ASSUME NumbersAssumption == Open \notin Int /\ Failed \notin Int /\ Open # Failed

(* What an instantiation's obligation was decided to be. *)
Message == [callee : Nat, kind : Kinds, vals : Number \X Number]

(* What one run of check_obligations pushed: the diagnostics of its        *)
(* messages, at the call of that span in that def.                         *)
Diagnostics == [def : Nat, span : Nat, msgs : SUBSET Message]

(* A call of compose_check under way, at its inner call number `next`. *)
Frame == [callee : Nat, subst : Seq(Tree), fuel : Nat, next : Nat]

VARIABLES
    crate,    \* the crate
    at,       \* the call the walk is below: its def and its number there
    stack,    \* the calls of compose_check under way, the innermost last
    budget,
    out,      \* what was pushed, in order
    done,
    checked,  \* history: the instantiations checked below `at`
    cut       \* history: did the budget of some call run out?

vars == <<crate, at, stack, budget, out, done, checked, cut>>

----------------------------------------------------------------------------
(* checked_div, which rounds toward zero. *)
Over(a, b) ==
    LET abs(n) == IF n < 0 THEN -n ELSE n
        q == abs(a) \div abs(b)
    IN  IF b = 0 THEN Failed ELSE IF (a < 0) = (b < 0) THEN q ELSE -q

(* subst_const_opt, with the value the resulting tree has. *)
Substituted(t, subst) ==
    IF t.op = "lit" THEN [num |-> t.num, size |-> 1]
    ELSE IF t.op = "open" \/ t.of \notin DOMAIN subst THEN [num |-> Open, size |-> 1]
    ELSE LET v == subst[t.of]
             over(n) == IF v.num \in {Open, Failed} THEN v.num ELSE n
         IN  CASE t.op = "par"   -> v
               [] t.op = "add"   -> [num |-> over(v.num + t.num), size |-> v.size + 2]
               [] t.op = "twice" -> [num |-> over(v.num + v.num), size |-> 2 * v.size + 1]
               [] t.op = "div"   -> [num |-> over(Over(t.num, v.num)), size |-> v.size + 2]

(* is_closed and eval_const: Open unless closed, Failed without a value    *)
(* or with more nodes than the evaluator takes steps.                      *)
Value(t, subst) ==
    LET v == Substituted(t, subst)
    IN  IF v.num # Open /\ v.size > MaxSteps THEN Failed ELSE v.num

(* compose_term, on a call's arguments. *)
Compose(args, subst) == [i \in DOMAIN args |-> Substituted(args[i], subst)]

(* The call is ground in its own caller (consts_closed). *)
ConstsClosed(args) == \A i \in DOMAIN args : args[i].op = "lit"

Ground(v) == v \notin {Open, Failed}

Fits(signed, value, w) ==
    IF signed THEN -(2 ^ (w - 1)) <= value /\ value < 2 ^ (w - 1)
    ELSE 0 <= value /\ value < 2 ^ w

(* Is the obligation decided, and decided against?  A width below 1 or of  *)
(* WideWidth and more decides no fit.  Widths are looked at only where     *)
(* there is something to substitute, and 0 is legal.                       *)
Fails(o, subst) ==
    LET a == Value(o.left, subst)
        b == Value(o.right, subst)
    IN  \/ o.kind = "equal" /\ Ground(a) /\ Ground(b) /\ a # b
        \/ /\ o.kind \in {"ufit", "sfit"} /\ Ground(b)
           /\ b \in 1 .. WideWidth - 1 /\ ~Fits(o.kind = "sfit", a, b)
        \/ o.kind = "slice" /\ Ground(a) /\ Ground(b) /\ a > b
        \/ o.kind = "width" /\ subst # <<>> /\ a # Open /\ (a = Failed \/ a < 0)

Says(o, callee, subst) ==
    [callee |-> callee, kind |-> o.kind,
     vals |-> <<Value(o.left, subst), Value(o.right, subst)>>]

(* check_obligations *)
ObligationsOf(callee) ==
    {crate[callee].obligations[i] : i \in DOMAIN crate[callee].obligations}

(* Nothing is substituted and no width or fit was left to the instance:    *)
(* the slices are not looked at.                                           *)
NothingToCheck(callee, subst) ==
    subst = <<>> /\ \A o \in ObligationsOf(callee) : o.kind \in {"slice", "width"}

CheckObligations(callee, subst) ==
    {Says(o, callee, subst) :
        o \in {p \in ObligationsOf(callee) : ~NothingToCheck(callee, subst) /\ Fails(p, subst)}}

(* compose_check up to its loop, for the call `w` with `left` of its       *)
(* budget, called by what is on the stack `rest`.                          *)
ComposeCheck(w, left, callee, subst, fuel, rest) ==
    IF left = 0
    THEN stack' = rest /\ budget' = 0 /\ cut' = TRUE /\ UNCHANGED out
    ELSE /\ budget' = left - 1
         /\ out' = Append(out, [def |-> w.def, span |-> w.call,
                                msgs |-> CheckObligations(callee, subst)])
         /\ stack' = IF fuel = 0 THEN rest
                     ELSE Append(rest, [callee |-> callee, subst |-> subst,
                                        fuel |-> fuel, next |-> 1])
         /\ UNCHANGED cut

Checked(inst, left, old) == checked' = IF left = 0 THEN old ELSE Append(old, inst)

----------------------------------------------------------------------------
Last == Len(stack)
Top  == stack[Last]

(* The loop of mono_check: the next call of the def, below a new budget.   *)
CheckCall ==
    /\ ~done /\ stack = <<>> /\ at.call < Len(crate[at.def].calls)
    /\ LET w == [at EXCEPT !.call = @ + 1]
           c == crate[w.def].calls[w.call]
           subst == Compose(c.args, <<>>)
       IN  /\ at' = w
           /\ ComposeCheck(w, Budget, c.callee, subst, Fuel, <<>>)
           /\ Checked(<<c.callee, subst>>, Budget, <<>>)
    /\ UNCHANGED <<crate, done>>

NextDef ==
    /\ ~done /\ stack = <<>> /\ at.call = Len(crate[at.def].calls)
    /\ IF at.def < Len(crate)
       THEN at' = [def |-> at.def + 1, call |-> 0] /\ UNCHANGED done
       ELSE done' = TRUE /\ UNCHANGED at
    /\ UNCHANGED <<crate, stack, budget, out, checked, cut>>

(* The loop of compose_check: the next inner call of the def. *)
InnerCall == crate[Top.callee].calls[Top.next]
Advanced  == [stack EXCEPT ![Last].next = @ + 1]

SkipGround ==
    /\ stack # <<>> /\ Top.next <= Len(crate[Top.callee].calls)
    /\ ConstsClosed(InnerCall.args)
    /\ stack' = Advanced
    /\ UNCHANGED <<crate, at, budget, out, done, checked, cut>>

(* Mutant: the substitution of the caller is handed down as it is.         *)
DescendUncomposed ==
    /\ stack # <<>> /\ Top.next <= Len(crate[Top.callee].calls)
    /\ ~ConstsClosed(InnerCall.args)
    /\ ComposeCheck(at, budget, InnerCall.callee, Top.subst, Top.fuel - 1, Advanced)
    /\ Checked(<<InnerCall.callee, Top.subst>>, budget, checked)
    /\ UNCHANGED <<crate, at, done>>

Descend ==
    /\ stack # <<>> /\ Top.next <= Len(crate[Top.callee].calls)
    /\ ~ConstsClosed(InnerCall.args)
    /\ LET subst == Compose(InnerCall.args, Top.subst)
       IN  /\ ComposeCheck(at, budget, InnerCall.callee, subst, Top.fuel - 1,
                           Advanced)
           /\ Checked(<<InnerCall.callee, subst>>, budget, checked)
    /\ UNCHANGED <<crate, at, done>>

Return ==
    /\ stack # <<>> /\ Top.next > Len(crate[Top.callee].calls)
    /\ stack' = SubSeq(stack, 1, Last - 1)
    /\ UNCHANGED <<crate, at, budget, out, done, checked, cut>>

Init ==
    /\ crate \in Crates
    /\ at = [def |-> 1, call |-> 0]
    /\ stack = <<>>
    /\ budget = 0
    /\ out = <<>>
    /\ done = FALSE
    /\ checked = <<>>
    /\ cut = FALSE

Next == CheckCall \/ NextDef \/ SkipGround \/ Descend \/ Return

(* One synchronous query: it takes a step whenever it has one. *)
Spec == Init /\ [][Next]_vars /\ WF_vars(Next)

----------------------------------------------------------------------------
(* The report: what was pushed, sorted by span and message, not by def,    *)
(* and rid of equal neighbours.  Of a message it keeps what was pushed with *)
(* another def than what precedes it among those of its span.              *)
Neighbours(j, i, m) ==
    LET alike(k) == m \in out[k].msgs /\ out[k].span = out[i].span
    IN  j < i /\ alike(j) /\ \A k \in DOMAIN out : j < k /\ k < i => ~alike(k)

Kept(m) ==
    {i \in DOMAIN out :
        /\ m \in out[i].msgs
        /\ \A j \in DOMAIN out : Neighbours(j, i, m) => out[j].def # out[i].def}

----------------------------------------------------------------------------
(* Properties. *)

(* A chain of calls under way, each with one less to spend than its caller. *)
Chain(s) ==
    /\ s \in Seq(Frame)
    /\ \A i \in DOMAIN s :
          /\ s[i].callee \in DOMAIN crate
          /\ s[i].next \in 1 .. Len(crate[s[i].callee].calls) + 1
          /\ s[i].fuel = Fuel - (i - 1) /\ s[i].fuel > 0

TypeOK ==
    /\ crate \in Crates
    /\ at \in [def : DOMAIN crate, call : Nat]
    /\ at.call <= Len(crate[at.def].calls)
    /\ Chain(stack)
    /\ budget \in 0 .. Budget
    /\ out \in Seq(Diagnostics)
    /\ checked \in Seq(Nat \X Seq(Tree))
    /\ done \in BOOLEAN /\ cut \in BOOLEAN

(* The instantiations up to n calls below an instantiation: the reference  *)
(* the walk is measured against.                                           *)
Steps(inst) ==
    {<<crate[inst[1]].calls[i].callee, Compose(crate[inst[1]].calls[i].args, inst[2])>> :
        i \in DOMAIN crate[inst[1]].calls}

Levels(inst, n) ==
    LET level[i \in 0 .. n] ==
            IF i = 0 THEN {inst} ELSE UNION {Steps(j) : j \in level[i - 1]}
    IN  level

Reach(inst, n) == UNION {Levels(inst, n)[i] : i \in 0 .. n}

CallsOfCrate == UNION {{d} \X DOMAIN crate[d].calls : d \in DOMAIN crate}

Below(d, k) ==
    Reach(<<crate[d].calls[k].callee, Compose(crate[d].calls[k].args, <<>>)>>, Fuel)

FailuresBelow(d, k) ==
    UNION {CheckObligations(inst[1], inst[2]) : inst \in Below(d, k)}

Said == UNION {out[i].msgs : i \in DOMAIN out}

(* Every diagnostic is of an instantiation below the call it is reported   *)
(* at.                                                                     *)
NothingInvented ==
    \A i \in DOMAIN out : out[i].msgs \subseteq FailuresBelow(out[i].def, out[i].span)

(* Unless a budget ran out, what fails within the fuel of any call is      *)
(* reported somewhere, also where the walk skips calls that are ground     *)
(* already.                                                                *)
NothingMissed ==
    done /\ ~cut =>
        \A c \in CallsOfCrate : FailuresBelow(c[1], c[2]) \subseteq Said

(* What is reported is what is wrong with the instantiations.              *)
ReportsExact == NothingInvented /\ NothingMissed

(* The report has every diagnostic once: none is lost, and none is left    *)
(* twice, though the sort that brings equal ones together does not look at *)
(* their defs and the removal only at neighbours.                          *)
SameCall(i, j) == out[i].def = out[j].def /\ out[i].span = out[j].span

EachReportedOnce ==
    \A i \in DOMAIN out : \A m \in out[i].msgs :
        \E k \in Kept(m) : SameCall(k, i) /\ \A j \in Kept(m) : SameCall(j, i) => j = k

(* However often and however deep defs call each other, no chain is longer *)
(* than the fuel, and no call has more instantiations checked below it     *)
(* than the budget.                                                        *)
WorkBounded == Len(stack) <= Fuel /\ Len(checked) <= Budget
=============================================================================
