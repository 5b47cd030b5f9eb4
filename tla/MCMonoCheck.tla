---------------------------- MODULE MCMonoCheck ----------------------------
(***************************************************************************)
(* Crates of three defs: 1 calls with literals, 2 is generic in one        *)
(* parameter and calls 3, 3 is generic in two, holds the obligations and   *)
(* may call itself or 2.                                                   *)
(***************************************************************************)
EXTENDS MonoCheck

Lit(n)     == [op |-> "lit", of |-> 0, num |-> n]
Sym        == [op |-> "open", of |-> 0, num |-> 0]
Plus(i, n) == [op |-> "add", of |-> i, num |-> n]
P(i)       == [op |-> "par", of |-> i, num |-> 0]
Twice(i)   == [op |-> "twice", of |-> i, num |-> 0]
DivBy(n, i) == [op |-> "div", of |-> i, num |-> n]

To(d, args)      == [callee |-> d, args |-> args]
Ob(k, a, b)      == [kind |-> k, left |-> a, right |-> b]
Width(t)         == Ob("width", t, Lit(0))

(* What def 3 may hold: in the order check_obligations takes them. *)
LeafObligations ==
    {<<Ob("equal", P(1), P(2))>>,
     <<Ob("equal", Plus(1, 1), P(2)), Ob("slice", P(1), P(2))>>,
     <<Ob("ufit", Lit(5), P(1)), Width(Plus(1, -2))>>,
     <<Ob("sfit", Lit(-3), P(1)), Width(Plus(2, -1)), Width(Plus(2, -1))>>,
     <<Ob("slice", P(2), Lit(1)), Width(DivBy(3, 1)), Width(DivBy(2, 2))>>}

LeafCalls ==
    {<<>>,
     <<To(3, <<Plus(1, -1), P(2)>>)>>,
     <<To(3, <<Plus(1, -1), Twice(2)>>), To(3, <<P(2), P(1)>>)>>,
     <<To(2, <<DivBy(4, 1)>>)>>}

WrapCalls ==
    {<<To(3, <<P(1), P(1)>>)>>,
     <<To(3, <<P(1), Lit(2)>>), To(3, <<P(1), Lit(2)>>)>>,
     <<To(3, <<Lit(1), Lit(2)>>), To(3, <<Plus(1, -1), Sym>>)>>,
     <<To(3, <<DivBy(2, 1), P(1)>>), To(2, <<Plus(1, -1)>>)>>}

TopCalls ==
    {<<To(2, <<Lit(n)>>)>> : n \in {0, 2, 4}}
        \cup {<<To(3, <<Lit(2), Lit(m)>>), To(2, <<Lit(m)>>)>> : m \in {-1, 1, 3}}
        \cup {<<To(2, <<Sym>>)>>}

WrapObligations == {<<>>, <<Width(Plus(1, -1))>>}

SomeCrates ==
    {<<[calls |-> t, obligations |-> <<>>],
       [calls |-> w, obligations |-> ow],
       [calls |-> l, obligations |-> ol]>> :
        t \in TopCalls, w \in WrapCalls, ow \in WrapObligations,
        l \in LeafCalls, ol \in LeafObligations}
=============================================================================
