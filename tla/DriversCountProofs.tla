------------------------- MODULE DriversCountProofs -------------------------
(***************************************************************************)
(* The walk of a body of any shape: it goes through each call once, and    *)
(* counts each driver in the text once for its local.                      *)
(***************************************************************************)
EXTENDS DriversProofs, FiniteSetTheorems

----------------------------------------------------------------------------
(* What a body is made of: each node is held once, by one node.            *)

LEMMA TreeOf ==
    ASSUME body \in Bodies
    PROVE  /\ Refers(body) /\ Tree(body)
           /\ body.blocks \in Seq(Block) /\ body.stmts \in Seq(Stmt) /\ body.exprs \in Seq(Expr)
           /\ DOMAIN body.blocks = 1 .. Len(body.blocks) /\ Len(body.blocks) \in Nat
           /\ DOMAIN body.stmts \subseteq Nat \ {0} /\ DOMAIN body.exprs \subseteq Nat \ {0}
  BY BodiesAssumption

LEMMA HeldByOne ==
    ASSUME body \in Bodies, NEW n \in Nodes(body), NEW m \in Nodes(body), NEW c,
           c \in Holds(body, n), c \in Holds(body, m)
    PROVE  n = m
<1>1. PICK h : h = [k \in Nodes(body) |-> Holds(body, k)]
  OBVIOUS
<1>2. \A i, j \in Nodes(body) : i # j => h[i] \cap h[j] = {}
  BY <1>1, TreeOf DEF Tree
<1>3. c \in h[n] /\ c \in h[m]
  BY <1>1
<1> QED
  BY <1>2, <1>3

LEMMA TopIsHeldByNone ==
    ASSUME body \in Bodies, NEW n \in Nodes(body)
    PROVE  <<"block", Top>> \notin Holds(body, n)
  BY TreeOf DEF Tree, Top

LEMMA NodesAre ==
    /\ \A k \in DOMAIN body.blocks : <<"block", k>> \in Nodes(body)
    /\ \A s \in DOMAIN body.stmts : <<"stmt", s>> \in Nodes(body)
    /\ \A e \in DOMAIN body.exprs : <<"expr", e>> \in Nodes(body)
  BY DEF Nodes

(* A block holds its statements, a statement and an expression their       *)
(* blocks.                                                                 *)
LEMMA BlockHolds ==
    ASSUME body \in Bodies, NEW k \in DOMAIN body.blocks
    PROVE  /\ \A s \in Members(body.blocks[k].stmts) :
                 s \in DOMAIN body.stmts /\ <<"stmt", s>> \in Holds(body, <<"block", k>>)
           /\ body.blocks[k].tail # 0 => <<"expr", body.blocks[k].tail>> \in Holds(body, <<"block", k>>)
<1>1. Holds(body, <<"block", k>>) = {"stmt"} \X (Members(body.blocks[k].stmts) \ {0})
                                       \cup {"expr"} \X ({body.blocks[k].tail} \ {0})
  BY DEF Holds
<1>2. ASSUME NEW s \in Members(body.blocks[k].stmts)
      PROVE  s \in DOMAIN body.stmts /\ s # 0
  BY TreeOf DEF Members, Refers
<1> QED
  BY <1>1, <1>2

LEMMA StmtHolds ==
    ASSUME body \in Bodies, NEW s \in DOMAIN body.stmts
    PROVE  /\ body.stmts[s].op = "equation" =>
                 <<"expr", body.stmts[s].lhs>> \in Holds(body, <<"stmt", s>>)
           /\ body.stmts[s].op # "var" => <<"expr", body.stmts[s].rhs>> \in Holds(body, <<"stmt", s>>)
           /\ body.stmts[s].op \in {"for", "when"} =>
                 <<"block", body.stmts[s].block>> \in Holds(body, <<"stmt", s>>)
<1>1. Holds(body, <<"stmt", s>>) =
        {"expr"} \X ((Only({body.stmts[s].lhs}, body.stmts[s].op = "equation")
                         \cup Only({body.stmts[s].rhs}, body.stmts[s].op # "var")) \ {0})
        \cup {"block"} \X (Only({body.stmts[s].block}, body.stmts[s].op \in {"for", "when"}) \ {0})
  BY DEF Holds
<1>2. /\ body.stmts[s].op = "equation" => body.stmts[s].lhs # 0
      /\ body.stmts[s].op # "var" => body.stmts[s].rhs # 0
      /\ body.stmts[s].op \in {"for", "when"} => body.stmts[s].block # 0
  BY TreeOf, StmtRefers
<1> QED
  BY <1>1, <1>2 DEF Only

LEMMA ExprHolds ==
    ASSUME body \in Bodies, NEW e \in DOMAIN body.exprs
    PROVE  /\ \A i \in Members(body.exprs[e].kids) \ {0} :
                 <<"expr", i>> \in Holds(body, <<"expr", e>>)
           /\ \A k \in Members(body.exprs[e].blocks) :
                 k \in DOMAIN body.blocks /\ <<"block", k>> \in Holds(body, <<"expr", e>>)
<1>1. Holds(body, <<"expr", e>>) = {"expr"} \X (Members(body.exprs[e].kids) \ {0})
                                       \cup {"block"} \X (Members(body.exprs[e].blocks) \ {0})
  BY DEF Holds
<1>2. ASSUME NEW k \in Members(body.exprs[e].blocks)
      PROVE  k \in DOMAIN body.blocks /\ k # 0
  BY TreeOf DEF Members, Refers
<1> QED
  BY <1>1, <1>2

----------------------------------------------------------------------------
(* What a `when` guards.                                                   *)

GuardedIn(g, b) ==
    Members(body.blocks[b].stmts)
        \cup UNION {UNION {g[k] : k \in Branches(s)} : s \in {s \in Members(body.blocks[b].stmts) : Guards(s)}}

LEMMA BranchesComeBefore ==
    ASSUME body \in Bodies, NEW b \in DOMAIN body.blocks,
           NEW s \in Members(body.blocks[b].stmts), Guards(s), NEW k \in Branches(s)
    PROVE  k \in DOMAIN body.blocks /\ k \in 1 .. b - 1 /\ <<"block", k>> \in Holds(body, <<"expr", body.stmts[s].rhs>>)
                /\ body.stmts[s].rhs \in DOMAIN body.exprs
<1>1. s \in DOMAIN body.stmts /\ body.stmts[s].op # "var"
  BY BlockHolds DEF Guards
<1>2. body.stmts[s].rhs \in DOMAIN body.exprs
  BY <1>1, StmtRefers
<1>3. k \in DOMAIN body.blocks /\ <<"block", k>> \in Holds(body, <<"expr", body.stmts[s].rhs>>)
  BY <1>2, ExprHolds DEF Branches
<1>4. k < b
  BY <1>1, TreeOf DEF Tree, Members, Branches
<1>5. k \in 1 .. b - 1
  BY <1>3, <1>4, TreeOf
<1> QED
  BY <1>2, <1>3, <1>5

LEMMA GuardedDefined ==
    ASSUME body \in Bodies
    PROVE  \A b \in DOMAIN body.blocks : Guarded[b] = GuardedIn(Guarded, b) /\ Guarded[b] \subseteq DOMAIN body.stmts
<1>1. PICK n, S : n = Len(body.blocks) /\ n \in Nat /\ DOMAIN body.blocks = 1 .. n /\ S = SUBSET DOMAIN body.stmts
  BY TreeOf
<1>2. ASSUME NEW m \in 1 .. n, NEW g, \A k \in 1 .. m - 1 : g[k] \in S
      PROVE  GuardedIn(g, m) \in S
  <2>1. \A s \in Members(body.blocks[m].stmts) : s \in DOMAIN body.stmts
    BY <1>1, BlockHolds
  <2>2. ASSUME NEW s \in Members(body.blocks[m].stmts), Guards(s), NEW k \in Branches(s)
        PROVE  g[k] \in S
    <3>1. k \in 1 .. m - 1
      BY <1>1, <2>2, BranchesComeBefore
    <3> QED
      BY <1>2, <3>1
  <2> QED
    BY <1>1, <2>1, <2>2 DEF GuardedIn
<1>3. \E g : g = [m \in DOMAIN body.blocks |-> GuardedIn(g, m)]
  <2> DEFINE W(m) == [h \in [1 .. m - 1 -> S] |-> GuardedIn(h, m)]
  <2>1. ASSUME NEW m \in 1 .. n
        PROVE  W(m) \in [[1 .. m - 1 -> S] -> S]
    <3>1. \A h \in [1 .. m - 1 -> S] : GuardedIn(h, m) \in S
      BY <1>2
    <3> QED
      BY <3>1
  <2>2. PICK F : F = [m \in 1 .. n |-> W(m)]
    OBVIOUS
  <2>3. \A m \in 1 .. n : F[m] = W(m)
    <3> HIDE DEF W
    <3> QED BY <2>2
  <2>4. Steps(1, n, S, F)
    <3> HIDE DEF W
    <3> QED BY <2>1, <2>3 DEF Steps
  <2>5. PICK g : Follows(g, 1, n, S, F)
    <3> HIDE DEF W
    <3> QED BY <1>1, <2>4, RecursionIsDefined
  <2>6. ASSUME NEW m \in 1 .. n
        PROVE  g[m] = GuardedIn(g, m)
    <3>1. PICK h : h = [k \in 1 .. m - 1 |-> g[k]]
      OBVIOUS
    <3>2. h \in [1 .. m - 1 -> S]
      BY <1>1, <2>5, <3>1 DEF Follows
    <3>3. g[m] = GuardedIn(h, m)
      BY <2>3, <2>5, <3>1, <3>2 DEF Follows
    <3>4. ASSUME NEW s \in Members(body.blocks[m].stmts), Guards(s), NEW k \in Branches(s)
          PROVE  h[k] = g[k]
      <4>1. k \in 1 .. m - 1
        BY <1>1, <3>4, BranchesComeBefore
      <4> QED
        BY <3>1, <4>1
    <3>5. GuardedIn(h, m) = GuardedIn(g, m)
      BY <3>4 DEF GuardedIn
    <3> QED
      BY <3>3, <3>5
  <2>7. g = [m \in DOMAIN body.blocks |-> GuardedIn(g, m)]
    BY <1>1, <2>5, <2>6 DEF Follows
  <2> QED
    BY <2>7
<1>4. Guarded = CHOOSE g : g = [m \in DOMAIN body.blocks |-> GuardedIn(g, m)]
  BY DEF Guarded, GuardedIn
<1>5. Guarded = [m \in DOMAIN body.blocks |-> GuardedIn(Guarded, m)]
  BY <1>3, <1>4
<1>6. \A m \in 1 .. n : Guarded[m] = GuardedIn(Guarded, m)
  BY <1>1, <1>5
<1>7. PICK G : G = {m \in 1 .. n : Guarded[m] \in S}
  OBVIOUS
<1>8. ASSUME NEW m \in 1 .. n, \A k \in 1 .. m - 1 : k \in G
      PROVE  m \in G
  <2>1. \A k \in 1 .. m - 1 : Guarded[k] \in S
    BY <1>7, <1>8
  <2>2. GuardedIn(Guarded, m) \in S
    BY <1>2, <2>1
  <2> QED
    BY <1>6, <1>7, <2>2
<1>9. \A m \in 1 .. n : m \in G
  BY <1>1, <1>8, AlongTheArena
<1> QED
  BY <1>1, <1>6, <1>7, <1>9

LEMMA OwnAreGuarded ==
    ASSUME body \in Bodies, NEW b \in DOMAIN body.blocks
    PROVE  Members(body.blocks[b].stmts) \subseteq Guarded[b]
  BY GuardedDefined DEF GuardedIn

(* What is below an `if` that is guarded is guarded.                       *)
LEMMA BelowGuards ==
    ASSUME body \in Bodies
    PROVE  \A b \in DOMAIN body.blocks : \A s \in Guarded[b] :
              Guards(s) => \A k \in Branches(s) : Guarded[k] \subseteq Guarded[b]
<1>1. PICK n, G : n = Len(body.blocks) /\ n \in Nat /\ DOMAIN body.blocks = 1 .. n
                  /\ G = {b \in 1 .. n : \A s \in Guarded[b] : Guards(s) => \A k \in Branches(s) : Guarded[k] \subseteq Guarded[b]}
  BY TreeOf
<1>2. ASSUME NEW b \in 1 .. n, \A k \in 1 .. b - 1 : k \in G
      PROVE  b \in G
  <2>1. SUFFICES ASSUME NEW s \in Guarded[b], Guards(s), NEW k \in Branches(s)
                 PROVE  Guarded[k] \subseteq Guarded[b]
    BY <1>1
  <2>2. Guarded[b] = GuardedIn(Guarded, b)
    BY <1>1, GuardedDefined
  <2>3. CASE s \in Members(body.blocks[b].stmts)
    BY <2>1, <2>2, <2>3 DEF GuardedIn
  <2>4. CASE s \notin Members(body.blocks[b].stmts)
    <3>1. PICK r, j : r \in Members(body.blocks[b].stmts) /\ Guards(r) /\ j \in Branches(r) /\ s \in Guarded[j]
      BY <2>2, <2>4 DEF GuardedIn
    <3>2. j \in 1 .. b - 1
      BY <1>1, <3>1, BranchesComeBefore
    <3>3. Guarded[k] \subseteq Guarded[j]
      BY <1>1, <1>2, <2>1, <3>1, <3>2
    <3>4. Guarded[j] \subseteq Guarded[b]
      BY <2>2, <3>1 DEF GuardedIn
    <3> QED
      BY <3>3, <3>4
  <2> QED
    BY <2>3, <2>4
<1>3. \A b \in 1 .. n : b \in G
  BY <1>1, <1>2, AlongTheArena
<1> QED
  BY <1>1, <1>3

(* What is guarded is in the block itself, or below an `if` guarded there. *)
LEMMA GuardedSomewhere ==
    ASSUME body \in Bodies
    PROVE  \A b \in DOMAIN body.blocks : \A s \in Guarded[b] :
              \/ s \in Members(body.blocks[b].stmts)
              \/ \E r \in Guarded[b] : Guards(r) /\ \E k \in Branches(r) :
                    k \in DOMAIN body.blocks /\ s \in Members(body.blocks[k].stmts)
<1> DEFINE There(b, s) == \/ s \in Members(body.blocks[b].stmts)
                          \/ \E r \in Guarded[b] : Guards(r) /\ \E k \in Branches(r) :
                                k \in DOMAIN body.blocks /\ s \in Members(body.blocks[k].stmts)
<1>1. PICK n, G : n = Len(body.blocks) /\ n \in Nat /\ DOMAIN body.blocks = 1 .. n
                  /\ G = {b \in 1 .. n : \A s \in Guarded[b] : There(b, s)}
  BY TreeOf
<1>2. ASSUME NEW b \in 1 .. n, \A k \in 1 .. b - 1 : k \in G
      PROVE  b \in G
  <2>1. SUFFICES ASSUME NEW s \in Guarded[b], s \notin Members(body.blocks[b].stmts)
                 PROVE  There(b, s)
    BY <1>1
  <2>2. Guarded[b] = GuardedIn(Guarded, b)
    BY <1>1, GuardedDefined
  <2>3. PICK r, j : r \in Members(body.blocks[b].stmts) /\ Guards(r) /\ j \in Branches(r) /\ s \in Guarded[j]
    BY <2>1, <2>2 DEF GuardedIn
  <2>4. j \in 1 .. b - 1
    BY <1>1, <2>3, BranchesComeBefore
  <2>5. There(j, s)
    BY <1>1, <1>2, <2>3, <2>4
  <2>6. r \in Guarded[b] /\ Guarded[j] \subseteq Guarded[b]
    BY <2>2, <2>3 DEF GuardedIn
  <2>7. j \in DOMAIN body.blocks
    BY <1>1, <2>4
  <2> QED
    BY <2>3, <2>5, <2>6, <2>7
<1>3. \A b \in 1 .. n : b \in G
  BY <1>1, <1>2, AlongTheArena
<1> QED
  BY <1>1, <1>3

LEMMA WhenBlocks ==
    ASSUME body \in Bodies, NEW w \in Whens
    PROVE  /\ w \in DOMAIN body.stmts /\ body.stmts[w].op = "when"
           /\ body.stmts[w].block \in DOMAIN body.blocks
           /\ body.stmts[w].rhs \in DOMAIN body.exprs
           /\ body.stmts[w].block \in GuardedBlocks
           /\ Guarded[body.stmts[w].block] \subseteq BelowWhen
           /\ <<"block", body.stmts[w].block>> \in Holds(body, <<"stmt", w>>)
  BY StmtRefers, StmtHolds DEF Whens, GuardedBlocks, BelowWhen

LEMMA BelowAre ==
    ASSUME body \in Bodies, NEW s \in BelowWhen
    PROVE  s \in DOMAIN body.stmts /\ \E w \in Whens : s \in Guarded[body.stmts[w].block]
<1>1. PICK w \in Whens : s \in Guarded[body.stmts[w].block]
  BY DEF BelowWhen
<1> QED
  BY <1>1, WhenBlocks, GuardedDefined

(* A guarded block is of a `when`, or of an `if` that is guarded.          *)
LEMMA GuardedBlockOf ==
    ASSUME body \in Bodies, NEW k \in GuardedBlocks
    PROVE  /\ k \in DOMAIN body.blocks
           /\ \/ \E w \in Whens : k = body.stmts[w].block
              \/ \E s \in BelowWhen : Guards(s) /\ k \in Branches(s)
<1>1. CASE \E w \in Whens : k = body.stmts[w].block
  BY <1>1, WhenBlocks
<1>2. CASE \E s \in BelowWhen : Guards(s) /\ k \in Branches(s)
  <2>1. PICK s \in BelowWhen : Guards(s) /\ k \in Branches(s)
    BY <1>2
  <2>2. s \in DOMAIN body.stmts /\ body.stmts[s].op # "var"
    BY <2>1, BelowAre DEF Guards
  <2>3. body.stmts[s].rhs \in DOMAIN body.exprs
    BY <2>2, StmtRefers
  <2> QED
    BY <1>2, <2>1, <2>3, ExprHolds DEF Branches
<1> QED
  BY <1>1, <1>2 DEF GuardedBlocks

(* The statements of the guarded blocks are those below a `when`.          *)
LEMMA BlocksOfGuarded ==
    ASSUME body \in Bodies, NEW k \in DOMAIN body.blocks
    PROVE  /\ k \in GuardedBlocks => Members(body.blocks[k].stmts) \subseteq BelowWhen
           /\ k \notin GuardedBlocks => Members(body.blocks[k].stmts) \cap BelowWhen = {}
<1>1. ASSUME k \in GuardedBlocks
      PROVE  Members(body.blocks[k].stmts) \subseteq BelowWhen
  <2>1. CASE \E w \in Whens : k = body.stmts[w].block
    BY <2>1, OwnAreGuarded, WhenBlocks
  <2>2. CASE \E s \in BelowWhen : Guards(s) /\ k \in Branches(s)
    <3>1. PICK s \in BelowWhen : Guards(s) /\ k \in Branches(s)
      BY <2>2
    <3>2. PICK w \in Whens : s \in Guarded[body.stmts[w].block]
      BY <3>1, BelowAre
    <3>3. Guarded[k] \subseteq Guarded[body.stmts[w].block]
      BY <3>1, <3>2, WhenBlocks, BelowGuards
    <3> QED
      BY <3>2, <3>3, OwnAreGuarded, WhenBlocks
  <2> QED
    BY <1>1, <2>1, <2>2, GuardedBlockOf
<1>2. ASSUME NEW s \in Members(body.blocks[k].stmts), s \in BelowWhen
      PROVE  k \in GuardedBlocks
  <2>1. PICK w \in Whens : s \in Guarded[body.stmts[w].block]
    BY <1>2, BelowAre
  <2>2. PICK b : b = body.stmts[w].block /\ b \in DOMAIN body.blocks /\ b \in GuardedBlocks
                 /\ Guarded[b] \subseteq BelowWhen
    BY <2>1, WhenBlocks
  <2>3. ASSUME NEW j \in DOMAIN body.blocks, s \in Members(body.blocks[j].stmts)
        PROVE  j = k
    <3>1. <<"stmt", s>> \in Holds(body, <<"block", j>>) /\ <<"stmt", s>> \in Holds(body, <<"block", k>>)
      BY <1>2, <2>3, BlockHolds
    <3>2. <<"block", j>> = <<"block", k>>
      BY <2>3, <3>1, HeldByOne, NodesAre
    <3> QED
      BY <3>2
  <2>4. CASE s \in Members(body.blocks[b].stmts)
    BY <2>2, <2>3, <2>4
  <2>5. CASE \E r \in Guarded[b] : Guards(r) /\ \E j \in Branches(r) :
                j \in DOMAIN body.blocks /\ s \in Members(body.blocks[j].stmts)
    <3>1. PICK r, j : r \in Guarded[b] /\ Guards(r) /\ j \in Branches(r)
                      /\ j \in DOMAIN body.blocks /\ s \in Members(body.blocks[j].stmts)
      BY <2>5
    <3>2. j = k /\ r \in BelowWhen
      BY <2>2, <2>3, <3>1
    <3> QED
      BY <3>1, <3>2 DEF GuardedBlocks
  <2> QED
    BY <2>1, <2>2, <2>4, <2>5, GuardedSomewhere
<1> QED
  BY <1>1, <1>2

----------------------------------------------------------------------------
(* The walk replaces a call by those it makes.                             *)

LEMMA JoinedLists ==
    ASSUME NEW T, NEW s \in Seq(T), NEW r \in Seq(T)
    PROVE  /\ Len(s) \in Nat /\ Len(r) \in Nat /\ s \o r \in Seq(T)
           /\ DOMAIN s = 1 .. Len(s) /\ DOMAIN r = 1 .. Len(r)
           /\ Len(s \o r) = Len(s) + Len(r) /\ DOMAIN (s \o r) = 1 .. Len(s) + Len(r)
           /\ \A i \in 1 .. Len(s) : (s \o r)[i] = s[i]
           /\ \A i \in Len(s) + 1 .. Len(s) + Len(r) : (s \o r)[i] = r[i - Len(s)]
<1>1. /\ Len(s) \in Nat /\ Len(r) \in Nat /\ s \o r \in Seq(T)
      /\ DOMAIN s = 1 .. Len(s) /\ DOMAIN r = 1 .. Len(r)
  OBVIOUS
<1>2. Len(s \o r) = Len(s) + Len(r)
  OBVIOUS
<1>3. \A i \in 1 .. Len(s) + Len(r) : (s \o r)[i] = IF i <= Len(s) THEN s[i] ELSE r[i - Len(s)]
  OBVIOUS
<1>4. DOMAIN (s \o r) = 1 .. Len(s) + Len(r)
  BY <1>1, <1>2
<1> QED
  BY <1>1, <1>2, <1>3, <1>4

LEMMA MembersOfLists ==
    ASSUME NEW T
    PROVE  /\ \A s \in Seq(T) : Members(s) \subseteq T
           /\ \A s, r \in Seq(T) : Members(s \o r) = Members(s) \cup Members(r)
           /\ \A s \in Seq(T) : s # <<>> => Members(s) = {Head(s)} \cup Members(Tail(s))
           /\ Members(<<>>) = {}
           /\ \A x : Members(<<x>>) = {x}
           /\ \A x, y : Members(<<x, y>>) = {x, y}
<1>1. ASSUME NEW s \in Seq(T), NEW r \in Seq(T)
      PROVE  Members(s \o r) = Members(s) \cup Members(r)
  <2>1. PICK m, n, c : m = Len(s) /\ n = Len(r) /\ c = s \o r
    OBVIOUS
  <2>2. /\ m \in Nat /\ n \in Nat
        /\ DOMAIN s = 1 .. m /\ DOMAIN r = 1 .. n /\ DOMAIN c = 1 .. m + n
        /\ \A i \in 1 .. m : c[i] = s[i]
        /\ \A i \in m + 1 .. m + n : c[i] = r[i - m]
    BY <2>1, JoinedLists
  <2>3. ASSUME NEW i \in 1 .. m + n
        PROVE  c[i] \in Members(s) \cup Members(r)
    <3>1. CASE i \in 1 .. m
      BY <2>2, <3>1 DEF Members
    <3>2. CASE i \notin 1 .. m
      <4>1. i - m \in 1 .. n /\ c[i] = r[i - m]
        BY <2>2, <3>2
      <4> QED
        BY <2>2, <4>1 DEF Members
    <3> QED
      BY <3>1, <3>2
  <2>4. ASSUME NEW i \in 1 .. m
        PROVE  s[i] \in Members(c)
    BY <2>2 DEF Members
  <2>5. ASSUME NEW i \in 1 .. n
        PROVE  r[i] \in Members(c)
    <3>1. i + m \in 1 .. m + n /\ c[i + m] = r[i]
      BY <2>2
    <3> QED
      BY <2>2, <3>1 DEF Members
  <2>6. Members(c) \subseteq Members(s) \cup Members(r)
    BY <2>2, <2>3 DEF Members
  <2>7. Members(s) \subseteq Members(c) /\ Members(r) \subseteq Members(c)
    BY <2>2, <2>4, <2>5 DEF Members
  <2> QED
    BY <2>1, <2>6, <2>7
<1>2. ASSUME NEW s \in Seq(T), s # <<>>
      PROVE  Members(s) = {Head(s)} \cup Members(Tail(s))
  <2>1. PICK h, r, n : h = Head(s) /\ r = Tail(s) /\ n = Len(s)
    OBVIOUS
  <2>2. /\ n \in Nat \ {0} /\ DOMAIN s = 1 .. n /\ h = s[1]
        /\ DOMAIN r = 1 .. n - 1 /\ \A i \in 1 .. n - 1 : r[i] = s[i + 1]
    BY <1>2, <2>1
  <2>3. ASSUME NEW i \in 1 .. n
        PROVE  s[i] \in {h} \cup Members(r)
    <3>1. CASE i = 1
      BY <2>2, <3>1
    <3>2. CASE i # 1
      <4>1. i - 1 \in 1 .. n - 1 /\ r[i - 1] = s[i]
        BY <2>2, <3>2
      <4> QED
        BY <2>2, <4>1 DEF Members
    <3> QED
      BY <3>1, <3>2
  <2>4. ASSUME NEW i \in 1 .. n - 1
        PROVE  r[i] \in Members(s)
    <3>1. i + 1 \in 1 .. n /\ r[i] = s[i + 1]
      BY <2>2
    <3> QED
      BY <2>2, <3>1 DEF Members
  <2>5. h \in Members(s)
    BY <2>2 DEF Members
  <2> QED
    BY <2>1, <2>2, <2>3, <2>4, <2>5 DEF Members
<1>3. \A s \in Seq(T) : Members(s) \subseteq T
  BY DEF Members
<1>4. /\ Members(<<>>) = {}
      /\ \A x : Members(<<x>>) = {x}
      /\ \A x, y : Members(<<x, y>>) = {x, y}
  BY DEF Members
<1> QED
  BY <1>1, <1>2, <1>3, <1>4

LEMMA MembersOfCalls ==
    ASSUME NEW call, NEW ids
    PROVE  Members(Calls(call, ids)) = {[call |-> call, id |-> i] : i \in Members(ids)}
  BY DEF Members, Calls

(* The calls a call makes.                                                 *)
StmtCalls(n) ==
    LET s == body.stmts[n]
    IN  CASE s.op = "equation" -> Calls("expr", <<s.lhs, s.rhs>>)
          [] s.op \in {"let", "return", "expr"} -> Calls("expr", <<s.rhs>>)
          [] s.op = "for" -> Calls("expr", <<s.rhs>>) \o Calls("block", <<s.block>>)
          [] s.op = "when" -> Calls("expr", <<s.rhs>>) \o Calls("collect", <<s.block>>) \o Calls("bind", <<n>>)
          [] s.op = "var" -> <<>>
GuardedCalls(n) ==
    LET s == body.stmts[n]
        e == body.exprs[s.rhs]
    IN  CASE Guards(n) -> Calls("expr", e.kids) \o Calls("collect", e.blocks)
          [] ~Guards(n) /\ s.op \in {"equation", "let", "expr"} -> Calls("expr", <<s.rhs>>)
          [] OTHER -> <<>>
ExprCalls(n) ==
    LET e == body.exprs[n]
    IN  CASE e.op \in {"if", "when", "block"} -> Calls("block", e.blocks)
          [] e.op \in {"record", "method", "call"} -> Calls("expr", e.kids)
          [] OTHER -> <<>>
Tails(k) == IF body.blocks[k].tail = 0 THEN <<>> ELSE <<body.blocks[k].tail>>
Made(t) ==
    CASE t.call = "block" -> Calls("stmt", body.blocks[t.id].stmts) \o Calls("expr", Tails(t.id))
      [] t.call = "stmt" -> StmtCalls(t.id)
      [] t.call = "collect" -> Calls("guarded", body.blocks[t.id].stmts)
      [] t.call = "guarded" -> GuardedCalls(t.id)
      [] t.call = "expr" -> ExprCalls(t.id)
      [] t.call = "bind" -> <<>>

LEMMA DueAre ==
    ASSUME NEW t \in Due
    PROVE  /\ t = [call |-> t.call, id |-> t.id]
           /\ t.call \in {"block", "stmt", "expr", "collect", "guarded", "bind"}
           /\ t.call \in {"block", "collect"} => t.id \in DOMAIN body.blocks
           /\ t.call \in {"stmt", "guarded", "bind"} => t.id \in DOMAIN body.stmts
           /\ t.call = "expr" => t.id \in DOMAIN body.exprs
  BY DEF Due

LEMMA MadeAreDue ==
    ASSUME body \in Bodies, NEW t \in Due
    PROVE  Made(t) \in Seq(Due)
<1> DEFINE Exprs  == DOMAIN body.exprs
           Stmts  == DOMAIN body.stmts
           Blocks == DOMAIN body.blocks
<1>1. \A s, r \in Seq(Due) : s \o r \in Seq(Due)
  OBVIOUS
<1>2. CASE t.call = "block"
  <2>1. body.blocks[t.id].stmts \in Seq(Stmts) /\ Tails(t.id) \in Seq(Exprs)
    BY <1>2, DueAre, BlockRefers, ShortLists DEF Tails
  <2> QED
    BY <1>1, <1>2, <2>1, ListsOfDue DEF Made
<1>3. CASE t.call = "stmt"
  <2>1. PICK s : s = body.stmts[t.id]
    OBVIOUS
  <2>2. /\ s.op = "equation" => s.lhs \in Exprs
        /\ s.op # "var" => s.rhs \in Exprs
        /\ s.op \in {"for", "when"} => s.block \in Blocks
        /\ t.id \in Stmts
        /\ s.op \in {"equation", "let", "return", "expr", "var", "for", "when"}
    BY <1>3, <2>1, DueAre, StmtRefers DEF Stmt
  <2>3. /\ s.op = "equation" => <<s.lhs, s.rhs>> \in Seq(Exprs)
        /\ s.op # "var" => <<s.rhs>> \in Seq(Exprs)
        /\ s.op \in {"for", "when"} => <<s.block>> \in Seq(Blocks)
        /\ <<t.id>> \in Seq(Stmts)
    BY <2>2, ShortLists
  <2>4. /\ s.op = "equation" => Calls("expr", <<s.lhs, s.rhs>>) \in Seq(Due)
        /\ s.op # "var" => Calls("expr", <<s.rhs>>) \in Seq(Due)
        /\ s.op \in {"for", "when"} =>
             Calls("block", <<s.block>>) \in Seq(Due) /\ Calls("collect", <<s.block>>) \in Seq(Due)
        /\ Calls("bind", <<t.id>>) \in Seq(Due)
        /\ <<>> \in Seq(Due)
    BY <2>3, ListsOfDue
  <2>5. Made(t) = StmtCalls(t.id)
    BY <1>3 DEF Made
  <2> QED
    BY <1>1, <2>1, <2>2, <2>4, <2>5 DEF StmtCalls
<1>4. CASE t.call = "collect"
  <2>1. body.blocks[t.id].stmts \in Seq(Stmts)
    BY <1>4, DueAre, BlockRefers
  <2> QED
    BY <1>4, <2>1, ListsOfDue DEF Made
<1>5. CASE t.call = "guarded"
  <2>1. PICK s, e : s = body.stmts[t.id] /\ e = body.exprs[s.rhs]
    OBVIOUS
  <2>2. s.op # "var" => s.rhs \in Exprs
    BY <1>5, <2>1, DueAre, StmtRefers
  <2>3. Made(t) = GuardedCalls(t.id) /\ <<>> \in Seq(Due)
    BY <1>5 DEF Made
  <2>4. CASE Guards(t.id)
    <3>1. e.kids \in Seq(Exprs) /\ e.blocks \in Seq(Blocks)
      BY <2>1, <2>2, <2>4, ExprRefers DEF Guards
    <3>2. Calls("expr", e.kids) \in Seq(Due) /\ Calls("collect", e.blocks) \in Seq(Due)
      BY <3>1, ListsOfDue
    <3> QED
      BY <1>1, <2>1, <2>3, <2>4, <3>2 DEF GuardedCalls
  <2>5. CASE ~Guards(t.id) /\ s.op \in {"equation", "let", "expr"}
    <3>1. <<s.rhs>> \in Seq(Exprs)
      BY <2>2, <2>5, ShortLists
    <3>2. Calls("expr", <<s.rhs>>) \in Seq(Due)
      BY <3>1, ListsOfDue
    <3> QED
      BY <2>1, <2>3, <2>5, <3>2 DEF GuardedCalls
  <2> QED
    BY <2>1, <2>3, <2>4, <2>5 DEF GuardedCalls
<1>6. CASE t.call = "expr"
  <2>1. PICK e : e = body.exprs[t.id]
    OBVIOUS
  <2>2. (e.op \notin {"slice", "offset"} => e.kids \in Seq(Exprs)) /\ e.blocks \in Seq(Blocks)
    BY <1>6, <2>1, DueAre, ExprRefers
  <2>3. /\ e.op \notin {"slice", "offset"} => Calls("expr", e.kids) \in Seq(Due)
        /\ Calls("block", e.blocks) \in Seq(Due) /\ <<>> \in Seq(Due)
    BY <2>2, ListsOfDue
  <2> QED
    BY <1>6, <2>1, <2>3 DEF Made, ExprCalls
<1>7. CASE t.call = "bind"
  BY <1>7 DEF Made
<1> QED
  BY <1>2, <1>3, <1>4, <1>5, <1>6, <1>7, DueAre

LEMMA WalkMakes ==
    ASSUME Walking, Walks
    PROVE  /\ UNCHANGED <<body, pc, at, diags>> /\ todo # <<>>
           /\ Next1 \in Due /\ Rest \in Seq(Due)
           /\ Made(Next1) \in Seq(Due)
           /\ todo' = Made(Next1) \o Rest
<1>1. UNCHANGED <<body, pc, at, diags>> /\ todo # <<>>
  BY DEF Walks, CountBlock, Equation, AtStmt, OtherStmt, CollectWhenDrives,
                GuardedStmt, BindWhen, CountExpr
<1>2. Next1 \in Due /\ Rest \in Seq(Due) /\ <<>> \o Rest = Rest
  BY <1>1, NextIsDue
<1>3. Made(Next1) \in Seq(Due)
  BY <1>2, MadeAreDue DEF Walking
<1> SUFFICES todo' = Made(Next1) \o Rest
  BY <1>1, <1>2, <1>3
<1>4. CASE CountBlock
  <2>1. Next1.call = "block"
        /\ todo' = Calls("stmt", body.blocks[Next1.id].stmts) \o Calls("expr", Tails(Next1.id)) \o Rest
    BY <1>4 DEF CountBlock, Tails
  <2>2. Made(Next1) = Calls("stmt", body.blocks[Next1.id].stmts) \o Calls("expr", Tails(Next1.id))
    BY <2>1 DEF Made
  <2> QED
    BY <2>1, <2>2
<1>5. CASE Equation
  <2>1. Next1.call = "stmt" /\ Stmt1.op = "equation"
        /\ todo' = Calls("expr", <<Stmt1.lhs, Stmt1.rhs>>) \o Rest
    BY <1>5 DEF Equation, AtStmt
  <2>2. Made(Next1) = StmtCalls(Next1.id)
    BY <2>1 DEF Made
  <2>3. StmtCalls(Next1.id) = Calls("expr", <<Stmt1.lhs, Stmt1.rhs>>)
    BY <2>1 DEF StmtCalls, Stmt1
  <2> QED
    BY <2>1, <2>2, <2>3
<1>6. CASE OtherStmt
  <2>1. Next1.call = "stmt"
    BY <1>6 DEF OtherStmt, AtStmt
  <2>2. Made(Next1) = StmtCalls(Next1.id)
    BY <2>1 DEF Made
  <2>3. CASE AtStmt("let") \/ AtStmt("return") \/ AtStmt("expr")
    <3>1. todo' = Calls("expr", <<Stmt1.rhs>>) \o Rest
      BY <1>6, <2>3 DEF OtherStmt, AtStmt
    <3>2. StmtCalls(Next1.id) = Calls("expr", <<Stmt1.rhs>>)
      BY <2>3 DEF StmtCalls, Stmt1, AtStmt
    <3> QED
      BY <2>2, <3>1, <3>2
  <2>4. CASE AtStmt("var")
    <3>1. todo' = Rest
      BY <1>6, <2>4 DEF OtherStmt, AtStmt
    <3>2. StmtCalls(Next1.id) = <<>>
      BY <2>4 DEF StmtCalls, Stmt1, AtStmt
    <3> QED
      BY <1>2, <2>2, <3>1, <3>2
  <2>5. CASE AtStmt("for")
    <3>1. todo' = Calls("expr", <<Stmt1.rhs>>) \o Calls("block", <<Stmt1.block>>) \o Rest
      BY <1>6, <2>5 DEF OtherStmt, AtStmt
    <3>2. StmtCalls(Next1.id) = Calls("expr", <<Stmt1.rhs>>) \o Calls("block", <<Stmt1.block>>)
      BY <2>5 DEF StmtCalls, Stmt1, AtStmt
    <3> QED
      BY <2>2, <3>1, <3>2
  <2>6. CASE AtStmt("when")
    <3>1. todo' = Calls("expr", <<Stmt1.rhs>>) \o Calls("collect", <<Stmt1.block>>)
                      \o Calls("bind", <<Next1.id>>) \o Rest
      BY <1>6, <2>6 DEF OtherStmt, AtStmt
    <3>2. StmtCalls(Next1.id) = Calls("expr", <<Stmt1.rhs>>) \o Calls("collect", <<Stmt1.block>>)
                                    \o Calls("bind", <<Next1.id>>)
      BY <2>6 DEF StmtCalls, Stmt1, AtStmt
    <3> QED
      BY <2>2, <3>1, <3>2
  <2> QED
    BY <1>6, <2>3, <2>4, <2>5, <2>6 DEF OtherStmt
<1>7. CASE CollectWhenDrives
  BY <1>7 DEF CollectWhenDrives, Made
<1>8. CASE GuardedStmt
  <2>1. PICK s, e : s = Stmt1 /\ e = body.exprs[s.rhs] /\ s = body.stmts[Next1.id]
    BY DEF Stmt1
  <2>2. Next1.call = "guarded" /\ (Guards(Next1.id) <=> s.op = "expr" /\ e.op = "if")
    BY <1>8, <2>1 DEF GuardedStmt, Guards
  <2>3. Made(Next1) = GuardedCalls(Next1.id)
    BY <2>2 DEF Made
  <2>4. CASE s.op = "expr" /\ e.op = "if"
    <3>1. todo' = Calls("expr", e.kids) \o Calls("collect", e.blocks) \o Rest
      BY <1>8, <2>1, <2>4 DEF GuardedStmt
    <3>2. GuardedCalls(Next1.id) = Calls("expr", e.kids) \o Calls("collect", e.blocks)
      BY <2>1, <2>2, <2>4 DEF GuardedCalls
    <3> QED
      BY <2>3, <3>1, <3>2
  <2>5. CASE ~(s.op = "expr" /\ e.op = "if") /\ s.op \in {"equation", "let", "expr"}
    <3>1. todo' = Calls("expr", <<s.rhs>>) \o Rest
      BY <1>8, <2>1, <2>5 DEF GuardedStmt
    <3>2. GuardedCalls(Next1.id) = Calls("expr", <<s.rhs>>)
      BY <2>1, <2>2, <2>5 DEF GuardedCalls
    <3> QED
      BY <2>3, <3>1, <3>2
  <2>6. CASE s.op \notin {"equation", "let", "expr"}
    <3>1. todo' = <<>> \o Rest
      BY <1>8, <2>1, <2>6 DEF GuardedStmt
    <3>2. GuardedCalls(Next1.id) = <<>>
      BY <2>1, <2>2, <2>6 DEF GuardedCalls
    <3> QED
      BY <2>3, <3>1, <3>2
  <2> QED
    BY <2>4, <2>5, <2>6
<1>9. CASE BindWhen
  <2>1. Made(Next1) = <<>> /\ todo' = Rest
    BY <1>9 DEF BindWhen, Made
  <2> QED
    BY <1>2, <2>1
<1>10. CASE CountExpr
  <2>1. PICK e : e = body.exprs[Next1.id]
    OBVIOUS
  <2>2. Made(Next1) = ExprCalls(Next1.id)
    BY <1>10 DEF CountExpr, Made
  <2>3. CASE e.op \in {"if", "when", "block"}
    <3>1. todo' = Calls("block", e.blocks) \o Rest
      BY <1>10, <2>1, <2>3 DEF CountExpr
    <3>2. ExprCalls(Next1.id) = Calls("block", e.blocks)
      BY <2>1, <2>3 DEF ExprCalls
    <3> QED
      BY <2>2, <3>1, <3>2
  <2>4. CASE e.op \in {"record", "method", "call"}
    <3>1. todo' = Calls("expr", e.kids) \o Rest
      BY <1>10, <2>1, <2>4 DEF CountExpr
    <3>2. ExprCalls(Next1.id) = Calls("expr", e.kids)
      BY <2>1, <2>4 DEF ExprCalls
    <3> QED
      BY <2>2, <3>1, <3>2
  <2>5. CASE e.op \notin {"if", "when", "block", "record", "method", "call"}
    <3>1. todo' = Rest
      BY <1>10, <2>1, <2>5 DEF CountExpr
    <3>2. ExprCalls(Next1.id) = <<>>
      BY <2>1, <2>5 DEF ExprCalls
    <3> QED
      BY <1>2, <2>2, <3>1, <3>2
  <2> QED
    BY <2>3, <2>4, <2>5
<1> QED
  BY <1>4, <1>5, <1>6, <1>7, <1>8, <1>9, <1>10 DEF Walks
(* The same, as a set.                                                     *)
Call(call, id)  == [call |-> call, id |-> id]
Each(call, ids) == {Call(call, i) : i \in ids}
BlockMakes(k) == Each("stmt", Members(body.blocks[k].stmts)) \cup Each("expr", {body.blocks[k].tail} \ {0})
StmtMakes(n) ==
    LET s == body.stmts[n]
    IN  Each("expr", Only({s.lhs}, s.op = "equation") \cup Only({s.rhs}, s.op # "var"))
        \cup Each("block", Only({s.block}, s.op = "for"))
        \cup Each("collect", Only({s.block}, s.op = "when")) \cup Each("bind", Only({n}, s.op = "when"))
GuardedMakes(n) ==
    LET s == body.stmts[n]
    IN  IF Guards(n) THEN Each("expr", Members(body.exprs[s.rhs].kids)) \cup Each("collect", Branches(n))
        ELSE Each("expr", Only({s.rhs}, s.op \in {"equation", "let", "expr"}))
ExprMakes(n) ==
    LET e == body.exprs[n]
    IN  Each("block", Only(Members(e.blocks), e.op \in {"if", "when", "block"}))
        \cup Each("expr", Only(Members(e.kids), e.op \in {"record", "method", "call"}))
Makes(t) ==
    CASE t.call = "block" -> BlockMakes(t.id)
      [] t.call = "stmt" -> StmtMakes(t.id)
      [] t.call = "collect" -> Each("guarded", Members(body.blocks[t.id].stmts))
      [] t.call = "guarded" -> GuardedMakes(t.id)
      [] t.call = "expr" -> ExprMakes(t.id)
      [] t.call = "bind" -> {}

(* No call is made twice by one.                                           *)
Distinct(seq) == \A i, j \in DOMAIN seq : seq[i] = seq[j] => i = j

LEMMA DistinctJoined ==
    ASSUME NEW T, NEW s \in Seq(T), NEW r \in Seq(T), Distinct(s), Distinct(r),
           Members(s) \cap Members(r) = {}
    PROVE  Distinct(s \o r)
<1>1. PICK m, n, c : m = Len(s) /\ n = Len(r) /\ c = s \o r
  OBVIOUS
<1>2. /\ m \in Nat /\ n \in Nat
      /\ DOMAIN s = 1 .. m /\ DOMAIN r = 1 .. n /\ DOMAIN c = 1 .. m + n
      /\ \A i \in 1 .. m : c[i] = s[i]
      /\ \A i \in m + 1 .. m + n : c[i] = r[i - m]
  BY <1>1, JoinedLists
<1>3. ASSUME NEW i \in 1 .. m + n
      PROVE  \/ i \in 1 .. m /\ c[i] = s[i] /\ c[i] \in Members(s)
             \/ i \in m + 1 .. m + n /\ i - m \in 1 .. n /\ c[i] = r[i - m] /\ c[i] \in Members(r)
  <2>1. CASE i \in 1 .. m
    BY <1>2, <2>1 DEF Members
  <2>2. CASE i \notin 1 .. m
    <3>1. i \in m + 1 .. m + n /\ i - m \in 1 .. n /\ c[i] = r[i - m]
      BY <1>2, <2>2
    <3> QED
      BY <1>2, <3>1 DEF Members
  <2> QED
    BY <2>1, <2>2
<1>4. ASSUME NEW i \in 1 .. m + n, NEW j \in 1 .. m + n, c[i] = c[j]
      PROVE  i = j
  <2>1. CASE i \in 1 .. m /\ c[i] = s[i] /\ c[i] \in Members(s)
    <3>1. j \in 1 .. m /\ c[j] = s[j]
      BY <1>3, <1>4, <2>1
    <3> QED
      BY <1>2, <1>4, <2>1, <3>1 DEF Distinct
  <2>2. CASE i - m \in 1 .. n /\ c[i] = r[i - m] /\ c[i] \in Members(r)
    <3>1. j - m \in 1 .. n /\ c[j] = r[j - m]
      BY <1>3, <1>4, <2>2
    <3>2. i - m = j - m
      BY <1>2, <1>4, <2>2, <3>1 DEF Distinct
    <3> QED
      BY <1>2, <3>2
  <2> QED
    BY <1>3, <2>1, <2>2
<1>5. Distinct(c)
  BY <1>2, <1>4 DEF Distinct
<1> QED
  BY <1>1, <1>5

LEMMA DistinctCalls ==
    ASSUME NEW call, NEW ids, Once(ids), \A i \in DOMAIN ids : ids[i] # 0
    PROVE  Distinct(Calls(call, ids)) /\ Members(Calls(call, ids)) = Each(call, Members(ids))
<1>1. PICK c : c = Calls(call, ids)
  OBVIOUS
<1>2. DOMAIN c = DOMAIN ids /\ \A i \in DOMAIN ids : c[i].id = ids[i]
  BY <1>1 DEF Calls
<1>3. Distinct(c)
  BY <1>1, <1>2 DEF Distinct, Once
<1>4. Members(Calls(call, ids)) = Each(call, Members(ids))
  BY MembersOfCalls DEF Each, Call
<1> QED
  BY <1>1, <1>3, <1>4

LEMMA CallsDiffer ==
    ASSUME NEW a, NEW b, a # b, NEW S, NEW R
    PROVE  Each(a, S) \cap Each(b, R) = {}
  BY DEF Each, Call

(* A list of distinct calls and its set.                                   *)
Lists(seq, set) == Distinct(seq) /\ Members(seq) = set /\ seq \in Seq(Due)

LEMMA ListsJoined ==
    ASSUME NEW s, NEW r, NEW A, NEW B, Lists(s, A), Lists(r, B), A \cap B = {}
    PROVE  Lists(s \o r, A \cup B)
<1>1. s \in Seq(Due) /\ r \in Seq(Due) /\ s \o r \in Seq(Due)
  BY DEF Lists
<1>2. Distinct(s \o r)
  BY <1>1, DistinctJoined DEF Lists
<1>3. Members(s \o r) = A \cup B
  BY <1>1, MembersOfLists DEF Lists
<1> QED
  BY <1>1, <1>2, <1>3 DEF Lists

LEMMA NoneAreListed == Lists(<<>>, {})
  BY DEF Lists, Distinct, Members

LEMMA CallsListed ==
    ASSUME body \in Bodies, NEW ids, Once(ids), \A i \in DOMAIN ids : ids[i] # 0
    PROVE  /\ ids \in Seq(DOMAIN body.exprs) => Lists(Calls("expr", ids), Each("expr", Members(ids)))
           /\ ids \in Seq(DOMAIN body.stmts) =>
                /\ Lists(Calls("stmt", ids), Each("stmt", Members(ids)))
                /\ Lists(Calls("guarded", ids), Each("guarded", Members(ids)))
                /\ Lists(Calls("bind", ids), Each("bind", Members(ids)))
           /\ ids \in Seq(DOMAIN body.blocks) =>
                /\ Lists(Calls("block", ids), Each("block", Members(ids)))
                /\ Lists(Calls("collect", ids), Each("collect", Members(ids)))
<1>1. \A call : Distinct(Calls(call, ids)) /\ Members(Calls(call, ids)) = Each(call, Members(ids))
  BY DistinctCalls
<1> QED
  BY <1>1, ListsOfDue DEF Lists

LEMMA SingleListed ==
    ASSUME body \in Bodies, NEW x
    PROVE  /\ x \in DOMAIN body.exprs => Lists(Calls("expr", <<x>>), Each("expr", {x}))
           /\ x \in DOMAIN body.stmts => Lists(Calls("bind", <<x>>), Each("bind", {x}))
           /\ x \in DOMAIN body.blocks =>
                /\ Lists(Calls("block", <<x>>), Each("block", {x}))
                /\ Lists(Calls("collect", <<x>>), Each("collect", {x}))
<1>1. CASE x \in Nat \ {0}
  <2>1. PICK ids : ids = <<x>>
    OBVIOUS
  <2>2. Once(ids) /\ (\A i \in DOMAIN ids : ids[i] # 0) /\ Members(ids) = {x}
    BY <1>1, <2>1 DEF Once, Members
  <2>3. /\ x \in DOMAIN body.exprs => ids \in Seq(DOMAIN body.exprs)
        /\ x \in DOMAIN body.stmts => ids \in Seq(DOMAIN body.stmts)
        /\ x \in DOMAIN body.blocks => ids \in Seq(DOMAIN body.blocks)
    BY <2>1, ShortLists
  <2> QED
    BY <2>1, <2>2, <2>3, CallsListed
<1>2. CASE x \notin Nat \ {0}
  BY <1>2, TreeOf
<1> QED
  BY <1>1, <1>2

LEMMA OnceInBody ==
    ASSUME body \in Bodies
    PROVE  /\ \A k \in DOMAIN body.blocks :
                /\ body.blocks[k].stmts \in Seq(DOMAIN body.stmts)
                /\ Once(body.blocks[k].stmts) /\ \A i \in DOMAIN body.blocks[k].stmts : body.blocks[k].stmts[i] # 0
           /\ \A e \in DOMAIN body.exprs :
                /\ body.exprs[e].blocks \in Seq(DOMAIN body.blocks) /\ Once(body.exprs[e].blocks)
                /\ \A i \in DOMAIN body.exprs[e].blocks : body.exprs[e].blocks[i] # 0
                /\ Once(body.exprs[e].kids)
                /\ body.exprs[e].op \notin {"slice", "offset"} =>
                     /\ body.exprs[e].kids \in Seq(DOMAIN body.exprs)
                     /\ \A i \in DOMAIN body.exprs[e].kids : body.exprs[e].kids[i] # 0
<1>1. \A seq \in Seq(DOMAIN body.stmts) : \A i \in DOMAIN seq : seq[i] # 0
  BY TreeOf
<1>2. \A seq \in Seq(DOMAIN body.exprs) : \A i \in DOMAIN seq : seq[i] # 0
  BY TreeOf
<1>3. \A seq \in Seq(DOMAIN body.blocks) : \A i \in DOMAIN seq : seq[i] # 0
  BY TreeOf
<1>4. /\ \A k \in DOMAIN body.blocks : Once(body.blocks[k].stmts)
      /\ \A e \in DOMAIN body.exprs : Once(body.exprs[e].kids) /\ Once(body.exprs[e].blocks)
  BY TreeOf DEF Tree
<1>5. \A k \in DOMAIN body.blocks : body.blocks[k].stmts \in Seq(DOMAIN body.stmts)
  BY BlockRefers
<1>6. \A e \in DOMAIN body.exprs :
        /\ body.exprs[e].blocks \in Seq(DOMAIN body.blocks)
        /\ body.exprs[e].op \notin {"slice", "offset"} => body.exprs[e].kids \in Seq(DOMAIN body.exprs)
  BY ExprRefers
<1> QED
  BY <1>1, <1>2, <1>3, <1>4, <1>5, <1>6

LEMMA MadeAreListed ==
    ASSUME body \in Bodies, NEW t \in Due
    PROVE  Lists(Made(t), Makes(t))
<1>1. CASE t.call = "block"
  <2>1. PICK k, s : k = t.id /\ k \in DOMAIN body.blocks /\ s = body.blocks[k].stmts
    BY <1>1, DueAre
  <2>2. Lists(Calls("stmt", s), Each("stmt", Members(s)))
    BY <2>1, OnceInBody, CallsListed
  <2>3. Lists(Calls("expr", Tails(k)), Each("expr", {body.blocks[k].tail} \ {0}))
    <3>1. CASE body.blocks[k].tail = 0
      <4>1. Calls("expr", Tails(k)) = <<>> /\ Each("expr", {body.blocks[k].tail} \ {0}) = {}
        BY <3>1 DEF Calls, Tails, Each
      <4> QED
        BY <4>1, NoneAreListed
    <3>2. CASE body.blocks[k].tail # 0
      <4>1. Tails(k) = <<body.blocks[k].tail>> /\ body.blocks[k].tail \in DOMAIN body.exprs
            /\ {body.blocks[k].tail} \ {0} = {body.blocks[k].tail}
        BY <2>1, <3>2, BlockRefers DEF Tails
      <4> QED
        BY <4>1, SingleListed
    <3> QED
      BY <3>1, <3>2
  <2>4. Lists(Calls("stmt", s) \o Calls("expr", Tails(k)),
              Each("stmt", Members(s)) \cup Each("expr", {body.blocks[k].tail} \ {0}))
    BY <2>2, <2>3, CallsDiffer, ListsJoined
  <2> QED
    BY <1>1, <2>1, <2>4 DEF Made, Makes, BlockMakes
<1>2. CASE t.call = "stmt"
  <2>1. PICK n, s : n = t.id /\ n \in DOMAIN body.stmts /\ s = body.stmts[n]
    BY <1>2, DueAre
  <2>2. /\ s.op = "equation" => s.lhs \in DOMAIN body.exprs
        /\ s.op # "var" => s.rhs \in DOMAIN body.exprs
        /\ s.op \in {"for", "when"} => s.block \in DOMAIN body.blocks
        /\ s.op \in {"equation", "let", "return", "expr", "var", "for", "when"}
    BY <2>1, StmtRefers DEF Stmt
  <2>3. SUFFICES Lists(StmtCalls(n), StmtMakes(n))
    BY <1>2, <2>1 DEF Made, Makes
  <2>4. CASE s.op = "equation"
    <3>1. PICK ids : ids = <<s.lhs, s.rhs>> /\ ids \in Seq(DOMAIN body.exprs)
      BY <2>2, <2>4, ShortLists
    <3>2. Once(ids) /\ \A i \in DOMAIN ids : ids[i] # 0
      <4>1. s.lhs # s.rhs
        BY <2>1, <2>4, TreeOf DEF Tree
      <4>2. s.lhs # 0 /\ s.rhs # 0
        BY <2>2, <2>4, TreeOf
      <4>3. DOMAIN ids = 1 .. 2 /\ ids[1] = s.lhs /\ ids[2] = s.rhs
        BY <3>1
      <4>4. \A i \in 1 .. 2 : i = 1 \/ i = 2
        OBVIOUS
      <4> QED
        BY <4>1, <4>2, <4>3, <4>4 DEF Once
    <3>4. Lists(Calls("expr", ids), Each("expr", Members(ids)))
      BY <3>1, <3>2, CallsListed
    <3>5. StmtCalls(n) = Calls("expr", ids) /\ Members(ids) = {s.lhs, s.rhs}
      BY <2>1, <2>4, <3>1, MembersOfLists DEF StmtCalls
    <3>6. StmtMakes(n) = Each("expr", {s.lhs, s.rhs})
      <4>1. /\ Only({s.lhs}, s.op = "equation") \cup Only({s.rhs}, s.op # "var") = {s.lhs, s.rhs}
            /\ Only({s.block}, s.op = "for") = {} /\ Only({s.block}, s.op = "when") = {}
            /\ Only({n}, s.op = "when") = {}
        BY <2>4 DEF Only
      <4> QED
        BY <2>1, <4>1 DEF StmtMakes, Each
    <3> QED
      BY <3>4, <3>5, <3>6
  <2>5. CASE s.op \in {"let", "return", "expr"}
    <3>1. StmtCalls(n) = Calls("expr", <<s.rhs>>)
      BY <2>1, <2>5 DEF StmtCalls
    <3>2. StmtMakes(n) = Each("expr", {s.rhs})
      <4>1. /\ Only({s.lhs}, s.op = "equation") \cup Only({s.rhs}, s.op # "var") = {s.rhs}
            /\ Only({s.block}, s.op = "for") = {} /\ Only({s.block}, s.op = "when") = {}
            /\ Only({n}, s.op = "when") = {}
        BY <2>5 DEF Only
      <4> QED
        BY <2>1, <4>1 DEF StmtMakes, Each
    <3> QED
      BY <2>2, <2>5, <3>1, <3>2, SingleListed
  <2>6. CASE s.op = "for"
    <3>1. StmtCalls(n) = Calls("expr", <<s.rhs>>) \o Calls("block", <<s.block>>)
      BY <2>1, <2>6 DEF StmtCalls
    <3>2. StmtMakes(n) = Each("expr", {s.rhs}) \cup Each("block", {s.block})
      <4>1. /\ Only({s.lhs}, s.op = "equation") \cup Only({s.rhs}, s.op # "var") = {s.rhs}
            /\ Only({s.block}, s.op = "for") = {s.block} /\ Only({s.block}, s.op = "when") = {}
            /\ Only({n}, s.op = "when") = {}
        BY <2>6 DEF Only
      <4> QED
        BY <2>1, <4>1 DEF StmtMakes, Each
    <3>3. Lists(Calls("expr", <<s.rhs>>), Each("expr", {s.rhs})) /\ Lists(Calls("block", <<s.block>>), Each("block", {s.block}))
      BY <2>2, <2>6, SingleListed
    <3>4. Each("expr", {s.rhs}) \cap Each("block", {s.block}) = {}
      BY CallsDiffer
    <3>5. Lists(Calls("expr", <<s.rhs>>) \o Calls("block", <<s.block>>), Each("expr", {s.rhs}) \cup Each("block", {s.block}))
      BY <3>3, <3>4, ListsJoined
    <3> QED
      BY <3>1, <3>2, <3>5
  <2>7. CASE s.op = "when"
    <3>1. StmtCalls(n) = (Calls("expr", <<s.rhs>>) \o Calls("collect", <<s.block>>)) \o Calls("bind", <<n>>)
      BY <2>1, <2>7 DEF StmtCalls
    <3>2. StmtMakes(n) = (Each("expr", {s.rhs}) \cup Each("collect", {s.block})) \cup Each("bind", {n})
      <4>1. /\ Only({s.lhs}, s.op = "equation") \cup Only({s.rhs}, s.op # "var") = {s.rhs}
            /\ Only({s.block}, s.op = "for") = {} /\ Only({s.block}, s.op = "when") = {s.block}
            /\ Only({n}, s.op = "when") = {n}
        BY <2>7 DEF Only
      <4> QED
        BY <2>1, <4>1 DEF StmtMakes, Each
    <3>3. /\ Lists(Calls("expr", <<s.rhs>>), Each("expr", {s.rhs}))
          /\ Lists(Calls("collect", <<s.block>>), Each("collect", {s.block}))
          /\ Lists(Calls("bind", <<n>>), Each("bind", {n}))
      BY <2>1, <2>2, <2>7, SingleListed
    <3>4. Lists(Calls("expr", <<s.rhs>>) \o Calls("collect", <<s.block>>),
                Each("expr", {s.rhs}) \cup Each("collect", {s.block}))
      BY <3>3, CallsDiffer, ListsJoined
    <3>5. (Each("expr", {s.rhs}) \cup Each("collect", {s.block})) \cap Each("bind", {n}) = {}
      BY DEF Each, Call
    <3>6. Lists((Calls("expr", <<s.rhs>>) \o Calls("collect", <<s.block>>)) \o Calls("bind", <<n>>),
                (Each("expr", {s.rhs}) \cup Each("collect", {s.block})) \cup Each("bind", {n}))
      BY <3>3, <3>4, <3>5, ListsJoined
    <3> QED
      BY <3>1, <3>2, <3>6
  <2>8. CASE s.op = "var"
    <3>1. StmtCalls(n) = <<>>
      BY <2>1, <2>8 DEF StmtCalls
    <3>2. StmtMakes(n) = {}
      <4>1. /\ Only({s.lhs}, s.op = "equation") \cup Only({s.rhs}, s.op # "var") = {}
            /\ Only({s.block}, s.op = "for") = {} /\ Only({s.block}, s.op = "when") = {}
            /\ Only({n}, s.op = "when") = {}
        BY <2>8 DEF Only
      <4> QED
        BY <2>1, <4>1 DEF StmtMakes, Each
    <3> QED
      BY <3>1, <3>2, NoneAreListed
  <2> QED
    BY <2>2, <2>4, <2>5, <2>6, <2>7, <2>8
<1>3. CASE t.call = "collect"
  <2>1. PICK k, s : k = t.id /\ k \in DOMAIN body.blocks /\ s = body.blocks[k].stmts
    BY <1>3, DueAre
  <2>2. Lists(Calls("guarded", s), Each("guarded", Members(s)))
    BY <2>1, OnceInBody, CallsListed
  <2> QED
    BY <1>3, <2>1, <2>2 DEF Made, Makes
<1>4. CASE t.call = "guarded"
  <2>1. PICK n, s, e : n = t.id /\ n \in DOMAIN body.stmts /\ s = body.stmts[n] /\ e = body.exprs[s.rhs]
    BY <1>4, DueAre
  <2>2. s.op # "var" => s.rhs \in DOMAIN body.exprs
    BY <2>1, StmtRefers
  <2>3. SUFFICES Lists(GuardedCalls(n), GuardedMakes(n))
    BY <1>4, <2>1 DEF Made, Makes
  <2>4. CASE Guards(n)
    <3>1. e.op = "if" /\ s.rhs \in DOMAIN body.exprs
      BY <2>1, <2>2, <2>4 DEF Guards
    <3>2. Lists(Calls("expr", e.kids), Each("expr", Members(e.kids)))
      BY <2>1, <3>1, OnceInBody, CallsListed
    <3>3. Lists(Calls("collect", e.blocks), Each("collect", Members(e.blocks)))
      BY <2>1, <3>1, OnceInBody, CallsListed
    <3>4. Lists(Calls("expr", e.kids) \o Calls("collect", e.blocks),
                Each("expr", Members(e.kids)) \cup Each("collect", Members(e.blocks)))
      BY <3>2, <3>3, CallsDiffer, ListsJoined
    <3>5. GuardedCalls(n) = Calls("expr", e.kids) \o Calls("collect", e.blocks)
      BY <2>1, <2>4 DEF GuardedCalls
    <3>6. GuardedMakes(n) = Each("expr", Members(e.kids)) \cup Each("collect", Members(e.blocks))
      BY <2>1, <2>4 DEF GuardedMakes, Branches
    <3> QED
      BY <3>4, <3>5, <3>6
  <2>5. CASE ~Guards(n) /\ s.op \in {"equation", "let", "expr"}
    <3>1. GuardedCalls(n) = Calls("expr", <<s.rhs>>)
      BY <2>1, <2>5 DEF GuardedCalls
    <3>2. GuardedMakes(n) = Each("expr", {s.rhs})
      BY <2>1, <2>5 DEF GuardedMakes, Only
    <3> QED
      BY <2>2, <2>5, <3>1, <3>2, SingleListed
  <2>6. CASE ~Guards(n) /\ s.op \notin {"equation", "let", "expr"}
    <3>1. GuardedCalls(n) = <<>>
      BY <2>1, <2>6 DEF GuardedCalls
    <3>2. GuardedMakes(n) = {}
      BY <2>1, <2>6 DEF GuardedMakes, Only, Each
    <3> QED
      BY <3>1, <3>2, NoneAreListed
  <2> QED
    BY <2>4, <2>5, <2>6
<1>5. CASE t.call = "expr"
  <2>1. PICK n, e : n = t.id /\ n \in DOMAIN body.exprs /\ e = body.exprs[n]
    BY <1>5, DueAre
  <2>2. SUFFICES Lists(ExprCalls(n), ExprMakes(n))
    BY <1>5, <2>1 DEF Made, Makes
  <2>3. CASE e.op \in {"if", "when", "block"}
    <3>1. Lists(Calls("block", e.blocks), Each("block", Members(e.blocks)))
      BY <2>1, OnceInBody, CallsListed
    <3>2. ExprCalls(n) = Calls("block", e.blocks)
      BY <2>1, <2>3 DEF ExprCalls
    <3>3. ExprMakes(n) = Each("block", Members(e.blocks))
      BY <2>1, <2>3 DEF ExprMakes, Only, Each
    <3> QED
      BY <3>1, <3>2, <3>3
  <2>4. CASE e.op \in {"record", "method", "call"}
    <3>1. Lists(Calls("expr", e.kids), Each("expr", Members(e.kids)))
      BY <2>1, <2>4, OnceInBody, CallsListed
    <3>2. ExprCalls(n) = Calls("expr", e.kids)
      BY <2>1, <2>4 DEF ExprCalls
    <3>3. ExprMakes(n) = Each("expr", Members(e.kids))
      BY <2>1, <2>4 DEF ExprMakes, Only, Each
    <3> QED
      BY <3>1, <3>2, <3>3
  <2>5. CASE e.op \notin {"if", "when", "block", "record", "method", "call"}
    <3>1. ExprCalls(n) = <<>>
      BY <2>1, <2>5 DEF ExprCalls
    <3>2. ExprMakes(n) = {}
      BY <2>1, <2>5 DEF ExprMakes, Only, Each
    <3> QED
      BY <3>1, <3>2, NoneAreListed
  <2> QED
    BY <2>3, <2>4, <2>5
<1>6. CASE t.call = "bind"
  BY <1>6, NoneAreListed DEF Made, Makes
<1> QED
  BY <1>1, <1>2, <1>3, <1>4, <1>5, <1>6, DueAre

----------------------------------------------------------------------------
(* A call is made in the mode its node is met in: below a `when` as what   *)
(* is guarded, elsewhere as what is counted.                               *)
Taken == {body.stmts[s].rhs : s \in {s \in BelowWhen : Guards(s)}}
InMode(t) ==
    /\ t.call = "block" => t.id \notin GuardedBlocks
    /\ t.call = "collect" => t.id \in GuardedBlocks
    /\ t.call = "stmt" => t.id \notin BelowWhen
    /\ t.call = "guarded" => t.id \in BelowWhen
    /\ t.call = "expr" => t.id \notin Taken
    /\ t.call = "bind" => t.id \in Whens \ BelowWhen
Proper == {t \in Due : InMode(t)}

LEMMA TakenAre ==
    ASSUME body \in Bodies, NEW s \in BelowWhen, Guards(s)
    PROVE  /\ s \in DOMAIN body.stmts /\ <<"stmt", s>> \in Nodes(body)
           /\ body.stmts[s].rhs \in DOMAIN body.exprs /\ body.stmts[s].rhs \in Taken
           /\ body.exprs[body.stmts[s].rhs].op = "if"
           /\ <<"expr", body.stmts[s].rhs>> \in Holds(body, <<"stmt", s>>)
           /\ <<"expr", body.stmts[s].rhs>> \in Nodes(body)
           /\ \A k \in Branches(s) : /\ k \in DOMAIN body.blocks /\ k \in GuardedBlocks
                                     /\ <<"block", k>> \in Holds(body, <<"expr", body.stmts[s].rhs>>)
<1>1. s \in DOMAIN body.stmts
  BY BelowAre
<1>2. body.stmts[s].op = "expr" /\ body.exprs[body.stmts[s].rhs].op = "if"
  BY DEF Guards
<1>3. body.stmts[s].rhs \in DOMAIN body.exprs
  BY <1>1, <1>2, StmtRefers
<1>4. <<"expr", body.stmts[s].rhs>> \in Holds(body, <<"stmt", s>>)
  BY <1>1, <1>2, StmtHolds
<1>5. \A k \in Branches(s) : /\ k \in DOMAIN body.blocks
                             /\ <<"block", k>> \in Holds(body, <<"expr", body.stmts[s].rhs>>)
  BY <1>3, ExprHolds DEF Branches
<1>6. \A k \in Branches(s) : k \in GuardedBlocks
  BY DEF GuardedBlocks
<1>7. body.stmts[s].rhs \in Taken
  BY DEF Taken
<1> QED
  BY <1>1, <1>2, <1>3, <1>4, <1>5, <1>6, <1>7, NodesAre

(* The node a call is about, and the one whose parts its calls are about.  *)
NodeOf(t) == <<CASE t.call \in {"block", "collect"} -> "block"
                 [] t.call \in {"stmt", "guarded"} -> "stmt"
                 [] OTHER -> "expr", t.id>>
HomeKind(t) == CASE t.call \in {"block", "collect"} -> "block"
                 [] t.call = "stmt" \/ (t.call = "guarded" /\ ~Guards(t.id)) -> "stmt"
                 [] OTHER -> "expr"
HomeId(t) == IF t.call = "guarded" /\ Guards(t.id) THEN body.stmts[t.id].rhs ELSE t.id
Home(t)   == <<HomeKind(t), HomeId(t)>>

LEMMA NodesOfCalls ==
    \A i : /\ NodeOf(Call("block", i)) = <<"block", i>> /\ NodeOf(Call("collect", i)) = <<"block", i>>
           /\ NodeOf(Call("stmt", i)) = <<"stmt", i>> /\ NodeOf(Call("guarded", i)) = <<"stmt", i>>
           /\ NodeOf(Call("expr", i)) = <<"expr", i>>
  BY DEF NodeOf, Call

LEMMA CallsAre ==
    \A c, i : Call(c, i).call = c /\ Call(c, i).id = i
  BY DEF Call

LEMMA ProperAre ==
    ASSUME body \in Bodies, NEW t \in Proper, t.call # "bind"
    PROVE  /\ t \in Due /\ Home(t) \in Nodes(body)
           /\ \/ t.call \in {"block", "collect"} /\ HomeKind(t) = "block" /\ HomeId(t) = t.id
                   /\ (t.call = "collect" <=> t.id \in GuardedBlocks)
              \/ t.call = "guarded" /\ t.id \in BelowWhen /\ Guards(t.id)
                   /\ HomeKind(t) = "expr" /\ HomeId(t) = body.stmts[t.id].rhs
              \/ t.call = "guarded" /\ t.id \in BelowWhen /\ ~Guards(t.id) /\ HomeKind(t) = "stmt" /\ HomeId(t) = t.id
              \/ t.call = "stmt" /\ t.id \notin BelowWhen /\ HomeKind(t) = "stmt" /\ HomeId(t) = t.id
              \/ t.call = "expr" /\ t.id \notin Taken /\ HomeKind(t) = "expr" /\ HomeId(t) = t.id
<1>1. t \in Due /\ InMode(t)
  BY DEF Proper
<1>2. CASE t.call \in {"block", "collect"}
  <2>1. HomeKind(t) = "block" /\ HomeId(t) = t.id
    BY <1>2 DEF HomeKind, HomeId
  <2>2. t.call = "collect" <=> t.id \in GuardedBlocks
    BY <1>1, <1>2 DEF InMode
  <2>3. <<"block", t.id>> \in Nodes(body)
    BY <1>1, <1>2, DueAre, NodesAre
  <2> QED
    BY <1>1, <1>2, <2>1, <2>2, <2>3 DEF Home
<1>3. CASE t.call = "guarded" /\ Guards(t.id)
  <2>1. HomeKind(t) = "expr" /\ HomeId(t) = body.stmts[t.id].rhs /\ t.id \in BelowWhen
    BY <1>1, <1>3 DEF HomeKind, HomeId, InMode
  <2>2. <<"expr", body.stmts[t.id].rhs>> \in Nodes(body)
    BY <1>3, <2>1, TakenAre
  <2> QED
    BY <1>1, <1>3, <2>1, <2>2 DEF Home
<1>4. CASE t.call = "guarded" /\ ~Guards(t.id)
  <2>1. HomeKind(t) = "stmt" /\ HomeId(t) = t.id /\ t.id \in BelowWhen
    BY <1>1, <1>4 DEF HomeKind, HomeId, InMode
  <2>2. <<"stmt", t.id>> \in Nodes(body)
    BY <1>1, <1>4, DueAre, NodesAre
  <2> QED
    BY <1>1, <1>4, <2>1, <2>2 DEF Home
<1>5. CASE t.call = "stmt"
  <2>1. HomeKind(t) = "stmt" /\ HomeId(t) = t.id /\ t.id \notin BelowWhen
    BY <1>1, <1>5 DEF HomeKind, HomeId, InMode
  <2>2. <<"stmt", t.id>> \in Nodes(body)
    BY <1>1, <1>5, DueAre, NodesAre
  <2> QED
    BY <1>1, <1>5, <2>1, <2>2 DEF Home
<1>6. CASE t.call = "expr"
  <2>1. HomeKind(t) = "expr" /\ HomeId(t) = t.id /\ t.id \notin Taken
    BY <1>1, <1>6 DEF HomeKind, HomeId, InMode
  <2>2. <<"expr", t.id>> \in Nodes(body)
    BY <1>1, <1>6, DueAre, NodesAre
  <2> QED
    BY <1>1, <1>6, <2>1, <2>2 DEF Home
<1> QED
  BY <1>1, <1>2, <1>3, <1>4, <1>5, <1>6, DueAre

(* Each node is gone into by one call.                                     *)
LEMMA HomesDiffer ==
    ASSUME body \in Bodies, NEW t \in Proper, NEW u \in Proper,
           t.call # "bind", u.call # "bind", Home(t) = Home(u)
    PROVE  t = u
<1>1. t = Call(t.call, t.id) /\ u = Call(u.call, u.id)
  BY ProperAre, DueAre DEF Call
<1>2. SUFFICES t.call = u.call /\ t.id = u.id
  BY <1>1
<1>3. HomeKind(t) = HomeKind(u) /\ HomeId(t) = HomeId(u)
  BY DEF Home
<1>4. CASE t.call = "guarded" /\ Guards(t.id) /\ u.call = "guarded" /\ Guards(u.id)
  <2>1. t.id \in BelowWhen /\ u.id \in BelowWhen /\ body.stmts[u.id].rhs = body.stmts[t.id].rhs
    BY <1>3, <1>4, ProperAre
  <2>2. PICK m, n, r : m = t.id /\ n = u.id /\ r = body.stmts[m].rhs
    OBVIOUS
  <2>3. /\ <<"stmt", m>> \in Nodes(body) /\ <<"expr", r>> \in Holds(body, <<"stmt", m>>)
        /\ <<"stmt", n>> \in Nodes(body) /\ <<"expr", r>> \in Holds(body, <<"stmt", n>>)
    BY <1>4, <2>1, <2>2, TakenAre
  <2>4. <<"stmt", m>> = <<"stmt", n>>
    BY <2>3, HeldByOne
  <2>5. m = n
    BY <2>4
  <2> QED
    BY <1>4, <2>2, <2>5
<1>5. CASE t.call = "guarded" /\ Guards(t.id) /\ ~(u.call = "guarded" /\ Guards(u.id))
  <2>1. u.id \notin Taken /\ u.id = body.stmts[t.id].rhs /\ t.id \in BelowWhen
    BY <1>3, <1>5, ProperAre
  <2> QED
    BY <1>5, <2>1, TakenAre
<1>6. CASE u.call = "guarded" /\ Guards(u.id) /\ ~(t.call = "guarded" /\ Guards(t.id))
  <2>1. t.id \notin Taken /\ t.id = body.stmts[u.id].rhs /\ u.id \in BelowWhen
    BY <1>3, <1>6, ProperAre
  <2> QED
    BY <1>6, <2>1, TakenAre
<1>7. CASE ~(t.call = "guarded" /\ Guards(t.id)) /\ ~(u.call = "guarded" /\ Guards(u.id))
  <2>1. HomeId(t) = t.id /\ HomeId(u) = u.id
    BY <1>7 DEF HomeId
  <2>2. t.id = u.id
    BY <1>3, <2>1
  <2>3. t.call = u.call
    BY <1>3, <1>7, <2>2, ProperAre
  <2> QED
    BY <2>2, <2>3
<1> QED
  BY <1>4, <1>5, <1>6, <1>7

(* What a call is made for is a part of its node, but for the end of a     *)
(* `when` statement.                                                       *)
LEMMA MadeForParts ==
    ASSUME body \in Bodies, NEW t \in Proper, NEW c \in Makes(t)
    PROVE  \/ c = Call("bind", t.id) /\ t.call = "stmt" /\ t.id \in Whens
           \/ t.call # "bind" /\ c.call # "bind" /\ NodeOf(c) \in Holds(body, Home(t))
<1>1. t \in Due /\ t.call # "bind"
  BY DEF Proper, Makes
<1> DEFINE For(n) == c.call # "bind" /\ NodeOf(c) \in Holds(body, n)
<1>2. CASE t.call \in {"block", "collect"}
  <2>1. PICK k : k = t.id /\ k \in DOMAIN body.blocks
    BY <1>1, <1>2, DueAre
  <2>5. Home(t) = <<"block", k>>
    BY <1>2, <2>1 DEF Home, HomeKind, HomeId
  <2> SUFFICES For(<<"block", k>>)
    BY <1>1, <2>5
  <2>2. \/ \E s \in Members(body.blocks[k].stmts) : c = Call("stmt", s) \/ c = Call("guarded", s)
        \/ body.blocks[k].tail # 0 /\ c = Call("expr", body.blocks[k].tail)
    BY <1>2, <2>1 DEF Makes, BlockMakes, Each
  <2>3. CASE \E s \in Members(body.blocks[k].stmts) : c = Call("stmt", s) \/ c = Call("guarded", s)
    <3>1. PICK s \in Members(body.blocks[k].stmts) : c = Call("stmt", s) \/ c = Call("guarded", s)
      BY <2>3
    <3>2. NodeOf(c) = <<"stmt", s>> /\ c.call # "bind"
      BY <3>1, NodesOfCalls, CallsAre
    <3> QED
      BY <2>1, <3>1, <3>2, BlockHolds
  <2>4. CASE body.blocks[k].tail # 0 /\ c = Call("expr", body.blocks[k].tail)
    <3>1. NodeOf(c) = <<"expr", body.blocks[k].tail>> /\ c.call # "bind"
      BY <2>4, NodesOfCalls, CallsAre
    <3> QED
      BY <2>1, <2>4, <3>1, BlockHolds
  <2> QED
    BY <2>2, <2>3, <2>4
<1>3. CASE t.call = "stmt"
  <2>1. PICK n, s : n = t.id /\ n \in DOMAIN body.stmts /\ s = body.stmts[n]
    BY <1>1, <1>3, DueAre
  <2>2. \/ s.op = "equation" /\ c = Call("expr", s.lhs)
        \/ s.op # "var" /\ c = Call("expr", s.rhs)
        \/ s.op = "for" /\ c = Call("block", s.block)
        \/ s.op = "when" /\ c = Call("collect", s.block)
        \/ s.op = "when" /\ c = Call("bind", n)
    BY <1>3, <2>1 DEF Makes, StmtMakes, Each, Only
  <2>3. CASE s.op = "when" /\ c = Call("bind", n)
    BY <1>3, <2>1, <2>3 DEF Whens
  <2>4. CASE (s.op = "equation" /\ c = Call("expr", s.lhs)) \/ (s.op # "var" /\ c = Call("expr", s.rhs))
    <3>1. PICK e : c = Call("expr", e) /\ <<"expr", e>> \in Holds(body, <<"stmt", n>>)
      BY <2>1, <2>4, StmtHolds
    <3> QED
      BY <3>1, NodesOfCalls, CallsAre, <1>1, <1>3, <2>1 DEF Home, HomeKind, HomeId
  <2>5. CASE s.op \in {"for", "when"} /\ (c = Call("block", s.block) \/ c = Call("collect", s.block))
    <3>1. PICK k : (c = Call("block", k) \/ c = Call("collect", k)) /\ <<"block", k>> \in Holds(body, <<"stmt", n>>)
      BY <2>1, <2>5, StmtHolds
    <3> QED
      BY <3>1, NodesOfCalls, CallsAre, <1>1, <1>3, <2>1 DEF Home, HomeKind, HomeId
  <2> QED
    BY <2>2, <2>3, <2>4, <2>5
<1>4. CASE t.call = "guarded" /\ Guards(t.id)
  <2>1. PICK n, r : n = t.id /\ n \in BelowWhen /\ Guards(n) /\ r = body.stmts[n].rhs
                    /\ r \in DOMAIN body.exprs /\ body.exprs[r].op = "if"
    BY <1>1, <1>4, ProperAre, TakenAre
  <2>5. Home(t) = <<"expr", r>>
    BY <1>4, <2>1 DEF Home, HomeKind, HomeId
  <2> SUFFICES For(<<"expr", r>>)
    BY <1>1, <2>5
  <2>2. \/ \E i \in Members(body.exprs[r].kids) : c = Call("expr", i)
        \/ \E k \in Branches(n) : c = Call("collect", k)
    BY <1>4, <2>1 DEF Makes, GuardedMakes, Each
  <2>3. CASE \E k \in Branches(n) : c = Call("collect", k)
    <3>1. PICK k \in Branches(n) : c = Call("collect", k)
      BY <2>3
    <3>2. <<"block", k>> \in Holds(body, <<"expr", r>>)
      BY <2>1, <3>1, TakenAre
    <3> QED
      BY <3>1, <3>2, NodesOfCalls, CallsAre
  <2>4. CASE \E i \in Members(body.exprs[r].kids) : c = Call("expr", i)
    <3>1. PICK i \in Members(body.exprs[r].kids) : c = Call("expr", i)
      BY <2>4
    <3>2. i # 0
      BY <2>1, <3>1, OnceInBody DEF Members
    <3>3. <<"expr", i>> \in Holds(body, <<"expr", r>>)
      BY <2>1, <3>1, <3>2, ExprHolds
    <3> QED
      BY <3>1, <3>3, NodesOfCalls, CallsAre
  <2> QED
    BY <2>2, <2>3, <2>4
<1>5. CASE t.call = "guarded" /\ ~Guards(t.id)
  <2>1. PICK n, s : n = t.id /\ n \in DOMAIN body.stmts /\ s = body.stmts[n]
    BY <1>1, <1>5, DueAre
  <2>2. s.op # "var" /\ c = Call("expr", s.rhs)
    BY <1>5, <2>1 DEF Makes, GuardedMakes, Each, Only
  <2>3. NodeOf(c) = <<"expr", s.rhs>> /\ c.call # "bind"
    BY <2>2, NodesOfCalls, CallsAre
  <2>4. For(<<"stmt", n>>)
    BY <2>1, <2>2, <2>3, StmtHolds
  <2>5. Home(t) = <<"stmt", n>>
    BY <1>5, <2>1 DEF Home, HomeKind, HomeId
  <2> QED
    BY <1>1, <2>4, <2>5
<1>6. CASE t.call = "expr"
  <2>1. PICK n, e : n = t.id /\ n \in DOMAIN body.exprs /\ e = body.exprs[n]
    BY <1>1, <1>6, DueAre
  <2>5. Home(t) = <<"expr", n>>
    BY <1>6, <2>1 DEF Home, HomeKind, HomeId
  <2> SUFFICES For(<<"expr", n>>)
    BY <1>1, <2>5
  <2>2. \/ \E k \in Members(e.blocks) : c = Call("block", k)
        \/ e.op \in {"record", "method", "call"} /\ \E i \in Members(e.kids) : c = Call("expr", i)
    BY <1>6, <2>1 DEF Makes, ExprMakes, Each, Only
  <2>3. CASE \E k \in Members(e.blocks) : c = Call("block", k)
    <3>1. PICK k \in Members(e.blocks) : c = Call("block", k)
      BY <2>3
    <3> QED
      BY <2>1, <3>1, ExprHolds, NodesOfCalls, CallsAre
  <2>4. CASE e.op \in {"record", "method", "call"} /\ \E i \in Members(e.kids) : c = Call("expr", i)
    <3>1. PICK i \in Members(e.kids) : c = Call("expr", i)
      BY <2>4
    <3>2. i # 0
      BY <2>1, <2>4, <3>1, OnceInBody DEF Members
    <3>3. <<"expr", i>> \in Holds(body, <<"expr", n>>)
      BY <2>1, <3>1, <3>2, ExprHolds
    <3> QED
      BY <3>1, <3>3, NodesOfCalls, CallsAre
  <2> QED
    BY <2>2, <2>3, <2>4
<1> QED
  BY <1>1, <1>2, <1>3, <1>4, <1>5, <1>6, DueAre

(* No call is made by two.                                                 *)
LEMMA MadeByOne ==
    ASSUME body \in Bodies, NEW t \in Proper, NEW u \in Proper, NEW c, c \in Makes(t), c \in Makes(u)
    PROVE  t = u
<1>1. CASE c.call = "bind"
  <2>1. t.call = "stmt" /\ u.call = "stmt" /\ c = Call("bind", t.id) /\ c = Call("bind", u.id)
    BY <1>1, MadeForParts
  <2>2. t.id = u.id
    BY <2>1 DEF Call
  <2>3. t = Call("stmt", t.id) /\ u = Call("stmt", u.id)
    BY <2>1, DueAre DEF Proper, Call
  <2> QED
    BY <2>2, <2>3
<1>2. CASE c.call # "bind"
  <2>1. /\ NodeOf(c) \in Holds(body, Home(t)) /\ NodeOf(c) \in Holds(body, Home(u))
        /\ t.call # "bind" /\ u.call # "bind"
    BY <1>2, MadeForParts DEF Call
  <2>2. Home(t) \in Nodes(body) /\ Home(u) \in Nodes(body)
    BY <2>1, ProperAre
  <2>3. Home(t) = Home(u)
    BY <2>1, <2>2, HeldByOne
  <2> QED
    BY <2>1, <2>3, HomesDiffer
<1> QED
  BY <1>1, <1>2

(* Where a guarded block is held.                                          *)
LEMMA GuardedIsHeld ==
    ASSUME body \in Bodies, NEW k \in GuardedBlocks, NEW n \in Nodes(body),
           <<"block", k>> \in Holds(body, n)
    PROVE  \/ \E w \in Whens : n = <<"stmt", w>>
           \/ \E e \in Taken : n = <<"expr", e>>
<1>1. CASE \E w \in Whens : k = body.stmts[w].block
  <2>1. PICK w \in Whens : k = body.stmts[w].block
    BY <1>1
  <2>2. <<"block", k>> \in Holds(body, <<"stmt", w>>) /\ <<"stmt", w>> \in Nodes(body)
    BY <2>1, WhenBlocks, NodesAre
  <2> QED
    BY <2>2, HeldByOne
<1>2. CASE \E s \in BelowWhen : Guards(s) /\ k \in Branches(s)
  <2>1. PICK s \in BelowWhen : Guards(s) /\ k \in Branches(s)
    BY <1>2
  <2>2. PICK r : r = body.stmts[s].rhs /\ r \in Taken /\ <<"expr", r>> \in Nodes(body)
                 /\ <<"block", k>> \in Holds(body, <<"expr", r>>)
    BY <2>1, TakenAre
  <2>3. n = <<"expr", r>>
    BY <2>2, HeldByOne
  <2> QED
    BY <2>2, <2>3
<1> QED
  BY <1>1, <1>2, GuardedBlockOf

LEMMA TopIsProper ==
    ASSUME body \in Bodies
    PROVE  Call("block", Top) \in Proper /\ \A t \in Proper : Call("block", Top) \notin Makes(t)
<1>1. Top \in DOMAIN body.blocks
  BY BodiesAssumption DEF Top
<1>2. Top \notin GuardedBlocks
  <2>1. ASSUME NEW w \in Whens PROVE Top # body.stmts[w].block
    <3>1. <<"stmt", w>> \in Nodes(body)
      BY WhenBlocks, NodesAre
    <3> QED
      BY <3>1, WhenBlocks, TopIsHeldByNone
  <2>2. ASSUME NEW s \in BelowWhen, Guards(s) PROVE Top \notin Branches(s)
    BY <2>2, TakenAre, TopIsHeldByNone
  <2> QED
    BY <2>1, <2>2, GuardedBlockOf
<1>3. Call("block", Top) \in Proper
  <2>1. PICK t : t = Call("block", Top)
    OBVIOUS
  <2>2. t.call = "block" /\ t.id = Top
    BY <2>1 DEF Call
  <2>3. t \in Due
    BY <1>1, <2>1 DEF Due, Call
  <2> QED
    BY <1>2, <2>1, <2>2, <2>3 DEF Proper, InMode
<1>4. ASSUME NEW t \in Proper, Call("block", Top) \in Makes(t)
      PROVE  FALSE
  <2>1. PICK c : c = Call("block", Top) /\ c \in Makes(t)
    BY <1>4
  <2>2. c.call = "block" /\ NodeOf(c) = <<"block", Top>>
    BY <2>1 DEF Call, NodeOf
  <2>3. t.call # "bind" /\ NodeOf(c) \in Holds(body, Home(t))
    BY <2>1, <2>2, MadeForParts DEF Call
  <2>4. Home(t) \in Nodes(body)
    BY <2>3, ProperAre
  <2> QED
    BY <2>2, <2>3, <2>4, TopIsHeldByNone
<1> QED
  BY <1>3, <1>4

(* The calls a proper call makes are proper.                               *)
LEMMA MadeAreProper ==
    ASSUME body \in Bodies, NEW t \in Proper, NEW c \in Makes(t)
    PROVE  c \in Proper
<1>1. t \in Due
  BY DEF Proper
<1>2. c \in Due
  BY <1>1, MadeAreListed, MembersOfLists DEF Lists
<1>3. SUFFICES InMode(c)
  BY <1>2 DEF Proper
<1>4. CASE c = Call("bind", t.id) /\ t.call = "stmt" /\ t.id \in Whens
  BY <1>4 DEF InMode, Call, Proper
<1>5. CASE t.call # "bind" /\ c.call # "bind" /\ NodeOf(c) \in Holds(body, Home(t))
  <2>1. Home(t) \in Nodes(body)
    BY <1>5, ProperAre
  <2>2. CASE c.call = "block"
    <3>1. NodeOf(c) = <<"block", c.id>>
      BY <2>2 DEF NodeOf
    <3>2. ASSUME c.id \in GuardedBlocks PROVE FALSE
      <4>1. CASE \E w \in Whens : Home(t) = <<"stmt", w>>
        <5>1. PICK w \in Whens : Home(t) = <<"stmt", w>>
          BY <4>1
        <5>2. HomeKind(t) = "stmt" /\ HomeId(t) = w
          BY <5>1 DEF Home
        <5>3. t.id = w /\ t.call \in {"stmt", "guarded"}
          BY <1>5, <5>2, ProperAre
        <5>4. body.stmts[t.id].op = "when"
          BY <5>1, <5>3 DEF Whens
        <5>5. t.call = "stmt"
          BY <2>2, <5>3, <5>4 DEF Makes, GuardedMakes, Guards, Each, Only, Call
        <5> QED
          BY <2>2, <5>4, <5>5 DEF Makes, StmtMakes, Each, Only, Call
      <4>2. CASE \E e \in Taken : Home(t) = <<"expr", e>>
        <5>1. PICK e \in Taken : Home(t) = <<"expr", e>>
          BY <4>2
        <5>2. HomeKind(t) = "expr" /\ HomeId(t) = e
          BY <5>1 DEF Home
        <5>3. t.call = "guarded"
          BY <1>5, <5>1, <5>2, ProperAre
        <5> QED
          BY <2>2, <5>3 DEF Makes, GuardedMakes, Each, Call
      <4> QED
        BY <1>5, <2>1, <3>1, <3>2, <4>1, <4>2, GuardedIsHeld
    <3> QED
      BY <2>2, <3>2 DEF InMode
  <2>3. CASE c.call = "expr"
    <3>1. NodeOf(c) = <<"expr", c.id>>
      BY <2>3 DEF NodeOf
    <3>2. ASSUME NEW s \in BelowWhen, Guards(s), c.id = body.stmts[s].rhs
          PROVE  FALSE
      <4>1. PICK h, r : h = Home(t) /\ r = c.id
        OBVIOUS
      <4>2. /\ h \in Nodes(body) /\ <<"expr", r>> \in Holds(body, h)
            /\ <<"stmt", s>> \in Nodes(body) /\ <<"expr", r>> \in Holds(body, <<"stmt", s>>)
        BY <1>5, <2>1, <3>1, <3>2, <4>1, TakenAre
      <4>3. h = <<"stmt", s>>
        BY <4>2, HeldByOne
      <4>4. HomeKind(t) = "stmt" /\ HomeId(t) = s
        BY <4>1, <4>3 DEF Home
      <4> QED
        BY <1>5, <3>2, <4>4, ProperAre
    <3> QED
      BY <2>3, <3>2 DEF InMode, Taken
  <2>4. CASE c.call = "stmt"
    <3>1. t.call = "block" /\ c.id \in Members(body.blocks[t.id].stmts)
      BY <1>1, <1>5, <2>4, DueAre DEF Makes, BlockMakes, StmtMakes, GuardedMakes, ExprMakes, Each, Call
    <3>2. t.id \in DOMAIN body.blocks /\ t.id \notin GuardedBlocks
      BY <1>1, <3>1, DueAre, ProperAre
    <3> QED
      BY <2>4, <3>1, <3>2, BlocksOfGuarded DEF InMode
  <2>5. CASE c.call = "guarded"
    <3>1. t.call = "collect" /\ c.id \in Members(body.blocks[t.id].stmts)
      BY <1>1, <1>5, <2>5, DueAre DEF Makes, BlockMakes, StmtMakes, GuardedMakes, ExprMakes, Each, Call
    <3>2. t.id \in DOMAIN body.blocks /\ t.id \in GuardedBlocks
      BY <1>1, <3>1, DueAre, ProperAre
    <3> QED
      BY <2>5, <3>1, <3>2, BlocksOfGuarded DEF InMode
  <2>6. CASE c.call = "collect"
    <3>1. \/ t.call = "stmt" /\ body.stmts[t.id].op = "when" /\ c.id = body.stmts[t.id].block
          \/ t.call = "guarded" /\ Guards(t.id) /\ c.id \in Branches(t.id)
      BY <1>1, <1>5, <2>6, DueAre DEF Makes, BlockMakes, StmtMakes, GuardedMakes, ExprMakes, Each, Call, Only
    <3>2. CASE t.call = "stmt" /\ body.stmts[t.id].op = "when" /\ c.id = body.stmts[t.id].block
      <4>1. t.id \in Whens
        BY <1>1, <3>2, DueAre DEF Whens
      <4> QED
        BY <2>6, <3>2, <4>1, WhenBlocks DEF InMode
    <3>3. CASE t.call = "guarded" /\ Guards(t.id) /\ c.id \in Branches(t.id)
      <4>1. t.id \in BelowWhen
        BY <1>5, <3>3, ProperAre
      <4> QED
        BY <2>6, <3>3, <4>1, TakenAre DEF InMode
    <3> QED
      BY <3>1, <3>2, <3>3
  <2> QED
    BY <1>2, <1>5, <2>2, <2>3, <2>4, <2>5, <2>6, DueAre
<1> QED
  BY <1>4, <1>5, MadeForParts

----------------------------------------------------------------------------
(* The walk goes through each call once.  V are the calls it has gone      *)
(* through, L those that are due.                                          *)
Visits(V, L) ==
    /\ L \in Seq(Due) /\ Distinct(L)
    /\ V \cup Members(L) \subseteq Proper
    /\ V \cap Members(L) = {}
    /\ \A t \in Proper \ V : Makes(t) \cap (V \cup Members(L)) = {}
    /\ \A t \in V : Makes(t) \subseteq V \cup Members(L)
    /\ Call("block", Top) \in V \cup Members(L)

LEMMA DistinctTail ==
    ASSUME NEW T, NEW s \in Seq(T), s # <<>>, Distinct(s)
    PROVE  Head(s) \notin Members(Tail(s)) /\ Distinct(Tail(s))
<1>1. PICK h, r, n : h = Head(s) /\ r = Tail(s) /\ n = Len(s)
  OBVIOUS
<1>2. /\ n \in Nat \ {0} /\ DOMAIN s = 1 .. n /\ h = s[1]
      /\ DOMAIN r = 1 .. n - 1 /\ \A i \in 1 .. n - 1 : r[i] = s[i + 1]
  BY <1>1
<1>3. ASSUME NEW i \in 1 .. n - 1
      PROVE  i + 1 \in DOMAIN s /\ r[i] = s[i + 1] /\ r[i] # h
  <2>1. i + 1 \in 1 .. n /\ 1 \in 1 .. n /\ i + 1 # 1
    BY <1>2
  <2>2. s[i + 1] # s[1]
    BY <1>2, <2>1 DEF Distinct
  <2> QED
    BY <1>2, <2>1, <2>2
<1>4. h \notin Members(r)
  BY <1>2, <1>3 DEF Members
<1>5. ASSUME NEW i \in 1 .. n - 1, NEW j \in 1 .. n - 1, r[i] = r[j]
      PROVE  i = j
  <2>1. i + 1 = j + 1
    BY <1>3, <1>5 DEF Distinct
  <2> QED
    BY <2>1
<1>6. Distinct(r)
  BY <1>2, <1>5 DEF Distinct
<1> QED
  BY <1>1, <1>4, <1>6

LEMMA VisitsAtFirst ==
    ASSUME body \in Bodies
    PROVE  Visits({}, <<Call("block", Top)>>)
<1>1. PICK t, L : t = Call("block", Top) /\ L = <<t>>
  OBVIOUS
<1>2. t \in Proper /\ t \in Due /\ \A u \in Proper : t \notin Makes(u)
  BY <1>1, TopIsProper DEF Proper
<1>3. Members(L) = {t} /\ L \in Seq(Due)
  BY <1>1, <1>2, MembersOfLists, ShortLists
<1>4. Distinct(L)
  BY <1>1 DEF Distinct
<1> QED
  BY <1>1, <1>2, <1>3, <1>4 DEF Visits

LEMMA VisitsKept ==
    ASSUME body \in Bodies, NEW V, NEW L, Visits(V, L), L # <<>>
    PROVE  Visits(V \cup {Head(L)}, Made(Head(L)) \o Tail(L))
<1>1. PICK h, r, H, R, M : /\ h = Head(L) /\ r = Tail(L) /\ H = Made(h) /\ R = Members(r) /\ M = Makes(h)
  OBVIOUS
<1>2. /\ L \in Seq(Due) /\ r \in Seq(Due) /\ h \in Due
      /\ Members(L) = {h} \cup R
  BY <1>1, MembersOfLists DEF Visits
<1>3. h \notin R /\ Distinct(r)
  BY <1>1, <1>2, DistinctTail DEF Visits
<1>4. h \in Proper /\ h \notin V /\ R \subseteq Proper /\ R \cap V = {}
  BY <1>2 DEF Visits
<1>5. H \in Seq(Due) /\ Distinct(H) /\ Members(H) = M
  BY <1>1, <1>2, MadeAreListed DEF Lists
<1>6. M \cap (V \cup {h} \cup R) = {}
  BY <1>1, <1>2, <1>4 DEF Visits
<1>7. M \subseteq Proper
  BY <1>1, <1>4, MadeAreProper
<1>8. H \o r \in Seq(Due) /\ Members(H \o r) = M \cup R
  <2>1. Members(H \o r) = Members(H) \cup Members(r)
    BY <1>2, <1>5, MembersOfLists
  <2> QED
    BY <1>1, <1>2, <1>5, <2>1
<1>9. Distinct(H \o r)
  BY <1>1, <1>2, <1>3, <1>5, <1>6, DistinctJoined
<1>10. ASSUME NEW t \in Proper \ (V \cup {h})
       PROVE  Makes(t) \cap (V \cup {h} \cup M \cup R) = {}
  <2>1. Makes(t) \cap (V \cup {h} \cup R) = {}
    BY <1>2 DEF Visits
  <2>2. Makes(t) \cap M = {}
    BY <1>1, <1>4, MadeByOne
  <2> QED
    BY <2>1, <2>2
<1>11. ASSUME NEW t \in V \cup {h}
       PROVE  Makes(t) \subseteq V \cup {h} \cup M \cup R
  BY <1>1, <1>2 DEF Visits
<1>12. V \cup {h} \cup (M \cup R) \subseteq Proper /\ (V \cup {h}) \cap (M \cup R) = {}
  BY <1>3, <1>4, <1>6, <1>7 DEF Visits
<1>13. Call("block", Top) \in V \cup {h} \cup (M \cup R)
  BY <1>2 DEF Visits
<1>14. Visits(V \cup {h}, H \o r)
  BY <1>8, <1>9, <1>10, <1>11, <1>12, <1>13 DEF Visits
<1> QED
  BY <1>1, <1>14

----------------------------------------------------------------------------
(* A statement is guarded by one `when`.                                   *)
GuardedBy(w) == Guarded[body.stmts[w].block]

LEMMA InOneBlock ==
    ASSUME body \in Bodies, NEW j \in DOMAIN body.blocks, NEW k \in DOMAIN body.blocks,
           NEW s, s \in Members(body.blocks[j].stmts), s \in Members(body.blocks[k].stmts)
    PROVE  j = k
<1>1. <<"stmt", s>> \in Holds(body, <<"block", j>>) /\ <<"stmt", s>> \in Holds(body, <<"block", k>>)
  BY BlockHolds
<1>2. <<"block", j>> = <<"block", k>>
  BY <1>1, HeldByOne, NodesAre
<1> QED
  BY <1>2

LEMMA InsideOneWhen ==
    ASSUME body \in Bodies, NEW w \in Whens
    PROVE  \A b \in DOMAIN body.blocks :
              Guarded[b] \cap GuardedBy(w) # {} =>
                 \/ b = body.stmts[w].block
                 \/ \E r \in GuardedBy(w) : Guards(r) /\ b \in Branches(r)
<1> DEFINE Inside(b) == \/ b = body.stmts[w].block
                        \/ \E r \in GuardedBy(w) : Guards(r) /\ b \in Branches(r)
<1>1. PICK n, G : n = Len(body.blocks) /\ n \in Nat /\ DOMAIN body.blocks = 1 .. n
                  /\ G = {b \in 1 .. n : Guarded[b] \cap GuardedBy(w) # {} => Inside(b)}
  BY TreeOf
<1>2. PICK k : k = body.stmts[w].block /\ k \in DOMAIN body.blocks /\ GuardedBy(w) = Guarded[k]
               /\ <<"block", k>> \in Holds(body, <<"stmt", w>>) /\ <<"stmt", w>> \in Nodes(body)
  BY WhenBlocks, NodesAre DEF GuardedBy
<1>3. ASSUME NEW b \in DOMAIN body.blocks, NEW s \in Members(body.blocks[b].stmts), s \in GuardedBy(w)
      PROVE  Inside(b)
  <2>1. CASE s \in Members(body.blocks[k].stmts)
    BY <1>2, <1>3, <2>1, InOneBlock
  <2>2. CASE \E r \in Guarded[k] : Guards(r) /\ \E j \in Branches(r) :
                    j \in DOMAIN body.blocks /\ s \in Members(body.blocks[j].stmts)
    BY <1>2, <1>3, <2>2, InOneBlock
  <2> QED
    BY <1>2, <1>3, <2>1, <2>2, GuardedSomewhere
<1>4. ASSUME NEW b \in 1 .. n, \A j \in 1 .. b - 1 : j \in G
      PROVE  b \in G
  <2>1. SUFFICES ASSUME NEW s \in Guarded[b], s \in GuardedBy(w)
                 PROVE  Inside(b)
    BY <1>1
  <2>2. CASE s \in Members(body.blocks[b].stmts)
    BY <1>1, <1>3, <2>1, <2>2
  <2>3. CASE s \notin Members(body.blocks[b].stmts)
    <3>1. PICK r, j : r \in Members(body.blocks[b].stmts) /\ Guards(r) /\ j \in Branches(r) /\ s \in Guarded[j]
      BY <1>1, <2>3, GuardedDefined DEF GuardedIn
    <3>2. /\ j \in 1 .. b - 1 /\ j \in DOMAIN body.blocks
          /\ <<"block", j>> \in Holds(body, <<"expr", body.stmts[r].rhs>>)
          /\ <<"expr", body.stmts[r].rhs>> \in Nodes(body)
          /\ r \in DOMAIN body.stmts /\ <<"stmt", r>> \in Nodes(body)
          /\ <<"expr", body.stmts[r].rhs>> \in Holds(body, <<"stmt", r>>)
      <4>1. r \in DOMAIN body.stmts /\ body.stmts[r].op # "var"
        BY <1>1, <3>1, BlockHolds DEF Guards
      <4> QED
        BY <1>1, <3>1, <4>1, BranchesComeBefore, StmtHolds, NodesAre
    <3>3. Inside(j)
      BY <1>1, <1>4, <2>1, <3>1, <3>2
    <3>4. j # k
      <4>1. ASSUME j = k PROVE FALSE
        <5>1. <<"expr", body.stmts[r].rhs>> = <<"stmt", w>>
          BY <1>2, <3>2, <4>1, HeldByOne
        <5> QED
          BY <5>1
      <4> QED
        BY <4>1
    <3>5. PICK t \in GuardedBy(w) : Guards(t) /\ j \in Branches(t)
      BY <1>2, <3>3, <3>4
    <3>6. t \in BelowWhen
      BY <3>5, WhenBlocks DEF GuardedBy
    <3>7. PICK d, e : d = body.stmts[r].rhs /\ e = body.stmts[t].rhs
      OBVIOUS
    <3>8. /\ <<"block", j>> \in Holds(body, <<"expr", e>>) /\ <<"expr", e>> \in Nodes(body)
          /\ <<"expr", e>> \in Holds(body, <<"stmt", t>>) /\ <<"stmt", t>> \in Nodes(body)
      BY <3>5, <3>6, <3>7, TakenAre
    <3>9. <<"expr", d>> = <<"expr", e>>
      BY <3>2, <3>7, <3>8, HeldByOne
    <3>10. <<"stmt", r>> = <<"stmt", t>>
      <4>1. d = e
        BY <3>9
      <4> QED
        BY <3>2, <3>7, <3>8, <4>1, HeldByOne
    <3>11. r \in GuardedBy(w)
      <4>1. r = t
        BY <3>10
      <4> QED
        BY <3>5, <4>1
    <3> QED
      BY <1>1, <1>3, <3>1, <3>11
  <2> QED
    BY <2>2, <2>3
<1>5. \A b \in 1 .. n : b \in G
  BY <1>1, <1>4, AlongTheArena
<1> QED
  BY <1>1, <1>5

LEMMA GuardedByOne ==
    ASSUME body \in Bodies, NEW v \in Whens, NEW w \in Whens, GuardedBy(v) \cap GuardedBy(w) # {}
    PROVE  v = w
<1>1. PICK k : k = body.stmts[v].block /\ k \in DOMAIN body.blocks /\ GuardedBy(v) = Guarded[k]
               /\ <<"block", k>> \in Holds(body, <<"stmt", v>>) /\ <<"stmt", v>> \in Nodes(body)
  BY WhenBlocks, NodesAre DEF GuardedBy
<1>2. k = body.stmts[w].block \/ \E r \in GuardedBy(w) : Guards(r) /\ k \in Branches(r)
  BY <1>1, InsideOneWhen
<1>3. CASE k = body.stmts[w].block
  <2>1. <<"block", k>> \in Holds(body, <<"stmt", w>>) /\ <<"stmt", w>> \in Nodes(body)
    BY <1>3, WhenBlocks, NodesAre
  <2>2. <<"stmt", v>> = <<"stmt", w>>
    BY <1>1, <2>1, HeldByOne
  <2> QED
    BY <2>2
<1>4. CASE \E r \in GuardedBy(w) : Guards(r) /\ k \in Branches(r)
  <2>1. PICK r \in GuardedBy(w) : Guards(r) /\ k \in Branches(r)
    BY <1>4
  <2>2. r \in BelowWhen
    BY <2>1, WhenBlocks DEF GuardedBy
  <2>3. PICK e : e = body.stmts[r].rhs /\ <<"block", k>> \in Holds(body, <<"expr", e>>) /\ <<"expr", e>> \in Nodes(body)
    BY <2>1, <2>2, TakenAre
  <2>4. <<"stmt", v>> = <<"expr", e>>
    BY <1>1, <2>3, HeldByOne
  <2> QED
    BY <2>4
<1> QED
  BY <1>2, <1>3, <1>4

----------------------------------------------------------------------------
(* What is under a call, among what a `when` guards.                       *)
Under(t) == CASE t.call = "collect" -> Guarded[t.id]
              [] t.call = "guarded" -> {t.id} \cup UNION {Guarded[k] : k \in Only(Branches(t.id), Guards(t.id))}
              [] OTHER -> {}

LEMMA GuardedCallsAre ==
    ASSUME body \in Bodies
    PROVE  /\ \A k \in GuardedBlocks :
                /\ Call("collect", k) \in Proper
                /\ \A s \in Members(body.blocks[k].stmts) : Call("guarded", s) \in Makes(Call("collect", k))
           /\ \A s \in BelowWhen :
                /\ Call("guarded", s) \in Proper
                /\ Guards(s) => \A k \in Branches(s) : Call("collect", k) \in Makes(Call("guarded", s))
           /\ \A w \in Whens \ BelowWhen :
                /\ Call("stmt", w) \in Proper
                /\ Call("collect", body.stmts[w].block) \in Makes(Call("stmt", w))
                /\ Call("bind", w) \in Makes(Call("stmt", w))
<1>1. ASSUME NEW k \in GuardedBlocks
      PROVE  /\ Call("collect", k) \in Proper
             /\ \A s \in Members(body.blocks[k].stmts) : Call("guarded", s) \in Makes(Call("collect", k))
  <2>1. PICK t : t = Call("collect", k) /\ t.call = "collect" /\ t.id = k
    BY CallsAre
  <2>2. t \in Due
    BY <2>1, GuardedBlockOf DEF Due, Call
  <2>3. t \in Proper
    BY <2>1, <2>2 DEF Proper, InMode
  <2>4. Makes(t) = Each("guarded", Members(body.blocks[k].stmts))
    BY <2>1 DEF Makes
  <2> QED
    BY <2>1, <2>3, <2>4 DEF Each
<1>2. ASSUME NEW s \in BelowWhen
      PROVE  /\ Call("guarded", s) \in Proper
             /\ Guards(s) => \A k \in Branches(s) : Call("collect", k) \in Makes(Call("guarded", s))
  <2>1. PICK t : t = Call("guarded", s) /\ t.call = "guarded" /\ t.id = s
    BY CallsAre
  <2>2. t \in Due
    BY <2>1, BelowAre DEF Due, Call
  <2>3. t \in Proper
    BY <2>1, <2>2 DEF Proper, InMode
  <2>4. Makes(t) = GuardedMakes(s)
    BY <2>1 DEF Makes
  <2>5. Guards(s) => \A k \in Branches(s) : Call("collect", k) \in GuardedMakes(s)
    BY DEF GuardedMakes, Each
  <2> QED
    BY <2>1, <2>3, <2>4, <2>5
<1>3. ASSUME NEW w \in Whens \ BelowWhen
      PROVE  /\ Call("stmt", w) \in Proper
             /\ Call("collect", body.stmts[w].block) \in Makes(Call("stmt", w))
             /\ Call("bind", w) \in Makes(Call("stmt", w))
  <2>1. PICK t : t = Call("stmt", w) /\ t.call = "stmt" /\ t.id = w
    BY CallsAre
  <2>2. t \in Due
    BY <2>1, WhenBlocks DEF Due, Call
  <2>3. t \in Proper
    BY <2>1, <2>2 DEF Proper, InMode
  <2>4. Makes(t) = StmtMakes(w)
    BY <2>1 DEF Makes
  <2>5. body.stmts[w].op = "when"
    BY WhenBlocks
  <2>6. Call("collect", body.stmts[w].block) \in StmtMakes(w) /\ Call("bind", w) \in StmtMakes(w)
    BY <2>5 DEF StmtMakes, Each, Only
  <2> QED
    BY <2>1, <2>3, <2>4, <2>6
<1> QED
  BY <1>1, <1>2, <1>3

LEMMA UnderShrinks ==
    ASSUME body \in Bodies, NEW t \in Proper, NEW c \in Makes(t), c.call \in {"collect", "guarded"}
    PROVE  \/ t.call \in {"collect", "guarded"} /\ Under(c) \subseteq Under(t)
           \/ /\ t.call = "stmt" /\ t.id \in Whens /\ t.id \notin BelowWhen
              /\ c = Call("collect", body.stmts[t.id].block)
<1>1. t \in Due
  BY DEF Proper
<1>2. CASE t.call = "collect"
  <2>1. PICK k, s : k = t.id /\ k \in DOMAIN body.blocks /\ c = Call("guarded", s) /\ s \in Members(body.blocks[k].stmts)
    BY <1>1, <1>2, DueAre DEF Makes, Each
  <2>2. Under(t) = Guarded[k] /\ Under(c) = {s} \cup UNION {Guarded[j] : j \in Only(Branches(s), Guards(s))}
    BY <1>2, <2>1, CallsAre DEF Under
  <2>3. Guarded[k] = GuardedIn(Guarded, k)
    BY <2>1, GuardedDefined
  <2>4. Guards(s) => \A j \in Branches(s) : Guarded[j] \subseteq Guarded[k]
    BY <2>1, <2>3 DEF GuardedIn
  <2>5. s \in Guarded[k]
    BY <2>1, OwnAreGuarded
  <2> QED
    BY <1>2, <2>2, <2>4, <2>5 DEF Only
<1>3. CASE t.call = "guarded"
  <2>1. PICK s : s = t.id
    OBVIOUS
  <2>2. c \in GuardedMakes(s)
    BY <1>3, <2>1 DEF Makes
  <2>3. Guards(s) /\ \E k \in Branches(s) : c = Call("collect", k)
    BY <2>2, CallsAre DEF GuardedMakes, Each, Only
  <2>4. PICK k \in Branches(s) : c = Call("collect", k)
    BY <2>3
  <2>5. Under(c) = Guarded[k]
    BY <2>4, CallsAre DEF Under
  <2>6. Under(t) = {s} \cup UNION {Guarded[j] : j \in Branches(s)}
    BY <1>3, <2>1, <2>3 DEF Under, Only
  <2> QED
    BY <1>3, <2>4, <2>5, <2>6
<1>4. CASE t.call = "stmt"
  <2>1. PICK n : n = t.id /\ n \in DOMAIN body.stmts /\ n \notin BelowWhen
    BY <1>1, <1>4, DueAre DEF Proper, InMode
  <2>2. c \in StmtMakes(n)
    BY <1>4, <2>1 DEF Makes
  <2>3. body.stmts[n].op = "when" /\ c = Call("collect", body.stmts[n].block)
    BY <2>2, CallsAre DEF StmtMakes, Each, Only
  <2> QED
    BY <1>4, <2>1, <2>3 DEF Whens
<1>5. CASE t.call = "block"
  BY <1>5, CallsAre DEF Makes, BlockMakes, Each
<1>6. CASE t.call = "expr"
  BY <1>6, CallsAre DEF Makes, ExprMakes, Each
<1>7. CASE t.call = "bind"
  BY <1>7 DEF Makes
<1> QED
  BY <1>1, <1>2, <1>3, <1>4, <1>5, <1>6, <1>7, DueAre

(* Nothing below a guarded block has been met before the block.            *)
LEMMA NoneSeen ==
    ASSUME body \in Bodies, NEW V, NEW L, Visits(V, L)
    PROVE  \A k \in DOMAIN body.blocks :
              k \in GuardedBlocks /\ Call("collect", k) \notin V \cup Members(L) =>
                 \A s \in Guarded[k] : Call("guarded", s) \notin V
<1>1. PICK n, M, G : n = Len(body.blocks) /\ n \in Nat /\ DOMAIN body.blocks = 1 .. n /\ M = V \cup Members(L)
                  /\ G = {k \in 1 .. n : k \in GuardedBlocks /\ Call("collect", k) \notin M =>
                            \A s \in Guarded[k] : Call("guarded", s) \notin M}
  BY TreeOf
<1>2. \A t \in Proper : t \notin M => Makes(t) \cap M = {}
  BY <1>1 DEF Visits
<1>3. ASSUME NEW k \in 1 .. n, \A j \in 1 .. k - 1 : j \in G
      PROVE  k \in G
  <2>1. SUFFICES ASSUME k \in GuardedBlocks, Call("collect", k) \notin M, NEW s \in Guarded[k]
                 PROVE  Call("guarded", s) \notin M
    BY <1>1
  <2>2. \A r \in Members(body.blocks[k].stmts) : Call("guarded", r) \notin M
    BY <1>2, <2>1, GuardedCallsAre
  <2>3. CASE s \in Members(body.blocks[k].stmts)
    BY <2>2, <2>3
  <2>4. CASE s \notin Members(body.blocks[k].stmts)
    <3>1. PICK r, j : r \in Members(body.blocks[k].stmts) /\ Guards(r) /\ j \in Branches(r) /\ s \in Guarded[j]
      BY <1>1, <2>4, GuardedDefined DEF GuardedIn
    <3>2. j \in 1 .. k - 1
      BY <1>1, <3>1, BranchesComeBefore
    <3>3. r \in BelowWhen
      BY <1>1, <2>1, <3>1, BlocksOfGuarded
    <3>4. j \in GuardedBlocks
      BY <3>1, <3>3, TakenAre
    <3>5. Call("guarded", r) \notin M /\ Call("guarded", r) \in Proper /\ Call("collect", j) \in Makes(Call("guarded", r))
      BY <2>2, <3>1, <3>3, GuardedCallsAre
    <3>6. Call("collect", j) \notin M
      BY <1>2, <3>5
    <3> QED
      BY <1>1, <1>3, <3>1, <3>2, <3>4, <3>6
  <2> QED
    BY <2>3, <2>4
<1>4. \A k \in 1 .. n : k \in G
  BY <1>1, <1>3, AlongTheArena
<1> QED
  BY <1>1, <1>4

(* Once nothing below it is due, all that a `when` guards has been met.    *)
LEMMA AllSeen ==
    ASSUME body \in Bodies, NEW V, NEW L, Visits(V, L), NEW w \in Whens,
           \A t \in Members(L) : Under(t) \cap GuardedBy(w) = {},
           Call("collect", body.stmts[w].block) \in V \cup Members(L)
    PROVE  \A s \in GuardedBy(w) : Call("guarded", s) \in V
<1>1. PICK n, M, G : n = Len(body.blocks) /\ n \in Nat /\ DOMAIN body.blocks = 1 .. n /\ M = V \cup Members(L)
                  /\ G = {k \in 1 .. n : /\ k \in GuardedBlocks /\ Call("collect", k) \in M
                                         /\ Guarded[k] \subseteq GuardedBy(w)
                                         => \A s \in Guarded[k] : Call("guarded", s) \in V}
  BY TreeOf
<1>2. \A t \in V : Makes(t) \subseteq M
  BY <1>1 DEF Visits
<1>3. ASSUME NEW s \in GuardedBy(w), Call("guarded", s) \in M
      PROVE  Call("guarded", s) \in V
  <2>1. PICK t : t = Call("guarded", s) /\ t.call = "guarded" /\ t.id = s
    BY CallsAre
  <2>2. s \in Under(t)
    BY <2>1 DEF Under
  <2> QED
    BY <1>1, <1>3, <2>1, <2>2
<1>4. ASSUME NEW k \in GuardedBlocks, Call("collect", k) \in M, NEW s \in Guarded[k], s \in GuardedBy(w)
      PROVE  Call("collect", k) \in V
  <2>1. PICK t : t = Call("collect", k) /\ t.call = "collect" /\ t.id = k
    BY CallsAre
  <2>2. s \in Under(t)
    BY <1>4, <2>1 DEF Under
  <2> QED
    BY <1>1, <1>4, <2>1, <2>2
<1>5. ASSUME NEW k \in 1 .. n, \A j \in 1 .. k - 1 : j \in G
      PROVE  k \in G
  <2>1. SUFFICES ASSUME k \in GuardedBlocks, Call("collect", k) \in M, Guarded[k] \subseteq GuardedBy(w),
                        NEW s \in Guarded[k]
                 PROVE  Call("guarded", s) \in V
    BY <1>1
  <2>2. Call("collect", k) \in V
    BY <1>4, <2>1
  <2>3. ASSUME NEW r \in Members(body.blocks[k].stmts)
        PROVE  Call("guarded", r) \in V
    <3>1. Call("guarded", r) \in M
      BY <1>2, <2>1, <2>2, GuardedCallsAre
    <3>2. r \in GuardedBy(w)
      BY <1>1, <2>1, OwnAreGuarded
    <3> QED
      BY <1>3, <3>1, <3>2
  <2>4. CASE s \in Members(body.blocks[k].stmts)
    BY <2>3, <2>4
  <2>5. CASE s \notin Members(body.blocks[k].stmts)
    <3>1. PICK r, j : r \in Members(body.blocks[k].stmts) /\ Guards(r) /\ j \in Branches(r) /\ s \in Guarded[j]
      BY <1>1, <2>5, GuardedDefined DEF GuardedIn
    <3>2. j \in 1 .. k - 1
      BY <1>1, <3>1, BranchesComeBefore
    <3>3. r \in BelowWhen
      BY <1>1, <2>1, <3>1, BlocksOfGuarded
    <3>4. j \in GuardedBlocks
      BY <3>1, <3>3, TakenAre
    <3>5. Call("guarded", r) \in V /\ Call("collect", j) \in Makes(Call("guarded", r))
      BY <2>3, <3>1, <3>3, GuardedCallsAre
    <3>6. Call("collect", j) \in M
      BY <1>2, <3>5
    <3>7. Guarded[j] \subseteq GuardedBy(w)
      <4>1. Guarded[j] \subseteq Guarded[k]
        BY <1>1, <3>1, GuardedDefined DEF GuardedIn
      <4> QED
        BY <2>1, <4>1
    <3> QED
      BY <1>1, <1>5, <3>1, <3>2, <3>4, <3>6, <3>7
  <2> QED
    BY <2>4, <2>5
<1>6. \A k \in 1 .. n : k \in G
  <2>1. n \in Nat
    BY <1>1
  <2> QED
    BY <1>5, <2>1, AlongTheArena
<1>7. PICK k : k = body.stmts[w].block /\ k \in GuardedBlocks /\ k \in DOMAIN body.blocks /\ Guarded[k] = GuardedBy(w)
  BY WhenBlocks DEF GuardedBy
<1> QED
  BY <1>1, <1>6, <1>7

----------------------------------------------------------------------------
(* A place in the list of calls, from its end: a step leaves the places of *)
(* the calls it does not make as they are.                                 *)
Back(L)    == 0 .. Len(L) - 1
From(L, x) == L[Len(L) - x]

LEMMA PlacesBack ==
    ASSUME NEW L \in Seq(Due)
    PROVE  /\ Len(L) \in Nat
           /\ \A x \in Back(L) : From(L, x) \in Due /\ From(L, x) \in Members(L)
           /\ \A t \in Members(L) : \E x \in Back(L) : From(L, x) = t
           /\ Distinct(L) => \A x, y \in Back(L) : From(L, x) = From(L, y) => x = y
<1>1. PICK n : n = Len(L) /\ n \in Nat /\ DOMAIN L = 1 .. n /\ \A i \in 1 .. n : L[i] \in Due
  OBVIOUS
<1>2. ASSUME NEW x \in 0 .. n - 1
      PROVE  From(L, x) \in Due /\ From(L, x) \in Members(L)
  <2>1. n - x \in 1 .. n /\ From(L, x) = L[n - x]
    BY <1>1 DEF From
  <2> QED
    BY <1>1, <2>1 DEF Members
<1>3. ASSUME NEW i \in 1 .. n
      PROVE  \E x \in 0 .. n - 1 : From(L, x) = L[i]
  <2>1. n - i \in 0 .. n - 1 /\ n - (n - i) = i
    BY <1>1
  <2>2. From(L, n - i) = L[i]
    BY <1>1, <2>1 DEF From
  <2> QED
    BY <2>1, <2>2
<1>4. \A t \in Members(L) : \E x \in 0 .. n - 1 : From(L, x) = t
  BY <1>1, <1>3 DEF Members
<1>5. ASSUME Distinct(L), NEW x \in 0 .. n - 1, NEW y \in 0 .. n - 1, From(L, x) = From(L, y)
      PROVE  x = y
  <2>1. n - x \in DOMAIN L /\ n - y \in DOMAIN L /\ L[n - x] = L[n - y]
    BY <1>1, <1>5 DEF From
  <2>2. n - x = n - y
    BY <1>5, <2>1 DEF Distinct
  <2> QED
    BY <1>1, <2>2
<1> QED
  BY <1>1, <1>2, <1>4, <1>5 DEF Back

Placed(L, H, N, p) ==
    /\ p \in Nat /\ N \in Seq(Due) /\ Len(H) \in Nat
    /\ Back(L) = 0 .. p /\ From(L, p) = Head(L)
    /\ Back(N) = 0 .. p + Len(H) - 1
    /\ \A x \in 0 .. p - 1 : From(N, x) = From(L, x)
    /\ \A x \in p .. p + Len(H) - 1 : From(N, x) \in Members(H) /\ From(N, x) = H[Len(H) + p - x]

LEMMA PlacesJoined ==
    ASSUME NEW L \in Seq(Due), L # <<>>, NEW H \in Seq(Due), NEW N, N = H \o Tail(L),
           NEW p, p = Len(L) - 1
    PROVE  Placed(L, H, N, p)
<1>1. PICK m, r : m = Len(H) /\ r = Tail(L)
  OBVIOUS
<1>2. /\ p \in Nat /\ Len(L) = p + 1 /\ m \in Nat
      /\ r \in Seq(Due) /\ Len(r) = p /\ DOMAIN r = 1 .. p /\ DOMAIN H = 1 .. m
      /\ Head(L) = L[1]
      /\ \A i \in 1 .. p : r[i] = L[i + 1]
  BY <1>1
<1>3. /\ N \in Seq(Due) /\ Len(N) = m + p
      /\ \A i \in 1 .. m : N[i] = H[i]
      /\ \A i \in m + 1 .. m + p : N[i] = r[i - m]
  BY <1>1, <1>2, JoinedLists
<1>4. ASSUME NEW x \in 0 .. p - 1
      PROVE  From(N, x) = From(L, x)
  <2>1. m + p - x \in m + 1 .. m + p /\ p - x \in 1 .. p /\ m + p - x - m = p - x /\ p - x + 1 = p + 1 - x
    BY <1>2
  <2>2. N[m + p - x] = r[p - x] /\ r[p - x] = L[p + 1 - x]
    BY <1>2, <1>3, <2>1
  <2> QED
    BY <1>2, <1>3, <2>2 DEF From
<1>5. ASSUME NEW x \in p .. p + m - 1
      PROVE  From(N, x) \in Members(H) /\ From(N, x) = H[m + p - x]
  <2>1. m + p - x \in 1 .. m
    BY <1>2
  <2>2. From(N, x) = N[m + p - x]
    <3>1. Len(N) - x = m + p - x
      BY <1>2, <1>3
    <3> QED
      BY <3>1 DEF From
  <2>3. N[m + p - x] = H[m + p - x]
    BY <1>3, <2>1
  <2> QED
    BY <1>2, <2>1, <2>2, <2>3 DEF Members
<1>6. From(L, p) = Head(L)
  <2>1. p + 1 - p = 1
    BY <1>2
  <2> QED
    BY <1>2, <2>1 DEF From
<1>7. Back(L) = 0 .. p /\ Back(N) = 0 .. p + m - 1
  <2>1. Len(L) - 1 = p /\ Len(N) - 1 = p + m - 1
    BY <1>2, <1>3
  <2> QED
    BY <2>1 DEF Back
<1> QED
  BY <1>1, <1>2, <1>3, <1>4, <1>5, <1>6, <1>7 DEF Placed

(* What is guarded is due before the end of its `when`, with no other end  *)
(* between.                                                                *)
Owner(L, x, y) ==
    /\ x < y /\ From(L, x).call = "bind"
    /\ \A z \in x + 1 .. y : From(L, z).call # "bind"
    /\ Under(From(L, y)) \subseteq GuardedBy(From(L, x).id)
Owned(L) ==
    \A y \in Back(L) : From(L, y).call \in {"collect", "guarded"} => \E x \in Back(L) : Owner(L, x, y)

LEMMA WhenCalls ==
    ASSUME body \in Bodies, NEW t \in Due, t.call = "stmt", t.id \in Whens
    PROVE  /\ Len(Made(t)) = 3
           /\ Made(t)[1].call = "expr" /\ Made(t)[2] = Call("collect", body.stmts[t.id].block)
           /\ Made(t)[3] = Call("bind", t.id)
<1>1. PICK n, s : n = t.id /\ s = body.stmts[n] /\ s.op = "when"
  BY WhenBlocks
<1>2. Made(t) = Calls("expr", <<s.rhs>>) \o Calls("collect", <<s.block>>) \o Calls("bind", <<n>>)
  BY <1>1 DEF Made, StmtCalls
<1>3. \A c, x : Calls(c, <<x>>) = <<Call(c, x)>>
  BY DEF Calls, Call
<1>4. PICK a, b, d : a = Call("expr", s.rhs) /\ b = Call("collect", s.block) /\ d = Call("bind", n)
  OBVIOUS
<1>5. Made(t) = <<a>> \o <<b>> \o <<d>>
  BY <1>2, <1>3, <1>4
<1>6. Len(Made(t)) = 3 /\ Made(t)[1] = a /\ Made(t)[2] = b /\ Made(t)[3] = d
  <2>1. PICK S : S = {a, b, d}
    OBVIOUS
  <2>2. <<a>> \in Seq(S) /\ <<b>> \in Seq(S) /\ <<d>> \in Seq(S)
    BY <2>1, ShortLists
  <2>3. PICK e : e = <<a>> \o <<b>>
    OBVIOUS
  <2>4. e \in Seq(S) /\ Len(e) = 2 /\ e[1] = a /\ e[2] = b
    BY <2>2, <2>3, JoinedLists
  <2>5. PICK f : f = <<d>>
    OBVIOUS
  <2>6. f \in Seq(S)
    BY <2>2, <2>5
  <2>7. Len(f) = 1 /\ f[1] = d
    BY <2>5
  <2>8. /\ Len(e \o f) = Len(e) + Len(f)
        /\ \A i \in 1 .. Len(e) : (e \o f)[i] = e[i]
        /\ \A i \in Len(e) + 1 .. Len(e) + Len(f) : (e \o f)[i] = f[i - Len(e)]
    BY <2>4, <2>6, JoinedLists
  <2>9. PICK g : g = e \o f
    OBVIOUS
  <2>10. Len(g) = 3 /\ g[1] = a /\ g[2] = b /\ g[3] = d
    BY <2>4, <2>7, <2>8, <2>9
  <2>11. Made(t) = g
    BY <1>5, <2>3, <2>5, <2>9
  <2> QED
    BY <2>10, <2>11, Zenon
<1> QED
  BY <1>1, <1>4, <1>6, CallsAre

LEMMA OwnedKept ==
    ASSUME body \in Bodies, NEW V, NEW L, Visits(V, L), L # <<>>, Owned(L)
    PROVE  Owned(Made(Head(L)) \o Tail(L))
<1>1. PICK t, H, N, p, m : t = Head(L) /\ H = Made(t) /\ N = H \o Tail(L) /\ p = Len(L) - 1 /\ m = Len(H)
  OBVIOUS
<1>2. L \in Seq(Due) /\ t \in Due /\ t \in Proper
  <2>1. L \in Seq(Due) /\ Members(L) \subseteq Proper
    BY DEF Visits
  <2>2. t \in Members(L)
    BY <1>1, <2>1, MembersOfLists
  <2> QED
    BY <2>1, <2>2 DEF Proper
<1>3. H \in Seq(Due) /\ Members(H) = Makes(t)
  BY <1>1, <1>2, MadeAreListed DEF Lists
<1>4. /\ p \in Nat /\ m \in Nat /\ Back(L) = 0 .. p /\ From(L, p) = t
      /\ Back(N) = 0 .. p + m - 1
      /\ \A x \in 0 .. p - 1 : From(N, x) = From(L, x)
      /\ \A x \in p .. p + m - 1 : From(N, x) \in Makes(t) /\ From(N, x) = H[m + p - x]
  <2>1. Placed(L, H, N, p)
    BY <1>1, <1>2, <1>3, PlacesJoined
  <2> QED
    BY <1>1, <1>3, <2>1 DEF Placed
<1>5. SUFFICES ASSUME NEW y \in Back(N), From(N, y).call \in {"collect", "guarded"}
               PROVE  \E x \in Back(N) : Owner(N, x, y)
  BY <1>1 DEF Owned
<1>6. CASE y < p
  <2>1. y \in 0 .. p - 1 /\ y \in Back(L) /\ From(N, y) = From(L, y)
    BY <1>4, <1>6
  <2>2. PICK x \in Back(L) : Owner(L, x, y)
    BY <1>5, <2>1 DEF Owned
  <2>3. x \in 0 .. p - 1 /\ x \in Back(N) /\ \A z \in x + 1 .. y : z \in 0 .. p - 1
    BY <1>4, <1>6, <2>1, <2>2 DEF Owner
  <2>4. Owner(N, x, y)
    BY <1>4, <2>1, <2>2, <2>3 DEF Owner
  <2> QED
    BY <2>3, <2>4
<1>7. CASE ~ y < p /\ t.call \in {"collect", "guarded"}
  <2>1. y \in p .. p + m - 1 /\ From(N, y) \in Makes(t)
    BY <1>4, <1>7
  <2>2. Under(From(N, y)) \subseteq Under(t)
    BY <1>2, <1>5, <1>7, <2>1, UnderShrinks
  <2>3. PICK x \in Back(L) : Owner(L, x, p)
    BY <1>4, <1>7 DEF Owned
  <2>4. x \in 0 .. p - 1 /\ x \in Back(N) /\ x < y
    BY <1>4, <1>7, <2>1, <2>3 DEF Owner
  <2>5. ASSUME NEW z \in x + 1 .. y
        PROVE  From(N, z).call # "bind"
    <3>1. CASE z < p
      <4>1. z \in 0 .. p - 1 /\ z \in x + 1 .. p
        BY <1>4, <2>4, <3>1
      <4> QED
        BY <1>4, <2>3, <4>1 DEF Owner
    <3>2. CASE ~ z < p
      <4>1. z \in p .. p + m - 1
        BY <1>4, <2>1, <2>4, <3>2
      <4>2. From(N, z) \in Makes(t)
        BY <1>4, <4>1
      <4> QED
        BY <1>2, <1>7, <4>2, MadeForParts, CallsAre
    <3> QED
      BY <3>1, <3>2
  <2>6. From(N, x) = From(L, x)
    BY <1>4, <2>4
  <2>7. Owner(N, x, y)
    BY <1>4, <2>2, <2>3, <2>4, <2>5, <2>6 DEF Owner
  <2> QED
    BY <2>4, <2>7
<1>8. CASE ~ y < p /\ t.call \notin {"collect", "guarded"}
  <2>1. y \in p .. p + m - 1 /\ From(N, y) \in Makes(t) /\ From(N, y) = H[m + p - y]
    BY <1>4, <1>8
  <2>2. t.call = "stmt" /\ t.id \in Whens /\ From(N, y) = Call("collect", body.stmts[t.id].block)
    BY <1>2, <1>5, <1>8, <2>1, UnderShrinks
  <2>3. /\ m = 3 /\ H[1].call = "expr" /\ H[2] = Call("collect", body.stmts[t.id].block)
        /\ H[3] = Call("bind", t.id)
    BY <1>1, <1>2, <2>2, WhenCalls
  <2>4. y = p + 1
    <3>1. y = p \/ y = p + 1 \/ y = p + 2
      BY <1>4, <2>1, <2>3
    <3>2. m + p - p = 3 /\ m + p - (p + 2) = 1
      BY <1>4, <2>3
    <3>3. From(N, y).call = "collect"
      BY <2>2, CallsAre
    <3> QED
      BY <2>1, <2>3, <3>1, <3>2, <3>3, CallsAre
  <2>5. p \in Back(N) /\ From(N, p) = Call("bind", t.id)
    <3>1. m + p - p = 3 /\ p \in p .. p + m - 1 /\ p \in 0 .. p + m - 1
      BY <1>4, <2>3
    <3>2. From(N, p) = H[m + p - p]
      BY <1>4, <3>1
    <3> QED
      BY <1>4, <2>3, <3>1, <3>2
  <2>6. Under(From(N, y)) \subseteq GuardedBy(From(N, p).id)
    BY <2>2, <2>5, CallsAre DEF Under, GuardedBy
  <2>7. \A z \in p + 1 .. y : From(N, z).call # "bind"
    <3>1. \A z \in p + 1 .. y : z = y
      BY <1>4, <2>4
    <3> QED
      BY <1>5, <3>1
  <2>8. Owner(N, p, y)
    BY <1>4, <2>4, <2>5, <2>6, <2>7, CallsAre DEF Owner
  <2> QED
    BY <2>5, <2>8
<1> QED
  BY <1>6, <1>7, <1>8

----------------------------------------------------------------------------
(* The sets of locals under way: one for each end of a `when` that is due, *)
(* with the locals bound by the guarded statements already seen.           *)
Roots(S)   == {RootLocal[body.stmts[s].lhs] : s \in S \cap Equations} \ {0}
Seen(w, V) == {s \in GuardedBy(w) : Call("guarded", s) \in V}
Val        == {RootLocal[e] : e \in DOMAIN body.exprs}

Bound(L, x) == From(L, x).call = "bind"
Ends(q, L) ==
    /\ q \in Seq(Nat)
    /\ \A j \in 1 .. Len(q) : q[j] \in Back(L) /\ Bound(L, q[j])
    /\ \A x \in Back(L) : Bound(L, x) => \E j \in 1 .. Len(q) : q[j] = x
    /\ \A i, j \in 1 .. Len(q) : i < j => q[j] < q[i]
StackOf(q, V, L, D) ==
    /\ Ends(q, L)
    /\ D \in Seq(SUBSET Val) /\ Len(D) = Len(q)
    /\ \A j \in 1 .. Len(q) : D[j] = Roots(Seen(From(L, q[j]).id, V))

LEMMA RootsTyped ==
    ASSUME body \in Bodies, NEW S
    PROVE  Roots(S) \in SUBSET Val
<1>1. ASSUME NEW s \in Equations
      PROVE  body.stmts[s].lhs \in DOMAIN body.exprs
  BY StmtRefers DEF Equations
<1> QED
  BY <1>1 DEF Roots, Val

(* The places after a step.                                                *)
Moves(L, t, N, p, m) ==
    /\ t = Head(L) /\ p \in Nat /\ m \in Nat /\ L \in Seq(Due) /\ N \in Seq(Due)
    /\ t \in Proper /\ t \in Due /\ t \in Members(L)
    /\ Back(L) = 0 .. p /\ From(L, p) = t
    /\ Back(N) = 0 .. p + m - 1
    /\ \A x \in 0 .. p - 1 : From(N, x) = From(L, x)
    /\ \A x \in p .. p + m - 1 : From(N, x) \in Makes(t) /\ From(N, x) = Made(t)[m + p - x]
    /\ m = Len(Made(t))

LEMMA StepMoves ==
    ASSUME body \in Bodies, NEW V, NEW L, Visits(V, L), L # <<>>,
           NEW t, t = Head(L), NEW N, N = Made(t) \o Tail(L)
    PROVE  \E p, m : Moves(L, t, N, p, m)
<1>1. PICK H, p, m : H = Made(t) /\ p = Len(L) - 1 /\ m = Len(H)
  OBVIOUS
<1>2. L \in Seq(Due) /\ t \in Due /\ t \in Proper /\ t \in Members(L)
  <2>1. L \in Seq(Due) /\ Members(L) \subseteq Proper
    BY DEF Visits
  <2>2. t \in Members(L)
    BY <2>1, MembersOfLists
  <2> QED
    BY <2>1, <2>2 DEF Proper
<1>3. H \in Seq(Due) /\ Members(H) = Makes(t)
  BY <1>1, <1>2, MadeAreListed DEF Lists
<1>4. N = H \o Tail(L)
  BY <1>1
<1>5. Placed(L, H, N, p)
  BY <1>1, <1>2, <1>3, <1>4, PlacesJoined
<1>6. Moves(L, t, N, p, m)
  BY <1>1, <1>2, <1>3, <1>5 DEF Placed, Moves
<1> QED
  BY <1>6

(* An end that is due stays where it is while other calls are made.        *)
LEMMA EndsStay ==
    ASSUME body \in Bodies, NEW L, NEW t, NEW N, NEW p, NEW m, Moves(L, t, N, p, m),
           NEW q, Ends(q, L), t.call # "bind", ~(t.call = "stmt" /\ t.id \in Whens)
    PROVE  Ends(q, N) /\ \A j \in 1 .. Len(q) : q[j] \in 0 .. p - 1 /\ From(N, q[j]) = From(L, q[j])
<1>1. \A x \in p .. p + m - 1 : ~Bound(N, x)
  <2>1. SUFFICES ASSUME NEW x \in p .. p + m - 1
                 PROVE  From(N, x).call # "bind"
    BY DEF Bound
  <2>2. PICK c : c = From(N, x) /\ c \in Makes(t) /\ t \in Proper
    BY DEF Moves
  <2>3. c.call # "bind"
    BY <2>2, MadeForParts, CallsAre
  <2> QED
    BY <2>2, <2>3
<1>2. ASSUME NEW j \in 1 .. Len(q)
      PROVE  /\ q[j] \in 0 .. p - 1 /\ q[j] \in Back(N)
             /\ From(N, q[j]) = From(L, q[j]) /\ Bound(N, q[j])
  <2>1. q[j] \in 0 .. p /\ Bound(L, q[j]) /\ q[j] # p
    BY DEF Ends, Moves, Bound
  <2>2. q[j] \in 0 .. p - 1 /\ q[j] \in 0 .. p + m - 1
    BY <2>1 DEF Moves
  <2> QED
    BY <2>1, <2>2 DEF Moves, Bound
<1>3. ASSUME NEW x \in Back(N), Bound(N, x)
      PROVE  \E j \in 1 .. Len(q) : q[j] = x
  <2>1. x \in 0 .. p + m - 1 /\ x \notin p .. p + m - 1
    BY <1>1, <1>3 DEF Moves
  <2>2. x \in 0 .. p - 1 /\ x \in Back(L)
    BY <2>1 DEF Moves
  <2>3. Bound(L, x)
    BY <1>3, <2>2 DEF Moves, Bound
  <2> QED
    BY <2>2, <2>3 DEF Ends
<1> QED
  BY <1>2, <1>3 DEF Ends

LEMMA StackStays ==
    ASSUME body \in Bodies, NEW V, NEW L, NEW t, NEW N, NEW p, NEW m, Moves(L, t, N, p, m),
           NEW q, NEW D, StackOf(q, V, L, D),
           t.call \notin {"bind", "guarded"}, ~(t.call = "stmt" /\ t.id \in Whens)
    PROVE  StackOf(q, V \cup {t}, N, D)
<1>1. Ends(q, N) /\ \A j \in 1 .. Len(q) : From(N, q[j]) = From(L, q[j])
  BY EndsStay DEF StackOf
<1>2. ASSUME NEW w PROVE Seen(w, V \cup {t}) = Seen(w, V)
  BY CallsAre DEF Seen
<1> QED
  BY <1>1, <1>2 DEF StackOf

(* The guarded call that is next is of the innermost `when`, and of none   *)
(* of the others.                                                          *)
LEMMA InnermostGuards ==
    ASSUME body \in Bodies, NEW V, NEW L, Visits(V, L), Owned(L),
           NEW t, NEW N, NEW p, NEW m, Moves(L, t, N, p, m),
           NEW q, Ends(q, L), t.call = "guarded"
    PROVE  /\ 1 \in 1 .. Len(q) /\ t.id \in GuardedBy(From(L, q[1]).id)
           /\ \A j \in 1 .. Len(q) : j # 1 => t.id \notin GuardedBy(From(L, q[j]).id)
<1>1. PICK n : n = Len(q) /\ n \in Nat /\ p \in Nat
  <2>1. q \in Seq(Nat) /\ p \in Nat
    BY DEF Ends, Moves
  <2> QED
    BY <2>1
<1>2. PICK x \in Back(L) : Owner(L, x, p)
  <2>1. p \in Back(L)
    BY <1>1 DEF Moves
  <2> QED
    BY <2>1 DEF Owned, Moves
<1>3. PICK i \in 1 .. n : q[i] = x
  BY <1>1, <1>2 DEF Owner, Ends, Bound
<1>4. i = 1
  <2>1. SUFFICES ASSUME i # 1 PROVE FALSE
    OBVIOUS
  <2>2. 1 \in 1 .. n /\ 1 < i
    BY <1>1, <2>1
  <2>3. q[i] < q[1] /\ q[1] \in Back(L) /\ Bound(L, q[1])
    BY <1>1, <2>2 DEF Ends
  <2>4. q[1] \in x + 1 .. p
    BY <1>1, <1>2, <1>3, <2>3 DEF Moves
  <2> QED
    BY <1>2, <2>3, <2>4 DEF Owner, Bound
<1>5. 1 \in 1 .. n /\ q[1] = x
  BY <1>1, <1>3, <1>4
<1>6. Under(t) \subseteq GuardedBy(From(L, x).id) /\ t.id \in Under(t)
  BY <1>2 DEF Owner, Moves, Under
<1>7. ASSUME NEW j \in 1 .. n
      PROVE  /\ q[j] \in Back(L) /\ From(L, q[j]) \in Proper /\ From(L, q[j]).call = "bind"
             /\ From(L, q[j]).id \in Whens /\ From(L, q[j]) = Call("bind", From(L, q[j]).id)
  <2>1. q[j] \in Back(L) /\ From(L, q[j]).call = "bind"
    BY <1>1, <1>7 DEF Ends, Bound
  <2>2. L \in Seq(Due) /\ Members(L) \subseteq Proper
    BY DEF Visits
  <2>3. From(L, q[j]) \in Proper
    BY <2>1, <2>2, PlacesBack
  <2>4. From(L, q[j]).id \in Whens
    BY <2>1, <2>3 DEF Proper, InMode
  <2>5. PICK u : u = From(L, q[j]) /\ u \in Due
    BY <2>3 DEF Proper
  <2>6. u = Call("bind", u.id)
    BY <2>1, <2>5, DueAre DEF Call
  <2> QED
    BY <2>1, <2>3, <2>4, <2>5, <2>6
<1>8. ASSUME NEW j \in 1 .. n, j # 1, t.id \in GuardedBy(From(L, q[j]).id)
      PROVE  FALSE
  <2>1. PICK v, w : v = From(L, q[j]).id /\ w = From(L, q[1]).id
    OBVIOUS
  <2>2. v \in Whens /\ w \in Whens /\ From(L, q[j]) = Call("bind", v) /\ From(L, q[1]) = Call("bind", w)
    BY <1>5, <1>7, <2>1
  <2>3. GuardedBy(v) \cap GuardedBy(w) # {}
    BY <1>5, <1>6, <1>8, <2>1
  <2>4. v = w
    BY <2>2, <2>3, GuardedByOne
  <2>5. From(L, q[j]) = From(L, q[1])
    BY <2>2, <2>4
  <2>6. q[j] = q[1]
    BY <1>5, <1>7, <2>5, PlacesBack DEF Visits
  <2>7. 1 < j /\ q[j] < q[1]
    BY <1>1, <1>5, <1>8 DEF Ends
  <2>8. q[j] \in Nat /\ q[1] \in Nat
    BY <1>1, <1>5, <1>7 DEF Moves
  <2> QED
    BY <2>6, <2>7, <2>8
<1> QED
  BY <1>1, <1>5, <1>6, <1>8

(* A guarded statement adds the local it binds to the innermost set.       *)
LEMMA StackBinds ==
    ASSUME body \in Bodies, NEW V, NEW L, Visits(V, L), Owned(L),
           NEW t, NEW N, NEW p, NEW m, Moves(L, t, N, p, m),
           NEW q, NEW D, StackOf(q, V, L, D), t.call = "guarded"
    PROVE  StackOf(q, V \cup {t}, N, [D EXCEPT ![1] = @ \cup Binds(body.stmts[t.id])])
<1>1. PICK E : E = [D EXCEPT ![1] = @ \cup Binds(body.stmts[t.id])]
  OBVIOUS
<1>2. PICK n : n = Len(q)
  OBVIOUS
<1>3. n \in Nat /\ Len(D) = n /\ D \in Seq(SUBSET Val)
  <2>1. q \in Seq(Nat) /\ Len(D) = Len(q) /\ D \in Seq(SUBSET Val)
    BY DEF StackOf, Ends
  <2> QED
    BY <1>2, <2>1
<1>4. /\ 1 \in 1 .. n /\ t.id \in GuardedBy(From(L, q[1]).id)
      /\ \A j \in 1 .. n : j # 1 => t.id \notin GuardedBy(From(L, q[j]).id)
  BY <1>2, InnermostGuards DEF StackOf
<1>5. Ends(q, N) /\ \A j \in 1 .. n : From(N, q[j]) = From(L, q[j])
  BY <1>2, EndsStay DEF StackOf
<1>6. t = Call("guarded", t.id)
  <2>1. t \in Due
    BY DEF Moves
  <2> QED
    BY <2>1, DueAre DEF Call
<1>7. ASSUME NEW w, t.id \in GuardedBy(w)
      PROVE  Seen(w, V \cup {t}) = Seen(w, V) \cup {t.id}
  BY <1>6, <1>7, CallsAre DEF Seen
<1>8. ASSUME NEW w, t.id \notin GuardedBy(w)
      PROVE  Seen(w, V \cup {t}) = Seen(w, V)
  BY <1>6, <1>8, CallsAre DEF Seen
<1>9. t.id \in DOMAIN body.stmts
  BY DueAre DEF Moves
<1>10. \A S : Roots(S \cup {t.id}) = Roots(S) \cup Binds(body.stmts[t.id])
  BY <1>9 DEF Roots, Binds, Equations
<1>11. D[1] \cup Binds(body.stmts[t.id]) = Roots(Seen(From(L, q[1]).id, V \cup {t}))
  BY <1>2, <1>4, <1>7, <1>10 DEF StackOf
<1>12. D[1] \cup Binds(body.stmts[t.id]) \in SUBSET Val
  BY <1>11, RootsTyped
<1>13. /\ E \in Seq(SUBSET Val) /\ Len(E) = n
       /\ \A j \in 1 .. n : E[j] = IF j = 1 THEN D[1] \cup Binds(body.stmts[t.id]) ELSE D[j]
  <2>1. PICK a : a = D[1] \cup Binds(body.stmts[t.id])
    OBVIOUS
  <2>2. E = [D EXCEPT ![1] = a] /\ a \in SUBSET Val
    BY <1>1, <1>12, <2>1
  <2>3. /\ E \in Seq(SUBSET Val) /\ Len(E) = Len(D)
        /\ \A j \in 1 .. Len(D) : E[j] = IF j = 1 THEN a ELSE D[j]
    BY <1>3, <1>4, <2>2, Replaced
  <2> QED
    BY <1>3, <2>1, <2>3
<1>14. ASSUME NEW j \in 1 .. n
       PROVE  E[j] = Roots(Seen(From(N, q[j]).id, V \cup {t}))
  <2>1. CASE j = 1
    BY <1>4, <1>5, <1>11, <1>13, <2>1
  <2>2. CASE j # 1
    <3>1. E[j] = D[j] /\ D[j] = Roots(Seen(From(L, q[j]).id, V))
      BY <1>2, <1>13, <2>2 DEF StackOf
    <3>2. Seen(From(L, q[j]).id, V \cup {t}) = Seen(From(L, q[j]).id, V)
      BY <1>4, <1>8, <2>2
    <3> QED
      BY <1>5, <3>1, <3>2
  <2> QED
    BY <2>1, <2>2
<1>15. StackOf(q, V \cup {t}, N, E)
  BY <1>2, <1>5, <1>13, <1>14 DEF StackOf
<1> QED
  BY <1>1, <1>15

(* A `when` begins a set, with nothing of it seen.                         *)
LEMMA Pushed ==
    ASSUME NEW T, NEW p \in T, NEW q \in Seq(T), NEW r, r = <<p>> \o q
    PROVE  /\ r \in Seq(T) /\ Len(r) = Len(q) + 1 /\ Len(q) \in Nat /\ r[1] = p
           /\ \A j \in 1 .. Len(q) : r[j + 1] = q[j]
<1>1. PICK s : s = <<p>>
  OBVIOUS
<1>2. s \in Seq(T)
  BY <1>1
<1>3. Len(s) = 1 /\ s[1] = p
  BY <1>1
<1>4. r = s \o q
  BY <1>1
<1> HIDE <1>1
<1>5. /\ Len(s \o q) = Len(s) + Len(q) /\ s \o q \in Seq(T) /\ Len(q) \in Nat
      /\ \A i \in 1 .. Len(s) : (s \o q)[i] = s[i]
      /\ \A i \in Len(s) + 1 .. Len(s) + Len(q) : (s \o q)[i] = q[i - Len(s)]
  BY <1>2, JoinedLists
<1>6. /\ Len(r) = 1 + Len(q) /\ r \in Seq(T) /\ Len(q) \in Nat /\ r[1] = p
      /\ \A i \in 2 .. 1 + Len(q) : r[i] = q[i - 1]
  BY <1>3, <1>4, <1>5
<1>7. ASSUME NEW j \in 1 .. Len(q)
      PROVE  r[j + 1] = q[j]
  <2>1. j + 1 \in 2 .. 1 + Len(q) /\ j + 1 - 1 = j
    BY <1>6
  <2> QED
    BY <1>6, <2>1
<1> QED
  BY <1>6, <1>7

LEMMA StackBegins ==
    ASSUME body \in Bodies, NEW V, NEW L, Visits(V, L),
           NEW t, NEW N, NEW p, NEW m, Moves(L, t, N, p, m),
           NEW q, NEW D, StackOf(q, V, L, D), t.call = "stmt", t.id \in Whens
    PROVE  StackOf(<<p>> \o q, V \cup {t}, N, <<{}>> \o D)
<1>1. PICK r, E, n : r = <<p>> \o q /\ E = <<{}>> \o D /\ n = Len(q)
  OBVIOUS
<1>2. p \in Nat /\ q \in Seq(Nat) /\ D \in Seq(SUBSET Val) /\ Len(D) = n /\ {} \in SUBSET Val
  BY <1>1 DEF Moves, StackOf, Ends
<1>3. /\ r \in Seq(Nat) /\ Len(r) = n + 1 /\ n \in Nat /\ r[1] = p
      /\ \A j \in 1 .. n : r[j + 1] = q[j]
  BY <1>1, <1>2, Pushed
<1>4. /\ E \in Seq(SUBSET Val) /\ Len(E) = n + 1 /\ E[1] = {}
      /\ \A j \in 1 .. n : E[j + 1] = D[j]
  BY <1>1, <1>2, Pushed
<1>5. /\ m = 3 /\ Made(t)[1].call = "expr"
      /\ Made(t)[2] = Call("collect", body.stmts[t.id].block)
      /\ Made(t)[3] = Call("bind", t.id)
  BY WhenCalls DEF Moves
<1>6. From(N, p) = Call("bind", t.id) /\ ~Bound(N, p + 1) /\ ~Bound(N, p + 2)
  <2>1. /\ p \in p .. p + m - 1 /\ p + 1 \in p .. p + m - 1 /\ p + 2 \in p .. p + m - 1
        /\ m + p - p = 3 /\ m + p - (p + 1) = 2 /\ m + p - (p + 2) = 1
    BY <1>2, <1>5
  <2>2. From(N, p) = Made(t)[3] /\ From(N, p + 1) = Made(t)[2] /\ From(N, p + 2) = Made(t)[1]
    <3>1. \A x \in p .. p + m - 1 : From(N, x) = Made(t)[m + p - x]
      BY DEF Moves
    <3> QED
      BY <2>1, <3>1
  <2> QED
    BY <1>5, <2>2, CallsAre DEF Bound
<1>7. Back(N) = 0 .. p + 2 /\ Back(L) = 0 .. p
  <2>1. p + m - 1 = p + 2
    BY <1>2, <1>5
  <2> QED
    BY <2>1 DEF Moves
<1>8. ASSUME NEW j \in 1 .. n
      PROVE  /\ q[j] \in 0 .. p - 1 /\ From(N, q[j]) = From(L, q[j]) /\ Bound(N, q[j])
  <2>1. q[j] \in 0 .. p /\ Bound(L, q[j])
    BY <1>1, <1>7 DEF StackOf, Ends
  <2>2. q[j] # p
    BY <2>1 DEF Moves, Bound
  <2>3. q[j] \in 0 .. p - 1
    BY <1>2, <2>1, <2>2
  <2>4. From(N, q[j]) = From(L, q[j])
    BY <2>3 DEF Moves
  <2> QED
    BY <2>1, <2>3, <2>4 DEF Bound
<1>9. \A j \in 1 .. n + 1 : j = 1 \/ (j - 1 \in 1 .. n /\ r[j] = q[j - 1] /\ E[j] = D[j - 1])
  <2>1. ASSUME NEW j \in 1 .. n + 1, j # 1
        PROVE  j - 1 \in 1 .. n /\ j = (j - 1) + 1
    BY <1>3, <2>1
  <2> QED
    BY <1>3, <1>4, <2>1
<1>10. ASSUME NEW x \in Back(N), Bound(N, x)
       PROVE  \E j \in 1 .. n + 1 : r[j] = x
  <2>1. x = p \/ x \in 0 .. p - 1
    <3>1. x \in 0 .. p + 2 /\ x # p + 1 /\ x # p + 2
      BY <1>6, <1>7, <1>10
    <3> QED
      BY <1>2, <3>1
  <2>2. CASE x = p
    <3>1. 1 \in 1 .. n + 1
      BY <1>3
    <3> QED
      BY <1>3, <2>2, <3>1
  <2>3. CASE x \in 0 .. p - 1
    <3>1. x \in Back(L) /\ From(N, x) = From(L, x)
      BY <1>2, <1>7, <2>3 DEF Moves
    <3>2. Bound(L, x)
      BY <1>10, <3>1 DEF Bound
    <3>3. PICK j \in 1 .. n : q[j] = x
      BY <1>1, <3>1, <3>2 DEF StackOf, Ends
    <3>4. j + 1 \in 1 .. n + 1 /\ r[j + 1] = x
      BY <1>3, <3>3
    <3> QED
      BY <3>4
  <2> QED
    BY <2>1, <2>2, <2>3
<1>11. ASSUME NEW i \in 1 .. n + 1, NEW j \in 1 .. n + 1, i < j
       PROVE  r[j] < r[i]
  <2>1. j # 1 /\ j - 1 \in 1 .. n /\ r[j] = q[j - 1]
    BY <1>3, <1>9, <1>11
  <2>2. CASE i = 1
    BY <1>2, <1>3, <1>8, <2>1, <2>2
  <2>3. CASE i # 1
    <3>1. i - 1 \in 1 .. n /\ r[i] = q[i - 1] /\ i - 1 < j - 1
      BY <1>3, <1>9, <1>11, <2>3
    <3> QED
      BY <1>1, <2>1, <3>1 DEF StackOf, Ends
  <2> QED
    BY <2>2, <2>3
<1>12. ASSUME NEW j \in 1 .. n + 1
       PROVE  r[j] \in Back(N) /\ Bound(N, r[j])
  <2>1. CASE j = 1
    <3>1. r[j] = p /\ p \in Back(N)
      BY <1>2, <1>3, <1>7, <2>1
    <3> QED
      BY <1>6, <3>1, CallsAre DEF Bound
  <2>2. CASE j # 1
    <3>1. j - 1 \in 1 .. n /\ r[j] = q[j - 1]
      BY <1>9, <2>2
    <3>2. q[j - 1] \in 0 .. p - 1 /\ Bound(N, q[j - 1])
      BY <1>8, <3>1
    <3> QED
      BY <1>2, <1>7, <3>1, <3>2
  <2> QED
    BY <2>1, <2>2
<1>13. Ends(r, N)
  BY <1>3, <1>10, <1>11, <1>12 DEF Ends
<1>14. ASSUME NEW w PROVE Seen(w, V \cup {t}) = Seen(w, V)
  BY CallsAre DEF Seen
<1>15. Seen(t.id, V) = {}
  <2>1. t = Call("stmt", t.id) /\ t \in Proper /\ t \in Members(L) /\ t.id \in Whens \ BelowWhen
    <3>1. t \in Due /\ t \in Proper /\ t \in Members(L)
      BY DEF Moves
    <3> QED
      BY <3>1, DueAre DEF Proper, InMode, Call
  <2>2. PICK k : k = body.stmts[t.id].block /\ k \in DOMAIN body.blocks /\ k \in GuardedBlocks
    BY <2>1, WhenBlocks
  <2>3. Call("collect", k) \in Makes(t)
    BY <2>1, <2>2, GuardedCallsAre
  <2>4. t \notin V
    BY <2>1 DEF Visits
  <2>5. Call("collect", k) \notin V \cup Members(L)
    BY <2>1, <2>3, <2>4 DEF Visits
  <2>6. \A s \in Guarded[k] : Call("guarded", s) \notin V
    BY <2>2, <2>5, NoneSeen
  <2> QED
    BY <2>2, <2>6 DEF Seen, GuardedBy
<1>16. ASSUME NEW j \in 1 .. n + 1
       PROVE  E[j] = Roots(Seen(From(N, r[j]).id, V \cup {t}))
  <2>1. CASE j = 1
    <3>1. From(N, r[j]).id = t.id
      BY <1>3, <1>6, <2>1, CallsAre
    <3>2. Roots({}) = {}
      BY DEF Roots
    <3> QED
      BY <1>4, <1>14, <1>15, <2>1, <3>1, <3>2
  <2>2. CASE j # 1
    <3>1. PICK i : i \in 1 .. n /\ r[j] = q[i] /\ E[j] = D[i]
      BY <1>9, <2>2
    <3>2. D[i] = Roots(Seen(From(L, q[i]).id, V))
      BY <1>1, <3>1 DEF StackOf
    <3> QED
      BY <1>8, <1>14, <3>1, <3>2
  <2> QED
    BY <2>1, <2>2
<1>17. StackOf(r, V \cup {t}, N, E)
  BY <1>3, <1>4, <1>13, <1>16 DEF StackOf
<1> QED
  BY <1>1, <1>17

LEMMA Popped ==
    ASSUME NEW T, NEW q \in Seq(T), q # <<>>
    PROVE  /\ Tail(q) \in Seq(T) /\ Len(q) \in Nat /\ Len(Tail(q)) = Len(q) - 1 /\ Head(q) = q[1]
           /\ \A j \in 1 .. Len(q) - 1 : Tail(q)[j] = q[j + 1]
  OBVIOUS

(* At the end of a `when` all that it guards is seen: what is still due is *)
(* of the `when`s around it.                                               *)
LEMMA GuardedAreSeen ==
    ASSUME body \in Bodies, NEW V, NEW L, Visits(V, L), Owned(L),
           NEW t, NEW N, NEW p, NEW m, Moves(L, t, N, p, m), t.call = "bind"
    PROVE  t.id \in Whens /\ Seen(t.id, V) = GuardedBy(t.id)
<1>1. PICK w : w = t.id
  OBVIOUS
<1>2. t = Call("bind", w) /\ t \in Proper /\ t \in Members(L) /\ w \in Whens \ BelowWhen
  <2>1. t \in Due /\ t \in Proper /\ t \in Members(L)
    BY DEF Moves
  <2> QED
    BY <1>1, <2>1, DueAre DEF Proper, InMode, Call
<1>3. Call("stmt", w) \in Proper /\ t \in Makes(Call("stmt", w))
      /\ Call("collect", body.stmts[w].block) \in Makes(Call("stmt", w))
  BY <1>2, GuardedCallsAre
<1>4. Call("stmt", w) \in V
  BY <1>2, <1>3 DEF Visits
<1>5. Call("collect", body.stmts[w].block) \in V \cup Members(L)
  BY <1>3, <1>4 DEF Visits
<1>6. ASSUME NEW u \in Members(L)
      PROVE  Under(u) \cap GuardedBy(w) = {}
  <2>1. CASE u.call \notin {"collect", "guarded"}
    BY <2>1 DEF Under
  <2>2. CASE u.call \in {"collect", "guarded"}
    <3>1. L \in Seq(Due) /\ Members(L) \subseteq Proper /\ Distinct(L)
      BY DEF Visits
    <3>2. PICK y \in Back(L) : From(L, y) = u
      BY <3>1, PlacesBack
    <3>3. PICK x \in Back(L) : Owner(L, x, y)
      BY <2>2, <3>2 DEF Owned
    <3>4. PICK a, v : a = From(L, x) /\ v = a.id
      OBVIOUS
    <3>5. a \in Proper /\ a \in Due /\ a.call = "bind"
      BY <3>1, <3>3, <3>4, PlacesBack DEF Owner
    <3>6. v \in Whens /\ a = Call("bind", v)
      BY <3>4, <3>5, DueAre DEF Proper, InMode, Call
    <3>7. x # p
      <4>1. x < y /\ x \in 0 .. p /\ y \in 0 .. p /\ p \in Nat
        BY <3>3 DEF Owner, Moves
      <4> QED
        BY <4>1
    <3>8. a # t
      <4>1. p \in Back(L) /\ From(L, p) = t
        BY DEF Moves
      <4> QED
        BY <3>1, <3>3, <3>4, <3>7, <4>1, PlacesBack
    <3>9. v # w
      BY <1>2, <3>6, <3>8
    <3>10. GuardedBy(v) \cap GuardedBy(w) = {}
      BY <1>2, <3>6, <3>9, GuardedByOne
    <3>11. Under(u) \subseteq GuardedBy(v)
      BY <3>2, <3>3, <3>4 DEF Owner
    <3> QED
      BY <3>10, <3>11
  <2> QED
    BY <2>1, <2>2
<1>7. \A s \in GuardedBy(w) : Call("guarded", s) \in V
  BY <1>2, <1>5, <1>6, AllSeen
<1> QED
  BY <1>1, <1>2, <1>7 DEF Seen

LEMMA StackEnds ==
    ASSUME body \in Bodies, NEW V, NEW L, Visits(V, L), Owned(L),
           NEW t, NEW N, NEW p, NEW m, Moves(L, t, N, p, m),
           NEW q, NEW D, StackOf(q, V, L, D), t.call = "bind"
    PROVE  /\ StackOf(Tail(q), V \cup {t}, N, Tail(D))
           /\ Head(D) = Roots(GuardedBy(t.id)) /\ t.id \in Whens
<1>1. PICK r, E, n : r = Tail(q) /\ E = Tail(D) /\ n = Len(q) - 1
  OBVIOUS
<1>2. q \in Seq(Nat) /\ D \in Seq(SUBSET Val) /\ Len(D) = Len(q) /\ Len(q) \in Nat /\ p \in Nat
  <2>1. q \in Seq(Nat) /\ D \in Seq(SUBSET Val) /\ Len(D) = Len(q) /\ p \in Nat
    BY DEF StackOf, Ends, Moves
  <2> QED
    BY <2>1
<1>3. Back(L) = 0 .. p /\ p \in Back(L) /\ Bound(L, p) /\ From(L, p) = t
  BY <1>2 DEF Moves, Bound
<1>4. PICK i \in 1 .. Len(q) : q[i] = p
  BY <1>3 DEF StackOf, Ends
<1>5. i = 1
  <2>1. SUFFICES ASSUME i # 1 PROVE FALSE
    OBVIOUS
  <2>2. 1 \in 1 .. Len(q) /\ 1 < i
    BY <1>2, <1>4, <2>1
  <2>3. q[i] < q[1] /\ q[1] \in 0 .. p
    BY <1>3, <2>2 DEF StackOf, Ends
  <2> QED
    BY <1>2, <1>4, <2>3
<1>6. 1 \in 1 .. Len(q) /\ q[1] = p
  BY <1>2, <1>4, <1>5
<1>7. q # <<>> /\ D # <<>>
  BY <1>2, <1>6
<1>8. /\ r \in Seq(Nat) /\ Len(r) = n /\ n \in Nat
      /\ \A j \in 1 .. n : r[j] = q[j + 1]
  <2>1. /\ r \in Seq(Nat) /\ Len(r) = Len(q) - 1
        /\ \A j \in 1 .. Len(q) - 1 : r[j] = q[j + 1]
    BY <1>1, <1>2, <1>7, Popped
  <2> QED
    BY <1>1, <1>2, <1>6, <2>1
<1>9. /\ E \in Seq(SUBSET Val) /\ Len(E) = n /\ Head(D) = D[1]
      /\ \A j \in 1 .. n : E[j] = D[j + 1]
  <2>1. /\ E \in Seq(SUBSET Val) /\ Len(E) = Len(D) - 1 /\ Head(D) = D[1]
        /\ \A j \in 1 .. Len(D) - 1 : E[j] = D[j + 1]
    BY <1>1, <1>2, <1>7, Popped
  <2> QED
    BY <1>1, <1>2, <2>1
<1>10. \A x \in p .. p + m - 1 : FALSE
  <2>1. t \in Proper /\ t \in Due /\ m = Len(Made(t))
    BY DEF Moves
  <2>2. m = 0
    <3>1. Made(t) = <<>>
      BY DEF Made
    <3> QED
      BY <2>1, <3>1
  <2> QED
    BY <1>2, <2>2
<1>11. Back(N) = 0 .. p - 1
  <2>1. m = 0
    <3>1. m \in Nat /\ (m > 0 => p \in p .. p + m - 1)
      BY <1>2 DEF Moves
    <3> QED
      BY <1>10, <3>1
  <2>2. p + m - 1 = p - 1
    BY <1>2, <2>1
  <2> QED
    BY <2>2 DEF Moves
<1>12. ASSUME NEW j \in 1 .. n
       PROVE  /\ j + 1 \in 1 .. Len(q) /\ r[j] = q[j + 1] /\ r[j] \in 0 .. p - 1
              /\ From(N, r[j]) = From(L, r[j]) /\ Bound(N, r[j])
  <2>1. j + 1 \in 1 .. Len(q) /\ r[j] = q[j + 1] /\ 1 < j + 1
    BY <1>1, <1>2, <1>8
  <2>2. q[j + 1] < q[1] /\ q[j + 1] \in 0 .. p /\ Bound(L, q[j + 1])
    BY <1>3, <1>6, <2>1 DEF StackOf, Ends
  <2>3. r[j] \in 0 .. p - 1
    BY <1>2, <1>6, <2>1, <2>2
  <2>4. From(N, r[j]) = From(L, r[j])
    BY <2>3 DEF Moves
  <2> QED
    BY <2>1, <2>2, <2>3, <2>4 DEF Bound
<1>13. ASSUME NEW x \in Back(N), Bound(N, x)
       PROVE  \E j \in 1 .. n : r[j] = x
  <2>1. x \in 0 .. p - 1 /\ x \in Back(L) /\ x # p
    BY <1>2, <1>3, <1>11, <1>13
  <2>2. Bound(L, x)
    BY <1>13, <2>1 DEF Moves, Bound
  <2>3. PICK j \in 1 .. Len(q) : q[j] = x
    BY <2>1, <2>2 DEF StackOf, Ends
  <2>4. j # 1
    BY <1>6, <2>1, <2>3
  <2>5. j - 1 \in 1 .. n /\ (j - 1) + 1 = j
    BY <1>1, <1>2, <2>3, <2>4
  <2> QED
    BY <1>8, <2>3, <2>5
<1>14. ASSUME NEW a \in 1 .. n, NEW b \in 1 .. n, a < b
       PROVE  r[b] < r[a]
  <2>1. a + 1 \in 1 .. Len(q) /\ b + 1 \in 1 .. Len(q) /\ a + 1 < b + 1
    BY <1>1, <1>2, <1>14
  <2>2. q[b + 1] < q[a + 1]
    BY <2>1 DEF StackOf, Ends
  <2> QED
    BY <1>8, <2>2
<1>15. Ends(r, N)
  BY <1>8, <1>11, <1>12, <1>13, <1>14 DEF Ends
<1>16. ASSUME NEW w PROVE Seen(w, V \cup {t}) = Seen(w, V)
  BY CallsAre DEF Seen
<1>17. ASSUME NEW j \in 1 .. n
       PROVE  E[j] = Roots(Seen(From(N, r[j]).id, V \cup {t}))
  <2>1. PICK k : k = j + 1 /\ k \in 1 .. Len(q) /\ r[j] = q[k] /\ E[j] = D[k]
    BY <1>9, <1>12
  <2>2. D[k] = Roots(Seen(From(L, q[k]).id, V))
    BY <2>1 DEF StackOf
  <2> QED
    BY <1>12, <1>16, <2>1, <2>2
<1>18. StackOf(r, V \cup {t}, N, E)
  BY <1>8, <1>9, <1>15, <1>17 DEF StackOf
<1>19. Head(D) = Roots(GuardedBy(t.id)) /\ t.id \in Whens
  <2>1. D[1] = Roots(Seen(From(L, q[1]).id, V))
    BY <1>6 DEF StackOf
  <2> QED
    BY <1>3, <1>6, <1>9, <2>1, GuardedAreSeen
<1> QED
  BY <1>1, <1>18, <1>19

----------------------------------------------------------------------------
(* What is counted: one path for each place of the local.                  *)
PlacesOf(a, l, es, which) == {<<a, j>> : j \in {j \in which : PlaceOf[es[j]].local = l}}
LEMMA PathsCounted ==
    ASSUME body \in Bodies, NEW es \in Seq(Nat), NEW which, which \subseteq DOMAIN es, NEW l, NEW a,
           \A k \in which : es[k] \in DOMAIN body.exprs
    PROVE  /\ IsFiniteSet(PlacesOf(a, l, es, which))
           /\ Len(Paths(l, es, which)) = Cardinality(PlacesOf(a, l, es, which))
<1>1. PICK P, n : /\ \A i \in 0 .. n : P[i] = PathsIn(l, es, which, P, i) /\ P[i] \in Seq(Path)
                  /\ Paths(l, es, which) = P[n] /\ n = Len(es)
  <2>1. \A k \in DOMAIN es : k \in which => es[k] \in DOMAIN body.exprs
    OBVIOUS
  <2>2. PICK P : /\ \A i \in 0 .. Len(es) : P[i] = PathsIn(l, es, which, P, i) /\ P[i] \in Seq(Path)
                 /\ Paths(l, es, which) = P[Len(es)]
    BY <2>1, PathsDefined
  <2>3. PICK n : n = Len(es)
    OBVIOUS
  <2> QED
    BY <2>2, <2>3
<1>2. n \in Nat /\ DOMAIN es = 1 .. n
  BY <1>1
<1>3. PICK W : W = {j \in which : PlaceOf[es[j]].local = l}
  OBVIOUS
<1>4. W \subseteq 1 .. n /\ \A j : j \in W <=> j \in which /\ PlaceOf[es[j]].local = l
  BY <1>2, <1>3
<1> DEFINE U(i) == {<<a, j>> : j \in W \cap 1 .. i}
<1>5. PICK G : G = {i \in 0 .. n : IsFiniteSet(U(i)) /\ Len(P[i]) = Cardinality(U(i))}
  OBVIOUS
<1>6. ASSUME NEW m \in 0 .. n, \A k \in 0 .. m - 1 : k \in G
      PROVE  m \in G
  <2>1. P[m] = PathsIn(l, es, which, P, m)
    BY <1>1
  <2>2. CASE m = 0
    <3>1. U(m) = {}
      BY <2>2
    <3>2. P[m] = <<>>
      BY <2>1, <2>2 DEF PathsIn
    <3>3. Len(P[m]) = 0
      BY <3>2
    <3>4. IsFiniteSet(U(m)) /\ Cardinality(U(m)) = 0
      BY <3>1, FS_EmptySet
    <3> QED
      BY <1>5, <3>3, <3>4
  <2>3. CASE m # 0
    <3>1. PICK k : k = m - 1 /\ k \in 0 .. m - 1 /\ k \in 0 .. n
      BY <1>2, <2>3
    <3>2. IsFiniteSet(U(k)) /\ Len(P[k]) = Cardinality(U(k)) /\ P[k] \in Seq(Path)
      BY <1>1, <1>5, <1>6, <3>1
    <3>3. \A j \in 1 .. n : j \in 1 .. m <=> j \in 1 .. k \/ j = m
      BY <1>2, <3>1
    <3>4. CASE m \in W
      <4>1. U(m) = U(k) \cup {<<a, m>>}
        BY <1>4, <3>3, <3>4
      <4>2. <<a, m>> \notin U(k)
        <5>1. m \notin 1 .. k
          BY <3>1
        <5> QED
          BY <5>1
      <4>3. P[m] = Append(P[k], PlaceOf[es[m]].path)
        BY <1>4, <2>1, <2>3, <3>1, <3>4 DEF PathsIn
      <4>4. Len(P[m]) = Len(P[k]) + 1
        BY <3>2, <4>3
      <4>5. IsFiniteSet(U(m)) /\ Cardinality(U(m)) = Cardinality(U(k)) + 1
        <5> HIDE DEF U
        <5> QED
          BY <3>2, <4>1, <4>2, FS_AddElement
      <4> QED
        BY <1>5, <3>2, <4>4, <4>5
    <3>5. CASE m \notin W
      <4>1. U(m) = U(k)
        BY <1>4, <3>3, <3>5
      <4>2. P[m] = P[k]
        BY <1>4, <2>1, <2>3, <3>1, <3>5 DEF PathsIn
      <4> QED
        BY <1>5, <3>2, <4>1, <4>2
    <3> QED
      BY <3>4, <3>5
  <2> QED
    BY <2>2, <2>3
<1>7. \A m \in 0 .. n : m \in G
  <2> HIDE DEF U
  <2> QED
    BY <1>2, <1>6, AlongTheArena
<1>8. n \in G
  BY <1>2, <1>7
<1>9. W \cap 1 .. n = W
  BY <1>4
<1>10. U(n) = PlacesOf(a, l, es, which)
  BY <1>3, <1>9 DEF PlacesOf
<1> QED
  <2> HIDE DEF U
  <2> QED
    BY <1>1, <1>5, <1>8, <1>10

LEMMA Images ==
    ASSUME NEW n \in Nat, NEW f, DOMAIN f = 1 .. n
    PROVE  IsFiniteSet({f[e] : e \in 1 .. n})
<1>1. PICK T : T = {f[e] : e \in 1 .. n}
  OBVIOUS
<1>2. PICK g : g = [e \in 1 .. n |-> f[e]]
  OBVIOUS
<1>3. g \in Surjection(1 .. n, T)
  BY <1>1, <1>2 DEF Surjection
<1>4. IsFiniteSet(1 .. n)
  BY FS_Interval
<1> QED
  BY <1>1, <1>3, <1>4, FS_Surjection

LEMMA OutsFinite ==
    ASSUME body \in Bodies
    PROVE  IsFiniteSet(Outs) /\ IsFiniteSet(DOMAIN body.stmts)
<1>1. PICK n : n = Len(body.exprs) /\ n \in Nat /\ DOMAIN body.exprs = 1 .. n
  BY TreeOf
<1>2. PICK f : f = [e \in 1 .. n |-> {<<e, i>> : i \in body.exprs[e].outs}]
  OBVIOUS
<1>3. ASSUME NEW e \in 1 .. n
      PROVE  IsFiniteSet(f[e])
  <2>1. PICK x : x = body.exprs[e] /\ x.outs \subseteq DOMAIN x.kids /\ x.kids \in Seq(Nat)
    <3>1. body.exprs[e] \in Expr /\ body.exprs[e].outs \subseteq DOMAIN body.exprs[e].kids
      BY <1>1, ExprRefers
    <3> QED
      BY <3>1 DEF Expr
  <2>2. IsFiniteSet(x.outs)
    <3>1. PICK m : m = Len(x.kids) /\ m \in Nat /\ DOMAIN x.kids = 1 .. m
      BY <2>1
    <3>2. IsFiniteSet(1 .. m)
      BY <3>1, FS_Interval
    <3> QED
      BY <2>1, <3>1, <3>2, FS_Subset
  <2>3. IsFiniteSet({e})
    BY FS_Singleton
  <2>4. IsFiniteSet({e} \X x.outs)
    BY <2>2, <2>3, FS_Product
  <2>5. f[e] = {e} \X x.outs
    BY <1>2, <2>1
  <2> QED
    BY <2>4, <2>5
<1>4. IsFiniteSet({f[e] : e \in 1 .. n})
  <2>1. DOMAIN f = 1 .. n
    BY <1>2
  <2> QED
    BY <1>1, <2>1, Images
<1>5. IsFiniteSet(UNION {f[e] : e \in 1 .. n})
  <2>1. \A T \in {f[e] : e \in 1 .. n} : IsFiniteSet(T)
    BY <1>3
  <2> QED
    BY <1>4, <2>1, FS_UNION
<1>6. Outs = UNION {f[e] : e \in 1 .. n}
  BY <1>1, <1>2 DEF Outs
<1>7. IsFiniteSet(DOMAIN body.stmts)
  <2>1. PICK m : m = Len(body.stmts) /\ m \in Nat /\ DOMAIN body.stmts = 1 .. m
    BY TreeOf
  <2> QED
    BY <2>1, FS_Interval
<1> QED
  BY <1>5, <1>6, <1>7

LEMMA DriversFinite ==
    ASSUME body \in Bodies, NEW l
    PROVE  IsFiniteSet(Drivers(l))
<1>1. PICK S, Z : S = DOMAIN body.stmts /\ Z = {0}
  OBVIOUS
<1>2. PICK R : R = S \X Z
  OBVIOUS
<1>3. IsFiniteSet(R \cup Outs)
  <2>1. IsFiniteSet(S) /\ IsFiniteSet(Z) /\ IsFiniteSet(Outs)
    BY <1>1, OutsFinite, FS_Singleton
  <2>2. IsFiniteSet(R)
    BY <1>2, <2>1, FS_Product
  <2> QED
    BY <2>1, <2>2, FS_Union
<1>4. ASSUME NEW d \in Drivers(l), d \notin Outs
      PROVE  d \in R
  <2>1. \E s \in Equations \cup Whens : d = <<s, 0>>
    BY <1>4 DEF Drivers
  <2>2. PICK s, z : s \in S /\ z \in Z /\ d = <<s, z>>
    BY <1>1, <2>1 DEF Equations, Whens
  <2> QED
    BY <1>2, <2>2
<1>5. Drivers(l) \subseteq R \cup Outs
  BY <1>4
<1> QED
  BY <1>3, <1>5, FS_Subset

----------------------------------------------------------------------------
(* The call that counts a driver, and the drivers a call counts.           *)
Key(d) == IF d[2] # 0 THEN Call("expr", d[1])
          ELSE IF d[1] \in Whens THEN Call("bind", d[1]) ELSE Call("stmt", d[1])
SeenDrivers(V, l) == {d \in Drivers(l) : Key(d) \in V}

OfEquation(d, s, l) == /\ s \in Equations \ BelowWhen /\ PlaceOf[body.stmts[s].lhs].local = l
                       /\ d = <<s, 0>> /\ Key(d) = Call("stmt", s)
OfWhen(d, w, l)     == /\ w \in Whens /\ l \in Roots(GuardedBy(w))
                       /\ d = <<w, 0>> /\ Key(d) = Call("bind", w)
OfOut(d, e, j, l)   == /\ e \in DOMAIN body.exprs /\ j \in body.exprs[e].outs
                       /\ PlaceOf[body.exprs[e].kids[j]].local = l
                       /\ d = <<e, j>> /\ Key(d) = Call("expr", e)

LEMMA KeysOfPairs ==
    /\ \A s : s \in Whens => Key(<<s, 0>>) = Call("bind", s)
    /\ \A s : s \notin Whens => Key(<<s, 0>>) = Call("stmt", s)
    /\ \A e, j : j # 0 => Key(<<e, j>>) = Call("expr", e)
  BY DEF Key

LEMMA OutsAre ==
    ASSUME body \in Bodies
    PROVE  \A o : o \in Outs <=> \E e \in DOMAIN body.exprs : \E j \in body.exprs[e].outs : o = <<e, j>> /\ j # 0
<1>1. ASSUME NEW e \in DOMAIN body.exprs, NEW j \in body.exprs[e].outs
      PROVE  j # 0
  <2>1. body.exprs[e] \in Expr /\ body.exprs[e].outs \subseteq DOMAIN body.exprs[e].kids
    BY ExprRefers
  <2>2. PICK k : k = body.exprs[e].kids /\ k \in Seq(Nat)
    BY <2>1 DEF Expr
  <2>3. j \in DOMAIN k
    BY <2>1, <2>2
  <2> QED
    BY <2>2, <2>3
<1>2. \A o : o \in Outs <=> \E e \in DOMAIN body.exprs : \E j \in body.exprs[e].outs : o = <<e, j>>
  BY DEF Outs
<1> QED
  BY <1>1, <1>2

LEMMA DriversAre ==
    ASSUME body \in Bodies, NEW l \in DOMAIN body.locals
    PROVE  \A d : d \in Drivers(l) <=> \/ \E s : OfEquation(d, s, l)
                                       \/ \E w : OfWhen(d, w, l)
                                       \/ \E e, j : OfOut(d, e, j, l)
<1>1. l # 0
  BY LocalsAreNumbered
<1>2. \A w : l \in Roots(GuardedBy(w)) <=>
                \E s \in Guarded[body.stmts[w].block] \cap Equations : RootLocal[body.stmts[s].lhs] = l
  BY <1>1 DEF Roots, GuardedBy
<1>3. Equations \cap Whens = {}
  BY DEF Equations, Whens
<1>4. ASSUME NEW d
      PROVE  (\E s : OfEquation(d, s, l)) <=>
                d \in {<<s, 0>> : s \in {s \in Equations \ BelowWhen : PlaceOf[body.stmts[s].lhs].local = l}}
  <2>1. \A s \in Equations : Key(<<s, 0>>) = Call("stmt", s)
    BY <1>3, KeysOfPairs
  <2> QED
    BY <2>1 DEF OfEquation
<1>5. ASSUME NEW d
      PROVE  (\E w : OfWhen(d, w, l)) <=>
                d \in {<<w, 0>> : w \in {w \in Whens : \E s \in Guarded[body.stmts[w].block] \cap Equations :
                                            RootLocal[body.stmts[s].lhs] = l}}
  <2>1. \A w \in Whens : Key(<<w, 0>>) = Call("bind", w)
    BY KeysOfPairs
  <2> QED
    BY <1>2, <2>1 DEF OfWhen
<1>6. ASSUME NEW d
      PROVE  (\E e, j : OfOut(d, e, j, l)) <=> d \in {o \in Outs : PlaceOf[Target(o)].local = l}
  <2>1. \A e, j : Target(<<e, j>>) = body.exprs[e].kids[j]
    BY DEF Target
  <2>2. ASSUME NEW e, NEW j, OfOut(d, e, j, l)
        PROVE  d \in Outs /\ PlaceOf[Target(d)].local = l
    <3>1. d \in Outs
      <4>1. j # 0
        BY <2>2, OutsAre DEF OfOut, Outs
      <4> QED
        BY <2>2, <4>1, OutsAre DEF OfOut
    <3>2. Target(d) = body.exprs[e].kids[j]
      BY <2>1, <2>2 DEF OfOut
    <3> QED
      BY <2>2, <3>1, <3>2 DEF OfOut
  <2>3. ASSUME d \in Outs, PlaceOf[Target(d)].local = l
        PROVE  \E e, j : OfOut(d, e, j, l)
    <3>1. PICK e \in DOMAIN body.exprs : \E j \in body.exprs[e].outs : d = <<e, j>> /\ j # 0
      BY <2>3, OutsAre
    <3>2. PICK j \in body.exprs[e].outs : d = <<e, j>> /\ j # 0
      BY <3>1
    <3>3. Target(d) = body.exprs[e].kids[j]
      BY <2>1, <3>2
    <3>4. Key(d) = Call("expr", e)
      BY <3>2, KeysOfPairs
    <3>5. OfOut(d, e, j, l)
      BY <2>3, <3>2, <3>3, <3>4 DEF OfOut
    <3> QED
      BY <3>5
  <2> QED
    BY <2>2, <2>3
<1> QED
  BY <1>4, <1>5, <1>6 DEF Drivers

Gains(t, l) ==
    CASE t.call = "stmt" ->
            Only({<<t.id, 0>>}, t.id \in Equations /\ PlaceOf[body.stmts[t.id].lhs].local = l)
      [] t.call = "bind" -> Only({<<t.id, 0>>}, l \in Roots(GuardedBy(t.id)))
      [] t.call = "expr" ->
            {<<t.id, j>> : j \in {j \in body.exprs[t.id].outs : PlaceOf[body.exprs[t.id].kids[j]].local = l}}
      [] OTHER -> {}

LEMMA GainsAre ==
    ASSUME body \in Bodies, NEW l \in DOMAIN body.locals, NEW t \in Proper
    PROVE  {d \in Drivers(l) : Key(d) = t} = Gains(t, l)
<1>1. t \in Due /\ InMode(t) /\ t = Call(t.call, t.id)
  <2>1. t \in Due /\ InMode(t)
    BY DEF Proper
  <2> QED
    BY <2>1, DueAre DEF Call
<1>2. \A c, i : t = Call(c, i) => t.call = c /\ t.id = i
  BY CallsAre
<1>3. ASSUME NEW d
      PROVE  d \in Drivers(l) /\ Key(d) = t <=> d \in Gains(t, l)
  <2>1. CASE t.call = "stmt"
    <3>1. t.id \notin BelowWhen
      BY <1>1, <2>1 DEF InMode
    <3>2. ASSUME d \in Drivers(l), Key(d) = t
          PROVE  d \in Gains(t, l)
      <4>1. ~ \E w : OfWhen(d, w, l)
        BY <1>2, <2>1, <3>2 DEF OfWhen
      <4>2. ~ \E e, j : OfOut(d, e, j, l)
        BY <1>2, <2>1, <3>2 DEF OfOut
      <4>3. PICK s : OfEquation(d, s, l)
        BY <3>2, <4>1, <4>2, DriversAre
      <4>4. s = t.id
        BY <1>2, <3>2, <4>3 DEF OfEquation
      <4> QED
        BY <2>1, <4>3, <4>4 DEF OfEquation, Gains, Only
    <3>3. ASSUME d \in Gains(t, l)
          PROVE  d \in Drivers(l) /\ Key(d) = t
      <4>1. d = <<t.id, 0>> /\ t.id \in Equations /\ PlaceOf[body.stmts[t.id].lhs].local = l
        BY <2>1, <3>3 DEF Gains, Only
      <4>2. t.id \notin Whens
        BY <4>1 DEF Equations, Whens
      <4>3. Key(d) = Call("stmt", t.id)
        BY <4>1, <4>2, KeysOfPairs
      <4>4. OfEquation(d, t.id, l)
        BY <3>1, <4>1, <4>3 DEF OfEquation
      <4> QED
        BY <1>1, <2>1, <4>3, <4>4, DriversAre
    <3> QED
      BY <3>2, <3>3
  <2>2. CASE t.call = "bind"
    <3>1. t.id \in Whens
      BY <1>1, <2>2 DEF InMode
    <3>2. ASSUME d \in Drivers(l), Key(d) = t
          PROVE  d \in Gains(t, l)
      <4>1. ~ \E s : OfEquation(d, s, l)
        BY <1>2, <2>2, <3>2 DEF OfEquation
      <4>2. ~ \E e, j : OfOut(d, e, j, l)
        BY <1>2, <2>2, <3>2 DEF OfOut
      <4>3. PICK w : OfWhen(d, w, l)
        BY <3>2, <4>1, <4>2, DriversAre
      <4>4. w = t.id
        BY <1>2, <3>2, <4>3 DEF OfWhen
      <4> QED
        BY <2>2, <4>3, <4>4 DEF OfWhen, Gains, Only
    <3>3. ASSUME d \in Gains(t, l)
          PROVE  d \in Drivers(l) /\ Key(d) = t
      <4>1. d = <<t.id, 0>> /\ l \in Roots(GuardedBy(t.id))
        BY <2>2, <3>3 DEF Gains, Only
      <4>2. Key(d) = Call("bind", t.id)
        BY <3>1, <4>1, KeysOfPairs
      <4>3. OfWhen(d, t.id, l)
        BY <3>1, <4>1, <4>2 DEF OfWhen
      <4> QED
        BY <1>1, <2>2, <4>2, <4>3, DriversAre
    <3> QED
      BY <3>2, <3>3
  <2>3. CASE t.call = "expr"
    <3>1. t.id \in DOMAIN body.exprs
      BY <1>1, <2>3, DueAre
    <3>2. ASSUME d \in Drivers(l), Key(d) = t
          PROVE  d \in Gains(t, l)
      <4>1. ~ \E s : OfEquation(d, s, l)
        BY <1>2, <2>3, <3>2 DEF OfEquation
      <4>2. ~ \E w : OfWhen(d, w, l)
        BY <1>2, <2>3, <3>2 DEF OfWhen
      <4>3. PICK e, j : OfOut(d, e, j, l)
        BY <3>2, <4>1, <4>2, DriversAre
      <4>4. e = t.id
        BY <1>2, <3>2, <4>3 DEF OfOut
      <4> QED
        BY <2>3, <4>3, <4>4 DEF OfOut, Gains
    <3>3. ASSUME d \in Gains(t, l)
          PROVE  d \in Drivers(l) /\ Key(d) = t
      <4>1. PICK j \in body.exprs[t.id].outs : d = <<t.id, j>> /\ PlaceOf[body.exprs[t.id].kids[j]].local = l
        BY <2>3, <3>3 DEF Gains
      <4>2. d \in Outs
        BY <3>1, <4>1 DEF Outs
      <4>3. j # 0
        <5>1. PICK e \in DOMAIN body.exprs : \E i \in body.exprs[e].outs : d = <<e, i>> /\ i # 0
          BY <4>2, OutsAre
        <5> QED
          BY <4>1, <5>1
      <4>4. Key(d) = Call("expr", t.id)
        BY <4>1, <4>3, KeysOfPairs
      <4>5. OfOut(d, t.id, j, l)
        BY <3>1, <4>1, <4>4 DEF OfOut
      <4> QED
        BY <1>1, <2>3, <4>4, <4>5, DriversAre
    <3> QED
      BY <3>2, <3>3
  <2>4. CASE t.call \notin {"stmt", "bind", "expr"}
    <3>1. Gains(t, l) = {}
      BY <2>4 DEF Gains
    <3>2. ASSUME d \in Drivers(l), Key(d) = t
          PROVE  FALSE
      <4>1. ~ \E s : OfEquation(d, s, l)
        BY <1>2, <2>4, <3>2 DEF OfEquation
      <4>2. ~ \E w : OfWhen(d, w, l)
        BY <1>2, <2>4, <3>2 DEF OfWhen
      <4>3. ~ \E e, j : OfOut(d, e, j, l)
        BY <1>2, <2>4, <3>2 DEF OfOut
      <4> QED
        BY <3>2, <4>1, <4>2, <4>3, DriversAre
    <3> QED
      BY <3>1, <3>2
  <2> QED
    BY <2>1, <2>2, <2>3, <2>4
<1> QED
  BY <1>3

(* What a call adds to the locals under way, and to what is counted.       *)
DrivenBy(t, D) ==
    CASE t.call = "bind" -> Tail(D)
      [] t.call = "guarded" -> [D EXCEPT ![1] = @ \cup Binds(body.stmts[t.id])]
      [] t.call = "stmt" /\ t.id \in Whens -> <<{}>> \o D
      [] OTHER -> D
Connects(e) == body.exprs[e].op \in {"record", "method", "call"}
Adds(t, D, l) ==
    CASE t.call = "stmt" /\ t.id \in Equations -> Len(Paths(l, <<body.stmts[t.id].lhs>>, {1}))
      [] t.call = "bind" -> IF l \in Head(D) THEN 1 ELSE 0
      [] t.call = "expr" /\ Connects(t.id) -> Len(Paths(l, body.exprs[t.id].kids, body.exprs[t.id].outs))
      [] OTHER -> 0

LEMMA Lengthened ==
    ASSUME NEW T, NEW s \in Seq(T)
    PROVE  /\ Len(s) \in Nat /\ Len(s) + 0 = Len(s)
           /\ \A r \in Seq(T) : Len(s \o r) = Len(s) + Len(r)
           /\ \A x \in T : Len(Append(s, x)) = Len(s) + 1
  OBVIOUS

LEMMA WalkDrives ==
    ASSUME Walking, Walks
    PROVE  /\ driven' = DrivenBy(Next1, driven)
           /\ DOMAIN drives' = DOMAIN body.locals
           /\ \A l \in DOMAIN body.locals : Len(drives'[l]) = Len(drives[l]) + Adds(Next1, driven, l)
<1>1. todo # <<>> /\ Next1 \in Due /\ body \in Bodies
  BY WalkMakes DEF Walking
<1>2. PICK Locals : Locals = DOMAIN body.locals
  OBVIOUS
<1>3. DOMAIN drives = Locals /\ \A l \in Locals : drives[l] \in Seq(Path) /\ Len(drives[l]) \in Nat
                                    /\ Len(drives[l]) + 0 = Len(drives[l])
  <2>1. DOMAIN drives = Locals /\ \A l \in Locals : drives[l] \in Seq(Path)
    BY <1>2 DEF Walking
  <2> QED
    BY <2>1, Lengthened
<1>4. SUFFICES /\ driven' = DrivenBy(Next1, driven)
               /\ DOMAIN drives' = Locals
               /\ \A l \in Locals : Len(drives'[l]) = Len(drives[l]) + Adds(Next1, driven, l)
  BY <1>2
<1>5. ASSUME UNCHANGED drives, \A l : Adds(Next1, driven, l) = 0
      PROVE  DOMAIN drives' = Locals /\ \A l \in Locals : Len(drives'[l]) = Len(drives[l]) + Adds(Next1, driven, l)
  BY <1>3, <1>5
<1>6. ASSUME NEW es \in Seq(DOMAIN body.exprs), NEW which, CountPlaces(es, which)
      PROVE  DOMAIN drives' = Locals /\ \A l \in Locals : Len(drives'[l]) = Len(drives[l]) + Len(Paths(l, es, which))
  <2>1. drives' = [l \in Locals |-> drives[l] \o Paths(l, es, which)]
    BY <1>3, <1>6 DEF CountPlaces
  <2>2. ASSUME NEW l \in Locals
        PROVE  Paths(l, es, which) \in Seq(Path)
    <3>1. es \in Seq(Nat) /\ \A k \in DOMAIN es : es[k] \in DOMAIN body.exprs
      <4>1. DOMAIN body.exprs \subseteq Nat
        BY <1>1, TreeOf
      <4> QED
        BY <4>1
    <3> QED
      BY <1>1, <3>1, PathsTyped
  <2>3. ASSUME NEW l \in Locals
        PROVE  Len(drives'[l]) = Len(drives[l]) + Len(Paths(l, es, which))
    <3>1. drives'[l] = drives[l] \o Paths(l, es, which)
      BY <2>1
    <3>2. Len(drives[l] \o Paths(l, es, which)) = Len(drives[l]) + Len(Paths(l, es, which))
      BY <1>3, <2>2, Lengthened
    <3> QED
      BY <3>1, <3>2
  <2>4. DOMAIN drives' = Locals
    BY <2>1
  <2> QED
    BY <2>3, <2>4
<1>7. CASE CountBlock
  <2>1. Next1.call = "block" /\ UNCHANGED <<driven, drives>>
    BY <1>7 DEF CountBlock
  <2> QED
    BY <1>5, <2>1 DEF DrivenBy, Adds
<1>8. CASE Equation
  <2>1. PICK s : s = body.stmts[Next1.id] /\ s = Stmt1
    BY DEF Stmt1
  <2>2. Next1.call = "stmt" /\ s.op = "equation" /\ CountPlaces(<<s.lhs>>, {1}) /\ UNCHANGED driven
    BY <1>8, <2>1 DEF Equation, AtStmt
  <2>3. Next1.id \in DOMAIN body.stmts /\ Next1.id \in Equations /\ Next1.id \notin Whens
    BY <1>1, <2>1, <2>2, DueAre DEF Equations, Whens
  <2>4. s.lhs \in DOMAIN body.exprs
    BY <1>1, <2>1, <2>2, <2>3, StmtRefers
  <2>5. <<s.lhs>> \in Seq(DOMAIN body.exprs)
    BY <2>4, ShortLists
  <2>6. DOMAIN drives' = Locals /\ \A l \in Locals : Len(drives'[l]) = Len(drives[l]) + Len(Paths(l, <<s.lhs>>, {1}))
    BY <1>6, <2>2, <2>5
  <2>7. \A l : Adds(Next1, driven, l) = Len(Paths(l, <<s.lhs>>, {1}))
    BY <2>1, <2>2, <2>3 DEF Adds
  <2>8. driven' = DrivenBy(Next1, driven)
    BY <2>2, <2>3 DEF DrivenBy
  <2> QED
    BY <2>6, <2>7, <2>8
<1>9. CASE OtherStmt
  <2>1. PICK s : s = body.stmts[Next1.id] /\ s = Stmt1
    BY DEF Stmt1
  <2>2. Next1.call = "stmt" /\ s.op # "equation" /\ UNCHANGED drives
    BY <1>9, <2>1 DEF OtherStmt, AtStmt
  <2>3. Next1.id \in DOMAIN body.stmts /\ Next1.id \notin Equations /\ (Next1.id \in Whens <=> s.op = "when")
    BY <1>1, <2>1, <2>2, DueAre DEF Equations, Whens
  <2>4. \A l : Adds(Next1, driven, l) = 0
    BY <2>2, <2>3 DEF Adds
  <2>5. driven' = DrivenBy(Next1, driven)
    <3>1. s.op = "when" => driven' = <<{}>> \o driven
      BY <1>9, <2>1 DEF OtherStmt, AtStmt
    <3>2. s.op # "when" => driven' = driven
      BY <1>9, <2>1 DEF OtherStmt, AtStmt
    <3> QED
      BY <2>2, <2>3, <3>1, <3>2 DEF DrivenBy
  <2> QED
    BY <1>5, <2>2, <2>4, <2>5
<1>10. CASE CollectWhenDrives
  <2>1. Next1.call = "collect" /\ UNCHANGED <<driven, drives>>
    BY <1>10 DEF CollectWhenDrives
  <2> QED
    BY <1>5, <2>1 DEF DrivenBy, Adds
<1>11. CASE GuardedStmt
  <2>1. Next1.call = "guarded" /\ UNCHANGED drives
        /\ driven' = [driven EXCEPT ![1] = @ \cup Binds(body.stmts[Next1.id])]
    BY <1>11 DEF GuardedStmt, Stmt1
  <2>2. \A l : Adds(Next1, driven, l) = 0
    BY <2>1 DEF Adds
  <2>3. driven' = DrivenBy(Next1, driven)
    BY <2>1 DEF DrivenBy
  <2> QED
    BY <1>5, <2>1, <2>2, <2>3
<1>12. CASE BindWhen
  <2>1. /\ Next1.call = "bind" /\ driven' = Tail(driven)
        /\ drives' = [l \in Locals |-> IF l \in Head(driven) THEN Append(drives[l], <<>>) ELSE drives[l]]
    BY <1>3, <1>12 DEF BindWhen
  <2>2. \A l : Adds(Next1, driven, l) = IF l \in Head(driven) THEN 1 ELSE 0
    BY <2>1 DEF Adds
  <2>3. driven' = DrivenBy(Next1, driven)
    BY <2>1 DEF DrivenBy
  <2>4. <<>> \in Path
    BY DEF Path
  <2>5. ASSUME NEW l \in Locals
        PROVE  Len(drives'[l]) = Len(drives[l]) + Adds(Next1, driven, l)
    <3>1. CASE l \in Head(driven)
      <4>1. drives'[l] = Append(drives[l], <<>>)
        BY <2>1, <3>1
      <4>2. Len(Append(drives[l], <<>>)) = Len(drives[l]) + 1
        BY <1>3, <2>4, Lengthened
      <4> QED
        BY <2>2, <3>1, <4>1, <4>2
    <3>2. CASE l \notin Head(driven)
      BY <1>3, <2>1, <2>2, <3>2
    <3> QED
      BY <3>1, <3>2
  <2>6. DOMAIN drives' = Locals
    BY <2>1
  <2> QED
    BY <2>3, <2>5, <2>6
<1>13. CASE CountExpr
  <2>1. PICK e : e = body.exprs[Next1.id]
    OBVIOUS
  <2>2. Next1.call = "expr" /\ UNCHANGED driven
    BY <1>13 DEF CountExpr
  <2>3. driven' = DrivenBy(Next1, driven)
    BY <2>2 DEF DrivenBy
  <2>4. CASE e.op \in {"record", "method", "call"}
    <3>1. CountPlaces(e.kids, e.outs)
      BY <1>13, <2>1, <2>4 DEF CountExpr
    <3>2. e.kids \in Seq(DOMAIN body.exprs)
      BY <1>1, <2>1, <2>2, <2>4, DueAre, ExprRefers
    <3>3. DOMAIN drives' = Locals /\ \A l \in Locals : Len(drives'[l]) = Len(drives[l]) + Len(Paths(l, e.kids, e.outs))
      BY <1>6, <3>1, <3>2
    <3>4. \A l : Adds(Next1, driven, l) = Len(Paths(l, e.kids, e.outs))
      BY <2>1, <2>2, <2>4 DEF Adds, Connects
    <3> QED
      BY <2>3, <3>3, <3>4
  <2>5. CASE e.op \notin {"record", "method", "call"}
    <3>1. UNCHANGED drives
      BY <1>13, <2>1, <2>5 DEF CountExpr
    <3>2. \A l : Adds(Next1, driven, l) = 0
      BY <2>1, <2>2, <2>5 DEF Adds, Connects
    <3> QED
      BY <1>5, <2>3, <3>1, <3>2
  <2> QED
    BY <2>4, <2>5
<1> QED
  BY <1>7, <1>8, <1>9, <1>10, <1>11, <1>12, <1>13 DEF Walks

(* What a call adds is what it counts.                                     *)
LEMMA AddsAre ==
    ASSUME body \in Bodies, NEW t \in Due, NEW D, NEW l \in DOMAIN body.locals,
           t.call = "bind" => Head(D) = Roots(GuardedBy(t.id))
    PROVE  IsFiniteSet(Gains(t, l)) /\ Adds(t, D, l) = Cardinality(Gains(t, l))
<1>1. ASSUME NEW x, NEW cond \in BOOLEAN
      PROVE  IsFiniteSet(Only({x}, cond)) /\ Cardinality(Only({x}, cond)) = IF cond THEN 1 ELSE 0
  <2>1. IsFiniteSet({x}) /\ Cardinality({x}) = 1 /\ IsFiniteSet({}) /\ Cardinality({}) = 0
    BY FS_Singleton, FS_EmptySet
  <2> QED
    BY <2>1 DEF Only
<1>2. CASE t.call = "bind"
  <2>1. PICK c : c \in BOOLEAN /\ (c <=> l \in Roots(GuardedBy(t.id)))
    OBVIOUS
  <2>2. Gains(t, l) = Only({<<t.id, 0>>}, c)
    BY <1>2, <2>1 DEF Gains, Only
  <2>3. Adds(t, D, l) = IF c THEN 1 ELSE 0
    BY <1>2, <2>1 DEF Adds
  <2> QED
    BY <1>1, <2>1, <2>2, <2>3
<1>3. CASE t.call = "stmt" /\ t.id \in Equations
  <2>1. PICK es : es = <<body.stmts[t.id].lhs>>
    OBVIOUS
  <2>2. body.stmts[t.id].lhs \in DOMAIN body.exprs /\ DOMAIN body.exprs \subseteq Nat
    BY <1>3, StmtRefers, TreeOf DEF Equations
  <2>3. es \in Seq(Nat) /\ DOMAIN es = {1} /\ es[1] = body.stmts[t.id].lhs
    BY <2>1, <2>2
  <2>4. PICK c : c \in BOOLEAN /\ (c <=> PlaceOf[body.stmts[t.id].lhs].local = l)
    OBVIOUS
  <2>5. PICK S : S = PlacesOf(0, l, es, {1})
    OBVIOUS
  <2>6. Len(Paths(l, es, {1})) = Cardinality(S)
    <3>1. {1} \subseteq DOMAIN es /\ \A k \in {1} : es[k] \in DOMAIN body.exprs
      BY <2>2, <2>3
    <3> QED
      BY <2>3, <2>5, <3>1, PathsCounted
  <2>7. S = Only({<<0, 1>>}, c)
    BY <2>3, <2>4, <2>5 DEF Only, PlacesOf
  <2>8. Gains(t, l) = Only({<<t.id, 0>>}, c)
    BY <1>3, <2>4 DEF Gains, Only
  <2>9. Adds(t, D, l) = Len(Paths(l, es, {1}))
    BY <1>3, <2>1 DEF Adds
  <2>10. Cardinality(S) = Cardinality(Gains(t, l)) /\ IsFiniteSet(Gains(t, l))
    BY <1>1, <2>4, <2>7, <2>8
  <2> QED
    BY <2>6, <2>9, <2>10
<1>4. CASE t.call = "stmt" /\ t.id \notin Equations
  <2>1. Gains(t, l) = {} /\ Adds(t, D, l) = 0
    BY <1>4 DEF Gains, Only, Adds
  <2> QED
    BY <2>1, FS_EmptySet
<1>5. CASE t.call = "expr" /\ Connects(t.id)
  <2>1. PICK e, x : e = t.id /\ x = body.exprs[e]
    OBVIOUS
  <2>2. e \in DOMAIN body.exprs /\ x.op \in {"record", "method", "call"}
    BY <1>5, <2>1, DueAre DEF Connects
  <2>3. x.kids \in Seq(DOMAIN body.exprs) /\ x.outs \subseteq DOMAIN x.kids
    BY <2>1, <2>2, ExprRefers
  <2>4. x.kids \in Seq(Nat) /\ \A k \in x.outs : x.kids[k] \in DOMAIN body.exprs
    <3>1. DOMAIN body.exprs \subseteq Nat
      BY TreeOf
    <3> QED
      BY <2>3, <3>1
  <2>5. PICK S : S = PlacesOf(e, l, x.kids, x.outs)
    OBVIOUS
  <2>6. IsFiniteSet(S) /\ Len(Paths(l, x.kids, x.outs)) = Cardinality(S)
    BY <2>3, <2>4, <2>5, PathsCounted
  <2>7. Gains(t, l) = S
    BY <1>5, <2>1, <2>5 DEF Gains, PlacesOf
  <2>8. Adds(t, D, l) = Len(Paths(l, x.kids, x.outs))
    BY <1>5, <2>1 DEF Adds
  <2> QED
    BY <2>6, <2>7, <2>8
<1>6. CASE t.call = "expr" /\ ~Connects(t.id)
  <2>1. body.exprs[t.id].outs = {}
    BY <1>6, DueAre, TreeOf DEF Refers, Connects
  <2>2. Gains(t, l) = {} /\ Adds(t, D, l) = 0
    BY <1>6, <2>1 DEF Gains, Adds
  <2> QED
    BY <2>2, FS_EmptySet
<1>7. CASE t.call \notin {"bind", "stmt", "expr"}
  <2>1. Gains(t, l) = {} /\ Adds(t, D, l) = 0
    BY <1>7 DEF Gains, Adds
  <2> QED
    BY <2>1, FS_EmptySet
<1> QED
  BY <1>2, <1>3, <1>4, <1>5, <1>6, <1>7

LEMMA SeenGrows ==
    ASSUME body \in Bodies, NEW l \in DOMAIN body.locals, NEW V, NEW t \in Proper, t \notin V
    PROVE  /\ Cardinality(SeenDrivers(V, l)) \in Nat /\ Cardinality(Gains(t, l)) \in Nat
           /\ Cardinality(SeenDrivers(V \cup {t}, l)) = Cardinality(SeenDrivers(V, l)) + Cardinality(Gains(t, l))
<1>1. PICK S, G, W : S = SeenDrivers(V, l) /\ G = Gains(t, l) /\ W = SeenDrivers(V \cup {t}, l)
  OBVIOUS
<1>2. G = {d \in Drivers(l) : Key(d) = t}
  BY <1>1, GainsAre
<1>3. W = S \cup G /\ S \cap G = {}
  BY <1>1, <1>2 DEF SeenDrivers
<1>4. S \in SUBSET Drivers(l) /\ G \in SUBSET Drivers(l)
  BY <1>1, <1>2 DEF SeenDrivers
<1>5. IsFiniteSet(S) /\ IsFiniteSet(G)
  BY <1>4, DriversFinite, FS_Subset
<1>6. Cardinality(S) \in Nat /\ Cardinality(G) \in Nat /\ Cardinality({}) = 0
  BY <1>5, FS_CardinalityType, FS_EmptySet
<1>7. Cardinality(S \cup G) = Cardinality(S) + Cardinality(G) - Cardinality(S \cap G)
  BY <1>5, FS_Union
<1>8. Cardinality(W) = Cardinality(S) + Cardinality(G)
  <2>1. PICK s, g, w, c : s = Cardinality(S) /\ g = Cardinality(G) /\ w = Cardinality(W) /\ c = Cardinality(S \cap G)
    OBVIOUS
  <2>2. c = 0
    BY <1>3, <1>6, <2>1
  <2>3. w = s + g - c
    BY <1>3, <1>7, <2>1
  <2>4. w = s + g
    BY <1>6, <2>1, <2>2, <2>3
  <2> QED
    BY <2>1, <2>4
<1> QED
  BY <1>1, <1>6, <1>8

----------------------------------------------------------------------------
(* How far the walk is: the calls made, the ends that are due, and what is *)
(* counted for each local.                                                 *)
CountsOf(V, R) == \A l \in DOMAIN body.locals : Len(R[l]) = Cardinality(SeenDrivers(V, l))
Progress(V, q, L, D, R) == Visits(V, L) /\ Owned(L) /\ StackOf(q, V, L, D) /\ CountsOf(V, R)

LEMMA ProgressAtFirst ==
    ASSUME body \in Bodies, NEW R, \A l \in DOMAIN body.locals : R[l] = <<>>
    PROVE  Progress({}, <<>>, <<Call("block", Top)>>, <<>>, R)
<1>1. PICK L : L = <<Call("block", Top)>>
  OBVIOUS
<1>2. Visits({}, L)
  BY <1>1, VisitsAtFirst
<1>3. Len(L) = 1 /\ L[1] = Call("block", Top)
  BY <1>1
<1>4. Back(L) = {0} /\ From(L, 0) = Call("block", Top)
  <2>1. 0 .. Len(L) - 1 = {0} /\ Len(L) - 0 = 1
    BY <1>3
  <2> QED
    BY <1>3, <2>1 DEF Back, From
<1>5. Owned(L)
  BY <1>4, CallsAre DEF Owned
<1>6. StackOf(<<>>, {}, L, <<>>)
  <2>1. <<>> \in Seq(Nat) /\ Len(<<>>) = 0 /\ <<>> \in Seq(SUBSET Val) /\ \A j \in 1 .. 0 : FALSE
    OBVIOUS
  <2>2. \A x \in Back(L) : ~Bound(L, x)
    BY <1>4, CallsAre DEF Bound
  <2>3. Ends(<<>>, L)
    BY <2>1, <2>2 DEF Ends
  <2> QED
    BY <2>1, <2>3 DEF StackOf
<1>7. CountsOf({}, R)
  <2>1. \A l : SeenDrivers({}, l) = {}
    BY DEF SeenDrivers
  <2>2. Cardinality({}) = 0 /\ Len(<<>>) = 0
    BY FS_EmptySet
  <2> QED
    BY <2>1, <2>2 DEF CountsOf
<1> QED
  BY <1>1, <1>2, <1>5, <1>6, <1>7 DEF Progress

LEMMA StackKept ==
    ASSUME body \in Bodies, NEW V, NEW L, Visits(V, L), Owned(L), L # <<>>,
           NEW t, NEW N, NEW p, NEW m, Moves(L, t, N, p, m),
           NEW q, NEW D, StackOf(q, V, L, D)
    PROVE  /\ \E r : StackOf(r, V \cup {t}, N, DrivenBy(t, D))
           /\ t \in Proper /\ t \notin V
           /\ t.call = "bind" => Head(D) = Roots(GuardedBy(t.id))
<1>2. t \in Proper /\ t \in Members(L)
  BY DEF Moves
<1>3. t \notin V
  BY <1>2 DEF Visits
<1>4. CASE t.call = "bind"
  <2>1. StackOf(Tail(q), V \cup {t}, N, Tail(D)) /\ Head(D) = Roots(GuardedBy(t.id))
    BY <1>4, StackEnds
  <2>2. DrivenBy(t, D) = Tail(D)
    BY <1>4 DEF DrivenBy
  <2> QED
    BY <1>2, <1>3, <2>1, <2>2
<1>5. CASE t.call = "guarded"
  <2>1. StackOf(q, V \cup {t}, N, [D EXCEPT ![1] = @ \cup Binds(body.stmts[t.id])])
    BY <1>5, StackBinds
  <2>2. DrivenBy(t, D) = [D EXCEPT ![1] = @ \cup Binds(body.stmts[t.id])]
    BY <1>5 DEF DrivenBy
  <2> QED
    BY <1>2, <1>3, <1>5, <2>1, <2>2
<1>6. CASE t.call = "stmt" /\ t.id \in Whens
  <2>1. StackOf(<<p>> \o q, V \cup {t}, N, <<{}>> \o D)
    BY <1>6, StackBegins
  <2>2. DrivenBy(t, D) = <<{}>> \o D
    BY <1>6 DEF DrivenBy
  <2> QED
    BY <1>2, <1>3, <1>6, <2>1, <2>2
<1>7. CASE t.call \notin {"bind", "guarded"} /\ ~(t.call = "stmt" /\ t.id \in Whens)
  <2>1. StackOf(q, V \cup {t}, N, D)
    BY <1>7, StackStays
  <2>2. DrivenBy(t, D) = D
    BY <1>7 DEF DrivenBy
  <2> QED
    BY <1>2, <1>3, <1>7, <2>1, <2>2
<1> QED
  BY <1>4, <1>5, <1>6, <1>7

LEMMA WalkProgress ==
    ASSUME Walking, Walks, NEW V, NEW q, Progress(V, q, todo, driven, drives)
    PROVE  \E W, r : Progress(W, r, todo', driven', drives')
<1>1. PICK L, D, R, N, t : /\ L = todo /\ D = driven /\ R = drives /\ N = todo' /\ t = Next1
  OBVIOUS
<1>2. /\ body \in Bodies /\ L # <<>> /\ t = Head(L) /\ N = Made(t) \o Tail(L)
  BY <1>1, WalkMakes DEF Walking, Next1, Rest
<1>3. Visits(V, L) /\ Owned(L) /\ StackOf(q, V, L, D) /\ CountsOf(V, R)
  BY <1>1 DEF Progress
<1>4. PICK p, m : Moves(L, t, N, p, m)
  BY <1>2, <1>3, StepMoves
<1>5. body \in Bodies /\ L # <<>>
  BY <1>2
<1>6. /\ t \in Proper /\ t \notin V
      /\ t.call = "bind" => Head(D) = Roots(GuardedBy(t.id))
  <2>1. t \in Proper /\ t \notin V
    BY <1>3, <1>4, <1>5, StackKept
  <2>2. ASSUME t.call = "bind"
        PROVE  Head(D) = Roots(GuardedBy(t.id))
    <3>1. Visits(V, L) /\ Owned(L) /\ StackOf(q, V, L, D)
      BY <1>3
    <3> QED
      BY <1>4, <1>5, <2>2, <3>1, StackEnds
  <2> QED
    BY <2>1, <2>2
<1>7. PICK r : StackOf(r, V \cup {t}, N, DrivenBy(t, D))
  BY <1>3, <1>4, <1>5, StackKept
<1>8. Visits(V \cup {t}, N)
  BY <1>2, <1>3, VisitsKept
<1>9. Owned(N)
  BY <1>2, <1>3, OwnedKept
<1>10. /\ driven' = DrivenBy(t, D)
      /\ \A l \in DOMAIN body.locals : Len(drives'[l]) = Len(R[l]) + Adds(t, D, l)
  BY <1>1, WalkDrives
<1>11. ASSUME NEW l \in DOMAIN body.locals
      PROVE  Len(drives'[l]) = Cardinality(SeenDrivers(V \cup {t}, l))
  <2>1. t \in Due
    BY <1>6 DEF Proper
  <2>2. Adds(t, D, l) = Cardinality(Gains(t, l))
    BY <1>2, <1>6, <2>1, AddsAre
  <2>3. Len(R[l]) = Cardinality(SeenDrivers(V, l))
    BY <1>3 DEF CountsOf
  <2>4. Cardinality(SeenDrivers(V \cup {t}, l)) = Cardinality(SeenDrivers(V, l)) + Cardinality(Gains(t, l))
    BY <1>2, <1>6, SeenGrows
  <2> QED
    BY <1>10, <2>2, <2>3, <2>4
<1>12. CountsOf(V \cup {t}, drives')
  BY <1>11 DEF CountsOf
<1>13. Progress(V \cup {t}, r, todo', driven', drives')
  BY <1>1, <1>7, <1>8, <1>9, <1>10, <1>12 DEF Progress
<1> QED
  BY <1>13

(* All this is about the body alone, which stays as it is.                 *)
LEMMA ProgressStays ==
    ASSUME UNCHANGED body
    PROVE  \A V, q, L, D, R : Progress(V, q, L, D, R)' <=> Progress(V, q, L, D, R)
<1>1. UsesForBound' = UsesForBound /\ RootLocal' = RootLocal
  BY DEF UsesForBound, RootLocal
<1>2. PlaceOf' = PlaceOf
  <2>1. \A k, a, b : SliceSeg(k, a, b)' = SliceSeg(k, a, b)
    BY DEF SliceSeg
  <2>2. \A g, e : PlaceIn(g, e)' = PlaceIn(g, e)
    <3> PICK B, U : B = body /\ B = body' /\ U = UsesForBound /\ U = UsesForBound'
      BY <1>1
    <3> QED
      BY <2>1 DEF PlaceIn
  <2> QED
    BY <2>2 DEF PlaceOf
<1>3. /\ \A s : Guards(s)' <=> Guards(s)
      /\ \A s : Branches(s)' = Branches(s)
      /\ Whens' = Whens /\ Equations' = Equations /\ Outs' = Outs
      /\ \A o : Target(o)' = Target(o)
  BY DEF Guards, Branches, Members, Whens, Equations, Outs, Target
<1>4. Guarded' = Guarded
  BY DEF Guarded, Guards, Branches, Members
<1>5. BelowWhen' = BelowWhen
  BY <1>3, <1>4 DEF BelowWhen
<1>6. GuardedBlocks' = GuardedBlocks /\ Taken' = Taken /\ Due' = Due
  BY <1>3, <1>5 DEF GuardedBlocks, Taken, Due
<1>7. Proper' = Proper
  BY <1>3, <1>5, <1>6 DEF Proper, InMode
<1>8. \A t : Makes(t)' = Makes(t)
  BY <1>3 DEF Makes, BlockMakes, StmtMakes, GuardedMakes, ExprMakes, Each, Only, Members, Call
<1>9. \A V, L : Visits(V, L)' <=> Visits(V, L)
  BY <1>6, <1>7, <1>8 DEF Visits, Distinct, Members, Call, Top
<1>10. \A w : GuardedBy(w)' = GuardedBy(w)
  BY <1>4 DEF GuardedBy
<1>11. \A t : Under(t)' = Under(t)
  BY <1>3, <1>4 DEF Under, Only
<1>12. \A L : Owned(L)' <=> Owned(L)
  BY <1>10, <1>11 DEF Owned, Owner, Back, From
<1>13. Val' = Val /\ \A S : Roots(S)' = Roots(S)
  BY <1>1, <1>3 DEF Val, Roots
<1>14. \A w, V : Seen(w, V)' = Seen(w, V)
  BY <1>10 DEF Seen, Call
<1>15. \A V, q, L, D : StackOf(q, V, L, D)' <=> StackOf(q, V, L, D)
  <2>1. \A V, q, L : Ends(q, L)' <=> Ends(q, L)
    BY DEF Ends, Back, From, Bound
  <2>2. ASSUME NEW V, NEW q, NEW L, NEW j
        PROVE  Roots(Seen(From(L, q[j]).id, V))' = Roots(Seen(From(L, q[j]).id, V))
    <3>1. PICK w : w = From(L, q[j]).id
      OBVIOUS
    <3>2. From(L, q[j]).id' = w
      BY <3>1 DEF From
    <3>3. Seen(w, V)' = Seen(w, V)
      BY <1>14
    <3>4. Seen(w, V)' = Seen(From(L, q[j]).id, V)'
      BY <3>2
    <3> QED
      BY <1>13, <3>1, <3>3, <3>4
  <2>3. ASSUME NEW V, NEW q, NEW L, NEW D
        PROVE  StackOf(q, V, L, D)' <=> StackOf(q, V, L, D)
    <3>1. Ends(q, L)' <=> Ends(q, L)
      BY <2>1
    <3>2. (D \in Seq(SUBSET Val))' <=> D \in Seq(SUBSET Val)
      BY <1>13
    <3>3. ASSUME NEW j
          PROVE  (D[j] = Roots(Seen(From(L, q[j]).id, V)))' <=> D[j] = Roots(Seen(From(L, q[j]).id, V))
      BY <2>2
    <3> QED
      BY <3>1, <3>2, <3>3, Zenon DEF StackOf
  <2> QED
    BY <2>3
<1>16. \A l : Drivers(l)' = Drivers(l)
  BY <1>1, <1>2, <1>3, <1>4, <1>5 DEF Drivers
<1>17. \A d : Key(d)' = Key(d)
  BY <1>3 DEF Key, Call
<1>18. \A V, l : SeenDrivers(V, l)' = SeenDrivers(V, l)
  BY <1>16, <1>17 DEF SeenDrivers
<1>19. \A V, R : CountsOf(V, R)' <=> CountsOf(V, R)
  BY <1>18 DEF CountsOf
<1> QED
  BY <1>9, <1>12, <1>15, <1>19 DEF Progress

Accounted == \E V, q : Progress(V, q, todo, driven, drives)

LEMMA AccountedAtFirst == Init => Accounted
<1> SUFFICES ASSUME Init PROVE Accounted
  OBVIOUS
<1>1. body \in Bodies /\ \A l \in DOMAIN body.locals : drives[l] = <<>>
  BY DEF Init
<1>2. Progress({}, <<>>, <<Call("block", Top)>>, <<>>, drives)
  BY <1>1, ProgressAtFirst
<1>3. todo = <<Call("block", Top)>> /\ driven = <<>>
  BY DEF Init, Call
<1> QED
  BY <1>2, <1>3 DEF Accounted

LEMMA AccountedKept == Walking /\ Accounted /\ [Next]_vars => Accounted'
<1> SUFFICES ASSUME Walking, Accounted, [Next]_vars PROVE Accounted'
  OBVIOUS
<1>1. PICK V, q : Progress(V, q, todo, driven, drives)
  BY DEF Accounted
<1>2. UNCHANGED body /\ \E W, r : Progress(W, r, todo', driven', drives')
  <2>1. CASE Walks
    BY <1>1, <2>1, WalkMakes, WalkProgress
  <2>2. CASE Counted \/ CheckLocal \/ Done \/ UNCHANGED vars
    <3>1. UNCHANGED <<body, todo, driven, drives>>
      BY <2>2 DEF Counted, CheckLocal, Done, vars
    <3> QED
      BY <1>1, <3>1
  <2> QED
    BY <2>1, <2>2 DEF Next, Walks
<1>3. PICK W, r : Progress(W, r, todo', driven', drives')
  BY <1>2
<1>4. PICK L, D, R : L = todo' /\ D = driven' /\ R = drives'
  OBVIOUS
<1>5. Progress(W, r, L, D, R)
  BY <1>3, <1>4
<1>6. Progress(W, r, L, D, R)'
  BY <1>2, <1>5, ProgressStays
<1> QED
  BY <1>4, <1>6 DEF Accounted

----------------------------------------------------------------------------
(* What an expression conceals, and what the function's block leads to.    *)
ConcealsIn(g, e) ==
    LET x == body.exprs[e]
    IN  x.outs # {} \/ x.blocks # <<>> \/ \E i \in DOMAIN x.kids : x.kids[i] # 0 /\ g[x.kids[i]]

LEMMA KidsComeBefore ==
    ASSUME body \in Bodies, NEW e \in DOMAIN body.exprs, NEW i \in DOMAIN body.exprs[e].kids,
           body.exprs[e].kids[i] # 0
    PROVE  body.exprs[e].kids[i] \in 1 .. e - 1 /\ body.exprs[e].kids[i] \in DOMAIN body.exprs
<1>1. body.exprs \in Seq(Expr)
  BY TreeOf
<1>2. PICK n : n = Len(body.exprs) /\ n \in Nat /\ DOMAIN body.exprs = 1 .. n
  BY <1>1
<1>3. PICK k : k = body.exprs[e].kids[i]
  OBVIOUS
<1>4. k \in (IF body.exprs[e].op \in {"slice", "offset"} /\ i > 1 THEN 0 ELSE 1) .. e - 1
  BY <1>3, TreeOf DEF Refers
<1>5. k \in 0 .. e - 1 /\ k # 0
  BY <1>3, <1>4
<1>6. k \in 1 .. e - 1 /\ k \in 1 .. n
  BY <1>2, <1>5
<1> QED
  BY <1>2, <1>3, <1>6

LEMMA ConcealsDefined ==
    ASSUME body \in Bodies
    PROVE  \A e \in DOMAIN body.exprs : Conceals[e] <=> ConcealsIn(Conceals, e)
<1>1. PICK n, S : n = Len(body.exprs) /\ n \in Nat /\ DOMAIN body.exprs = 1 .. n /\ S = BOOLEAN
  BY TreeOf
<1>2. ASSUME NEW m \in 1 .. n, NEW g
      PROVE  ConcealsIn(g, m) \in S
  BY <1>1 DEF ConcealsIn
<1>3. \E g : g = [m \in DOMAIN body.exprs |-> ConcealsIn(g, m)]
  <2> DEFINE W(m) == [h \in [1 .. m - 1 -> S] |-> ConcealsIn(h, m)]
  <2>1. ASSUME NEW m \in 1 .. n
        PROVE  W(m) \in [[1 .. m - 1 -> S] -> S]
    <3>1. \A h \in [1 .. m - 1 -> S] : ConcealsIn(h, m) \in S
      BY <1>2
    <3> QED
      BY <3>1
  <2>2. PICK F : F = [m \in 1 .. n |-> W(m)]
    OBVIOUS
  <2>3. \A m \in 1 .. n : F[m] = W(m)
    <3> HIDE DEF W
    <3> QED BY <2>2
  <2>4. Steps(1, n, S, F)
    <3> HIDE DEF W
    <3> QED BY <2>1, <2>3 DEF Steps
  <2>5. PICK g : Follows(g, 1, n, S, F)
    <3> HIDE DEF W
    <3> QED BY <1>1, <2>4, RecursionIsDefined
  <2>6. ASSUME NEW m \in 1 .. n
        PROVE  g[m] = ConcealsIn(g, m)
    <3>1. PICK h : h = [k \in 1 .. m - 1 |-> g[k]]
      OBVIOUS
    <3>2. h \in [1 .. m - 1 -> S]
      BY <1>1, <2>5, <3>1 DEF Follows
    <3>3. g[m] = ConcealsIn(h, m)
      BY <2>3, <2>5, <3>1, <3>2 DEF Follows
    <3>4. ASSUME NEW i \in DOMAIN body.exprs[m].kids, body.exprs[m].kids[i] # 0
          PROVE  h[body.exprs[m].kids[i]] = g[body.exprs[m].kids[i]]
      <4>1. body.exprs[m].kids[i] \in 1 .. m - 1
        BY <1>1, <3>4, KidsComeBefore
      <4> QED
        BY <3>1, <4>1
    <3>5. ConcealsIn(h, m) <=> ConcealsIn(g, m)
      BY <3>4 DEF ConcealsIn
    <3>6. ConcealsIn(h, m) = ConcealsIn(g, m)
      BY <3>5 DEF ConcealsIn
    <3> QED
      BY <3>3, <3>6
  <2>7. g = [m \in DOMAIN body.exprs |-> ConcealsIn(g, m)]
    BY <1>1, <2>5, <2>6 DEF Follows
  <2> QED
    BY <2>7
<1>4. Conceals = CHOOSE g : g = [m \in DOMAIN body.exprs |-> ConcealsIn(g, m)]
  BY DEF Conceals, ConcealsIn
<1>5. Conceals = [m \in DOMAIN body.exprs |-> ConcealsIn(Conceals, m)]
  BY <1>3, <1>4
<1> QED
  BY <1>5

(* What a node holds are nodes.                                            *)
LEMMA HeldAre ==
    ASSUME body \in Bodies
    PROVE  /\ \A k \in DOMAIN body.blocks : \A c \in Holds(body, <<"block", k>>) :
                 \/ \E s \in Members(body.blocks[k].stmts) : s \in DOMAIN body.stmts /\ c = <<"stmt", s>>
                 \/ body.blocks[k].tail \in DOMAIN body.exprs /\ c = <<"expr", body.blocks[k].tail>>
           /\ \A s \in DOMAIN body.stmts : \A c \in Holds(body, <<"stmt", s>>) :
                 \/ body.stmts[s].op = "equation" /\ body.stmts[s].lhs \in DOMAIN body.exprs
                        /\ c = <<"expr", body.stmts[s].lhs>>
                 \/ body.stmts[s].op # "var" /\ body.stmts[s].rhs \in DOMAIN body.exprs
                        /\ c = <<"expr", body.stmts[s].rhs>>
                 \/ body.stmts[s].op \in {"for", "when"} /\ body.stmts[s].block \in DOMAIN body.blocks
                        /\ c = <<"block", body.stmts[s].block>>
           /\ \A e \in DOMAIN body.exprs : \A c \in Holds(body, <<"expr", e>>) :
                 \/ \E i \in DOMAIN body.exprs[e].kids : /\ body.exprs[e].kids[i] # 0
                        /\ body.exprs[e].kids[i] \in DOMAIN body.exprs /\ c = <<"expr", body.exprs[e].kids[i]>>
                 \/ \E k \in Members(body.exprs[e].blocks) : k \in DOMAIN body.blocks /\ c = <<"block", k>>
<1>1. ASSUME NEW k \in DOMAIN body.blocks, NEW c \in Holds(body, <<"block", k>>)
      PROVE  \/ \E s \in Members(body.blocks[k].stmts) : s \in DOMAIN body.stmts /\ c = <<"stmt", s>>
             \/ body.blocks[k].tail \in DOMAIN body.exprs /\ c = <<"expr", body.blocks[k].tail>>
  <2>1. Holds(body, <<"block", k>>) = {"stmt"} \X (Members(body.blocks[k].stmts) \ {0})
                                       \cup {"expr"} \X ({body.blocks[k].tail} \ {0})
    BY DEF Holds
  <2>2. CASE c \in {"stmt"} \X (Members(body.blocks[k].stmts) \ {0})
    <3>1. PICK s \in Members(body.blocks[k].stmts) : c = <<"stmt", s>>
      BY <2>2
    <3> QED
      BY <3>1, BlockHolds
  <2>3. CASE c \in {"expr"} \X ({body.blocks[k].tail} \ {0})
    <3>1. c = <<"expr", body.blocks[k].tail>> /\ body.blocks[k].tail # 0
      BY <2>3
    <3> QED
      BY <3>1, BlockRefers
  <2> QED
    BY <1>1, <2>1, <2>2, <2>3
<1>2. ASSUME NEW s \in DOMAIN body.stmts, NEW c \in Holds(body, <<"stmt", s>>)
      PROVE  \/ body.stmts[s].op = "equation" /\ body.stmts[s].lhs \in DOMAIN body.exprs
                        /\ c = <<"expr", body.stmts[s].lhs>>
             \/ body.stmts[s].op # "var" /\ body.stmts[s].rhs \in DOMAIN body.exprs
                        /\ c = <<"expr", body.stmts[s].rhs>>
             \/ body.stmts[s].op \in {"for", "when"} /\ body.stmts[s].block \in DOMAIN body.blocks
                        /\ c = <<"block", body.stmts[s].block>>
  <2>1. Holds(body, <<"stmt", s>>) =
        {"expr"} \X ((Only({body.stmts[s].lhs}, body.stmts[s].op = "equation")
                         \cup Only({body.stmts[s].rhs}, body.stmts[s].op # "var")) \ {0})
        \cup {"block"} \X (Only({body.stmts[s].block}, body.stmts[s].op \in {"for", "when"}) \ {0})
    BY DEF Holds
  <2>2. \/ body.stmts[s].op = "equation" /\ c = <<"expr", body.stmts[s].lhs>>
        \/ body.stmts[s].op # "var" /\ c = <<"expr", body.stmts[s].rhs>>
        \/ body.stmts[s].op \in {"for", "when"} /\ c = <<"block", body.stmts[s].block>>
    BY <1>2, <2>1 DEF Only
  <2> QED
    BY <2>2, StmtRefers
<1>3. ASSUME NEW e \in DOMAIN body.exprs, NEW c \in Holds(body, <<"expr", e>>)
      PROVE  \/ \E i \in DOMAIN body.exprs[e].kids : /\ body.exprs[e].kids[i] # 0
                        /\ body.exprs[e].kids[i] \in DOMAIN body.exprs /\ c = <<"expr", body.exprs[e].kids[i]>>
             \/ \E k \in Members(body.exprs[e].blocks) : k \in DOMAIN body.blocks /\ c = <<"block", k>>
  <2>1. Holds(body, <<"expr", e>>) = {"expr"} \X (Members(body.exprs[e].kids) \ {0})
                                       \cup {"block"} \X (Members(body.exprs[e].blocks) \ {0})
    BY DEF Holds
  <2>2. CASE c \in {"expr"} \X (Members(body.exprs[e].kids) \ {0})
    <3>1. PICK x \in Members(body.exprs[e].kids) : x # 0 /\ c = <<"expr", x>>
      BY <2>2
    <3>2. PICK i \in DOMAIN body.exprs[e].kids : x = body.exprs[e].kids[i]
      BY DEF Members
    <3> QED
      BY <3>1, <3>2, KidsComeBefore
  <2>3. CASE c \in {"block"} \X (Members(body.exprs[e].blocks) \ {0})
    <3>1. PICK k \in Members(body.exprs[e].blocks) : c = <<"block", k>>
      BY <2>3
    <3> QED
      BY <3>1, ExprHolds
  <2> QED
    BY <1>3, <2>1, <2>2, <2>3
<1> QED
  BY <1>1, <1>2, <1>3

LEMMA NodeCases ==
    ASSUME NEW n \in Nodes(body)
    PROVE  \/ \E k \in DOMAIN body.blocks : n = <<"block", k>>
           \/ \E s \in DOMAIN body.stmts : n = <<"stmt", s>>
           \/ \E e \in DOMAIN body.exprs : n = <<"expr", e>>
  BY DEF Nodes

LEMMA HeldAreNodes ==
    ASSUME body \in Bodies, NEW n \in Nodes(body)
    PROVE  Holds(body, n) \subseteq Nodes(body)
<1>1. ASSUME NEW k \in DOMAIN body.blocks, NEW c \in Holds(body, <<"block", k>>) PROVE c \in Nodes(body)
  BY <1>1, HeldAre, NodesAre
<1>2. ASSUME NEW s \in DOMAIN body.stmts, NEW c \in Holds(body, <<"stmt", s>>) PROVE c \in Nodes(body)
  BY <1>2, HeldAre, NodesAre
<1>3. ASSUME NEW e \in DOMAIN body.exprs, NEW c \in Holds(body, <<"expr", e>>) PROVE c \in Nodes(body)
  BY <1>3, HeldAre, NodesAre
<1> QED
  BY <1>1, <1>2, <1>3, NodeCases

(* What is closed under the parts of its nodes holds of what is reached.   *)
ReachedIn(g, d) ==
    IF d = 0 THEN {<<"block", Len(body.blocks)>>}
    ELSE UNION {{n} \cup Holds(body, n) : n \in g[d - 1]}

LEMMA ReachedAreClosed ==
    ASSUME body \in Bodies, NEW X, <<"block", Top>> \in X,
           \A n \in X \cap Nodes(body) : Holds(body, n) \subseteq X
    PROVE  Reached(body) \subseteq X
<1>1. PICK size : size = Len(body.blocks) + Len(body.stmts) + Len(body.exprs)
  OBVIOUS
<1>2. size \in Nat
  <2>1. body.blocks \in Seq(Block) /\ body.stmts \in Seq(Stmt) /\ body.exprs \in Seq(Expr)
    BY TreeOf
  <2>2. PICK a : a = Len(body.blocks) /\ a \in Nat
    BY <2>1
  <2>3. PICK b : b = Len(body.stmts) /\ b \in Nat
    BY <2>1
  <2>4. PICK c : c = Len(body.exprs) /\ c \in Nat
    BY <2>1
  <2>5. size = a + b + c
    BY <1>1, <2>2, <2>3, <2>4
  <2>6. a \in Nat /\ b \in Nat /\ c \in Nat
    BY <2>2, <2>3, <2>4
  <2>7. \A x, y, z \in Nat : x + y + z \in Nat
    OBVIOUS
  <2> QED
    BY <2>5, <2>6, <2>7, Zenon
<1>3. PICK S : S = SUBSET (Nodes(body) \cap X)
  OBVIOUS
<1>4. ASSUME NEW m \in 0 .. size, NEW g, \A k \in 0 .. m - 1 : g[k] \in S
      PROVE  ReachedIn(g, m) \in S
  <2>1. CASE m = 0
    <3>1. ReachedIn(g, m) = {<<"block", Top>>}
      BY <2>1 DEF ReachedIn, Top
    <3>2. Top \in DOMAIN body.blocks
      BY TopIsProper, CallsAre, DueAre DEF Proper
    <3> QED
      BY <1>3, <3>1, <3>2, NodesAre
  <2>2. CASE m # 0
    <3>1. PICK j : j = m - 1 /\ g[j] \in S
      BY <1>2, <1>4, <2>2
    <3>2. ReachedIn(g, m) = UNION {{n} \cup Holds(body, n) : n \in g[j]}
      BY <2>2, <3>1 DEF ReachedIn
    <3>3. ASSUME NEW n \in g[j]
          PROVE  {n} \cup Holds(body, n) \subseteq Nodes(body) \cap X
      <4>1. n \in Nodes(body) \cap X
        BY <1>3, <3>1
      <4> QED
        BY <4>1, HeldAreNodes
    <3> QED
      BY <1>3, <3>2, <3>3
  <2> QED
    BY <2>1, <2>2
<1>5. \E g : g = [m \in 0 .. size |-> ReachedIn(g, m)]
  <2> DEFINE W(m) == [h \in [0 .. m - 1 -> S] |-> ReachedIn(h, m)]
  <2>1. ASSUME NEW m \in 0 .. size
        PROVE  W(m) \in [[0 .. m - 1 -> S] -> S]
    <3>1. \A h \in [0 .. m - 1 -> S] : ReachedIn(h, m) \in S
      BY <1>4
    <3> QED
      BY <3>1
  <2>2. PICK F : F = [m \in 0 .. size |-> W(m)]
    OBVIOUS
  <2>3. \A m \in 0 .. size : F[m] = W(m)
    <3> HIDE DEF W
    <3> QED BY <2>2
  <2>4. Steps(0, size, S, F)
    <3> HIDE DEF W
    <3> QED BY <2>1, <2>3 DEF Steps
  <2>5. PICK g : Follows(g, 0, size, S, F)
    <3> HIDE DEF W
    <3> QED BY <1>2, <2>4, RecursionIsDefined
  <2>6. ASSUME NEW m \in 0 .. size
        PROVE  g[m] = ReachedIn(g, m)
    <3>1. PICK h : h = [k \in 0 .. m - 1 |-> g[k]]
      OBVIOUS
    <3>2. h \in [0 .. m - 1 -> S]
      BY <1>2, <2>5, <3>1 DEF Follows
    <3>3. g[m] = ReachedIn(h, m)
      BY <2>3, <2>5, <3>1, <3>2 DEF Follows
    <3>4. m # 0 => h[m - 1] = g[m - 1]
      BY <1>2, <3>1
    <3>5. ReachedIn(h, m) = ReachedIn(g, m)
      BY <3>4 DEF ReachedIn
    <3> QED
      BY <3>3, <3>5
  <2>7. g = [m \in 0 .. size |-> ReachedIn(g, m)]
    BY <2>5, <2>6 DEF Follows
  <2> QED
    BY <2>7
<1>6. PICK P : P = CHOOSE g : g = [d \in 0 .. Len(body.blocks) + Len(body.stmts) + Len(body.exprs) |-> ReachedIn(g, d)]
  OBVIOUS
<1>7. Reached(body) = P[size]
  BY <1>1, <1>6 DEF Reached, ReachedIn
<1>8. P = [m \in 0 .. size |-> ReachedIn(P, m)]
  BY <1>1, <1>5, <1>6
<1>9. PICK G : G = {m \in 0 .. size : P[m] \in S}
  OBVIOUS
<1>10. ASSUME NEW m \in 0 .. size, \A k \in 0 .. m - 1 : k \in G
       PROVE  m \in G
  <2>1. P[m] = ReachedIn(P, m)
    BY <1>8
  <2>2. ReachedIn(P, m) \in S
    BY <1>4, <1>9, <1>10
  <2> QED
    BY <1>9, <2>1, <2>2
<1>11. \A m \in 0 .. size : m \in G
  BY <1>2, <1>10, AlongTheArena
<1>12. size \in G
  BY <1>2, <1>11
<1> QED
  BY <1>3, <1>7, <1>9, <1>12

----------------------------------------------------------------------------
(* A walk that has ended has been at every driver that is in sight: at each *)
(* block and statement, and at each expression that conceals something.     *)
Ended(V) == V \subseteq Proper /\ (\A t \in V : Makes(t) \subseteq V) /\ Call("block", Top) \in V

BlockSeen(k, V) == Call("block", k) \in V \/ Call("collect", k) \in V
StmtSeen(s, V)  == Call("stmt", s) \in V \/ Call("guarded", s) \in V
ExprSeen(e, V)  == \/ Call("expr", e) \in V
                   \/ \E s \in BelowWhen : Guards(s) /\ e = body.stmts[s].rhs /\ Call("guarded", s) \in V
                   \/ ~Conceals[e]
NodeSeen(n, V)  == \/ \E k \in DOMAIN body.blocks : n = <<"block", k>> /\ BlockSeen(k, V)
                   \/ \E s \in DOMAIN body.stmts : n = <<"stmt", s>> /\ StmtSeen(s, V)
                   \/ \E e \in DOMAIN body.exprs : n = <<"expr", e>> /\ ExprSeen(e, V)

LEMMA MakesOfCalls ==
    \A i : /\ Makes(Call("block", i)) = BlockMakes(i)
           /\ Makes(Call("stmt", i)) = StmtMakes(i)
           /\ Makes(Call("collect", i)) = Each("guarded", Members(body.blocks[i].stmts))
           /\ Makes(Call("guarded", i)) = GuardedMakes(i)
           /\ Makes(Call("expr", i)) = ExprMakes(i)
  BY CallsAre DEF Makes

LEMMA SeenModes ==
    ASSUME NEW V, Ended(V)
    PROVE  /\ \A k : Call("collect", k) \in V => k \in GuardedBlocks
           /\ \A s : Call("guarded", s) \in V => s \in BelowWhen
<1>1. ASSUME NEW t \in V
      PROVE  InMode(t)
  BY DEF Ended, Proper
<1>2. ASSUME NEW k, Call("collect", k) \in V
      PROVE  k \in GuardedBlocks
  <2>1. PICK t : t = Call("collect", k)
    OBVIOUS
  <2>2. InMode(t) /\ t.call = "collect" /\ t.id = k
    BY <1>1, <1>2, <2>1, CallsAre
  <2> QED
    BY <2>2 DEF InMode
<1>3. ASSUME NEW s, Call("guarded", s) \in V
      PROVE  s \in BelowWhen
  <2>1. PICK t : t = Call("guarded", s)
    OBVIOUS
  <2>2. InMode(t) /\ t.call = "guarded" /\ t.id = s
    BY <1>1, <1>3, <2>1, CallsAre
  <2> QED
    BY <2>2 DEF InMode
<1> QED
  BY <1>2, <1>3

LEMMA BlocksLead ==
    ASSUME body \in Bodies, InSight, NEW V, Ended(V), NEW k \in DOMAIN body.blocks, BlockSeen(k, V),
           NEW c \in Holds(body, <<"block", k>>)
    PROVE  NodeSeen(c, V)
<1>1. CASE \E s \in Members(body.blocks[k].stmts) : s \in DOMAIN body.stmts /\ c = <<"stmt", s>>
  <2>1. PICK s \in Members(body.blocks[k].stmts) : s \in DOMAIN body.stmts /\ c = <<"stmt", s>>
    BY <1>1
  <2>2. CASE Call("block", k) \in V
    <3>1. Call("stmt", s) \in BlockMakes(k)
      BY <2>1 DEF BlockMakes, Each
    <3>2. Call("stmt", s) \in V
      BY <2>2, <3>1, MakesOfCalls DEF Ended
    <3> QED
      BY <2>1, <3>2 DEF NodeSeen, StmtSeen
  <2>3. CASE Call("collect", k) \in V
    <3>1. Call("guarded", s) \in Each("guarded", Members(body.blocks[k].stmts))
      BY <2>1 DEF Each
    <3>2. Call("guarded", s) \in V
      BY <2>3, <3>1, MakesOfCalls DEF Ended
    <3> QED
      BY <2>1, <3>2 DEF NodeSeen, StmtSeen
  <2> QED
    BY <2>2, <2>3 DEF BlockSeen
<1>2. CASE body.blocks[k].tail \in DOMAIN body.exprs /\ c = <<"expr", body.blocks[k].tail>>
  <2>1. PICK e \in DOMAIN body.exprs : e = body.blocks[k].tail /\ c = <<"expr", e>> /\ e # 0
    BY <1>2, TreeOf
  <2>2. CASE Call("block", k) \in V
    <3>1. Call("expr", e) \in BlockMakes(k)
      BY <2>1 DEF BlockMakes, Each
    <3>2. Call("expr", e) \in V
      BY <2>2, <3>1, MakesOfCalls DEF Ended
    <3> QED
      BY <2>1, <3>2 DEF NodeSeen, ExprSeen
  <2>3. CASE Call("collect", k) \in V
    <3>1. k \in GuardedBlocks
      BY <2>3, SeenModes
    <3>2. ~Conceals[e]
      BY <2>1, <3>1 DEF InSight
    <3> QED
      BY <2>1, <3>2 DEF NodeSeen, ExprSeen
  <2> QED
    BY <2>2, <2>3 DEF BlockSeen
<1> QED
  BY <1>1, <1>2, HeldAre

LEMMA StmtsLead ==
    ASSUME body \in Bodies, InSight, NEW V, Ended(V), NEW s \in DOMAIN body.stmts, StmtSeen(s, V),
           NEW c \in Holds(body, <<"stmt", s>>)
    PROVE  NodeSeen(c, V)
<1>1. body.stmts[s] \in Stmt
  BY StmtRefers
<1>2. body.stmts[s].op \in {"equation", "let", "return", "expr", "var", "for", "when"}
  BY <1>1 DEF Stmt
<1>3. ASSUME Call("stmt", s) \in V
      PROVE  StmtMakes(s) \subseteq V
  BY <1>3, MakesOfCalls DEF Ended
<1>4. ASSUME Call("guarded", s) \in V
      PROVE  /\ GuardedMakes(s) \subseteq V /\ s \in BelowWhen
             /\ body.stmts[s].op \notin {"for", "when", "return"}
  BY <1>4, MakesOfCalls, SeenModes DEF Ended, InSight
<1>5. CASE body.stmts[s].op = "equation" /\ body.stmts[s].lhs \in DOMAIN body.exprs
                /\ c = <<"expr", body.stmts[s].lhs>>
  <2>1. PICK e \in DOMAIN body.exprs : e = body.stmts[s].lhs /\ c = <<"expr", e>>
    BY <1>5
  <2>2. CASE Call("stmt", s) \in V
    <3>1. Call("expr", e) \in StmtMakes(s)
      BY <1>5, <2>1 DEF StmtMakes, Each, Only
    <3> QED
      BY <1>3, <2>1, <2>2, <3>1 DEF NodeSeen, ExprSeen
  <2>3. CASE Call("guarded", s) \in V
    <3>1. s \in BelowWhen \cap Equations
      BY <1>4, <1>5, <2>3 DEF Equations
    <3>2. ~Conceals[e]
      BY <2>1, <3>1 DEF InSight
    <3> QED
      BY <2>1, <3>2 DEF NodeSeen, ExprSeen
  <2> QED
    BY <2>2, <2>3 DEF StmtSeen
<1>6. CASE body.stmts[s].op # "var" /\ body.stmts[s].rhs \in DOMAIN body.exprs
                /\ c = <<"expr", body.stmts[s].rhs>>
  <2>1. PICK e \in DOMAIN body.exprs : e = body.stmts[s].rhs /\ c = <<"expr", e>>
    BY <1>6
  <2>2. CASE Call("stmt", s) \in V
    <3>1. Call("expr", e) \in StmtMakes(s)
      BY <1>6, <2>1 DEF StmtMakes, Each, Only
    <3> QED
      BY <1>3, <2>1, <2>2, <3>1 DEF NodeSeen, ExprSeen
  <2>3. CASE Call("guarded", s) \in V /\ Guards(s)
    BY <1>4, <2>1, <2>3 DEF NodeSeen, ExprSeen
  <2>4. CASE Call("guarded", s) \in V /\ ~Guards(s)
    <3>1. body.stmts[s].op \in {"equation", "let", "expr"}
      BY <1>2, <1>4, <1>6, <2>4
    <3>2. Call("expr", e) \in GuardedMakes(s)
      BY <2>1, <2>4, <3>1 DEF GuardedMakes, Each, Only
    <3> QED
      BY <1>4, <2>1, <2>4, <3>2 DEF NodeSeen, ExprSeen
  <2> QED
    BY <2>2, <2>3, <2>4 DEF StmtSeen
<1>7. CASE body.stmts[s].op \in {"for", "when"} /\ body.stmts[s].block \in DOMAIN body.blocks
                /\ c = <<"block", body.stmts[s].block>>
  <2>1. PICK k \in DOMAIN body.blocks : k = body.stmts[s].block /\ c = <<"block", k>>
    BY <1>7
  <2>2. Call("stmt", s) \in V
    BY <1>4, <1>7 DEF StmtSeen
  <2>3. Call("block", k) \in StmtMakes(s) \/ Call("collect", k) \in StmtMakes(s)
    BY <1>7, <2>1 DEF StmtMakes, Each, Only
  <2> QED
    BY <1>3, <2>1, <2>2, <2>3 DEF NodeSeen, BlockSeen
<1> QED
  BY <1>5, <1>6, <1>7, HeldAre

LEMMA ExprsLead ==
    ASSUME body \in Bodies, InSight, NEW V, Ended(V), NEW e \in DOMAIN body.exprs, ExprSeen(e, V),
           NEW c \in Holds(body, <<"expr", e>>)
    PROVE  NodeSeen(c, V)
<1>1. CASE \E i \in DOMAIN body.exprs[e].kids : /\ body.exprs[e].kids[i] # 0
                /\ body.exprs[e].kids[i] \in DOMAIN body.exprs /\ c = <<"expr", body.exprs[e].kids[i]>>
  <2>1. PICK i \in DOMAIN body.exprs[e].kids, d \in DOMAIN body.exprs :
            d = body.exprs[e].kids[i] /\ d # 0 /\ c = <<"expr", d>>
    BY <1>1
  <2>2. CASE body.exprs[e].op \notin {"record", "method", "call"}
    <3>1. ~Conceals[d]
      BY <2>1, <2>2 DEF InSight
    <3> QED
      BY <2>1, <3>1 DEF NodeSeen, ExprSeen
  <2>3. CASE body.exprs[e].op \in {"record", "method", "call"} /\ Call("expr", e) \in V
    <3>1. Call("expr", d) \in ExprMakes(e)
      BY <2>1, <2>3 DEF ExprMakes, Each, Only, Members
    <3>2. Call("expr", d) \in V
      BY <2>3, <3>1, MakesOfCalls DEF Ended
    <3> QED
      BY <2>1, <3>2 DEF NodeSeen, ExprSeen
  <2>4. CASE ~Conceals[e]
    <3>1. ~Conceals[d]
      BY <2>1, <2>4, ConcealsDefined DEF ConcealsIn
    <3> QED
      BY <2>1, <3>1 DEF NodeSeen, ExprSeen
  <2>5. ASSUME NEW s \in BelowWhen, Guards(s), e = body.stmts[s].rhs
        PROVE  body.exprs[e].op = "if"
    BY <2>5, TakenAre
  <2> QED
    BY <2>2, <2>3, <2>4, <2>5 DEF ExprSeen
<1>2. CASE \E k \in Members(body.exprs[e].blocks) : k \in DOMAIN body.blocks /\ c = <<"block", k>>
  <2>1. PICK k \in Members(body.exprs[e].blocks) : k \in DOMAIN body.blocks /\ c = <<"block", k>>
    BY <1>2
  <2>2. body.exprs[e].blocks # <<>>
    BY <2>1 DEF Members
  <2>3. body.exprs[e].op \in {"if", "when", "block"}
    BY <2>2, TreeOf DEF Refers
  <2>4. Conceals[e]
    BY <2>2, ConcealsDefined DEF ConcealsIn
  <2>5. CASE Call("expr", e) \in V
    <3>1. Call("block", k) \in ExprMakes(e)
      BY <2>1, <2>3 DEF ExprMakes, Each, Only
    <3>2. Call("block", k) \in V
      BY <2>5, <3>1, MakesOfCalls DEF Ended
    <3> QED
      BY <2>1, <3>2 DEF NodeSeen, BlockSeen
  <2>6. CASE \E s \in BelowWhen : Guards(s) /\ e = body.stmts[s].rhs /\ Call("guarded", s) \in V
    <3>1. PICK s \in BelowWhen : Guards(s) /\ e = body.stmts[s].rhs /\ Call("guarded", s) \in V
      BY <2>6
    <3>2. Call("collect", k) \in GuardedMakes(s)
      BY <2>1, <3>1 DEF GuardedMakes, Branches, Each
    <3>3. Call("collect", k) \in V
      BY <3>1, <3>2, MakesOfCalls DEF Ended
    <3> QED
      BY <2>1, <3>3 DEF NodeSeen, BlockSeen
  <2> QED
    BY <2>4, <2>5, <2>6 DEF ExprSeen
<1> QED
  BY <1>1, <1>2, HeldAre

LEMMA AllAreSeen ==
    ASSUME body \in Bodies, InSight, NEW V, Ended(V)
    PROVE  \A n \in Reached(body) : NodeSeen(n, V)
<1>1. PICK X : X = {n \in Nodes(body) : NodeSeen(n, V)}
  OBVIOUS
<1>2. <<"block", Top>> \in X
  <2>1. Top \in DOMAIN body.blocks
    BY BodiesAssumption DEF Top
  <2>2. NodeSeen(<<"block", Top>>, V)
    BY <2>1 DEF NodeSeen, BlockSeen, Ended
  <2> QED
    BY <1>1, <2>1, <2>2, NodesAre
<1>3. ASSUME NEW n \in X \cap Nodes(body)
      PROVE  Holds(body, n) \subseteq X
  <2>1. NodeSeen(n, V) /\ n \in Nodes(body)
    BY <1>1
  <2>2. ASSUME NEW c \in Holds(body, n)
        PROVE  NodeSeen(c, V)
    <3>1. CASE \E k \in DOMAIN body.blocks : n = <<"block", k>> /\ BlockSeen(k, V)
      BY <2>2, <3>1, BlocksLead
    <3>2. CASE \E s \in DOMAIN body.stmts : n = <<"stmt", s>> /\ StmtSeen(s, V)
      BY <2>2, <3>2, StmtsLead
    <3>3. CASE \E e \in DOMAIN body.exprs : n = <<"expr", e>> /\ ExprSeen(e, V)
      BY <2>2, <3>3, ExprsLead
    <3> QED
      BY <2>1, <3>1, <3>2, <3>3 DEF NodeSeen
  <2> QED
    BY <1>1, <2>1, <2>2, HeldAreNodes
<1>4. Reached(body) \subseteq X
  BY <1>2, <1>3, ReachedAreClosed
<1> QED
  BY <1>1, <1>4

LEMMA AllVisited ==
    ASSUME body \in Bodies, InSight, NEW V, Visits(V, <<>>), NEW l \in DOMAIN body.locals
    PROVE  SeenDrivers(V, l) = Drivers(l)
<1>1. Ended(V)
  <2>1. Members(<<>>) = {}
    BY DEF Members
  <2> QED
    BY <2>1 DEF Visits, Ended
<1>2. ASSUME NEW s \in DOMAIN body.stmts
      PROVE  StmtSeen(s, V)
  <2>1. <<"stmt", s>> \in Nodes(body)
    BY NodesAre
  <2>2. <<"stmt", s>> \in Reached(body)
    BY <2>1, TreeOf DEF Tree
  <2>3. NodeSeen(<<"stmt", s>>, V)
    BY <1>1, <2>2, AllAreSeen
  <2> QED
    BY <2>3 DEF NodeSeen
<1>3. ASSUME NEW e \in DOMAIN body.exprs, body.exprs[e].outs # {}
      PROVE  Call("expr", e) \in V
  <2>1. <<"expr", e>> \in Nodes(body)
    BY NodesAre
  <2>2. <<"expr", e>> \in Reached(body)
    BY <1>3, <2>1, TreeOf DEF Tree
  <2>3. NodeSeen(<<"expr", e>>, V)
    BY <1>1, <2>2, AllAreSeen
  <2>4. ExprSeen(e, V)
    BY <2>3 DEF NodeSeen
  <2>5. Conceals[e]
    BY <1>3, ConcealsDefined DEF ConcealsIn
  <2>6. body.exprs[e].op \in {"record", "method", "call"}
    BY <1>3, TreeOf DEF Refers
  <2>7. ASSUME NEW s \in BelowWhen, Guards(s), e = body.stmts[s].rhs
        PROVE  FALSE
    BY <2>6, <2>7, TakenAre
  <2> QED
    BY <2>4, <2>5, <2>7 DEF ExprSeen
<1>4. ASSUME NEW s \in DOMAIN body.stmts, s \notin BelowWhen
      PROVE  Call("stmt", s) \in V
  BY <1>1, <1>2, <1>4, SeenModes DEF StmtSeen
<1>5. ASSUME NEW w \in Whens
      PROVE  Call("bind", w) \in V
  <2>1. w \in DOMAIN body.stmts /\ body.stmts[w].op = "when"
    BY WhenBlocks
  <2>2. w \notin BelowWhen
    BY <2>1 DEF InSight
  <2>3. Call("stmt", w) \in V
    BY <1>4, <2>1, <2>2
  <2>4. Call("bind", w) \in Makes(Call("stmt", w))
    BY <2>2, GuardedCallsAre
  <2> QED
    BY <1>1, <2>3, <2>4 DEF Ended
<1>6. ASSUME NEW d \in Drivers(l)
      PROVE  Key(d) \in V
  <2>1. CASE \E s : OfEquation(d, s, l)
    BY <1>4, <2>1 DEF OfEquation, Equations
  <2>2. CASE \E w : OfWhen(d, w, l)
    BY <1>5, <2>2 DEF OfWhen
  <2>3. CASE \E e, j : OfOut(d, e, j, l)
    BY <1>3, <2>3 DEF OfOut
  <2> QED
    BY <2>1, <2>2, <2>3, DriversAre
<1> QED
  BY <1>6 DEF SeenDrivers

(* In any body: every drive that is counted for a local is that of an      *)
(* equation, an out-connection or a `when` of its own, and where nothing   *)
(* that drives is hidden from the walk each of them is counted, whatever   *)
(* the nesting of its blocks.                                              *)
THEOREM DriversAreCounted == Spec => []EachDriverCounted
<1>1. Checked /\ Accounted => EachDriverCounted
  <2> SUFFICES ASSUME Checked, Accounted, pc = "done", NEW l \in DOMAIN body.locals
               PROVE  /\ Len(drives[l]) <= Cardinality(Drivers(l))
                      /\ InSight => Len(drives[l]) = Cardinality(Drivers(l))
    BY DEF EachDriverCounted
  <2>1. body \in Bodies /\ todo = <<>>
    BY DEF Checked
  <2>2. PICK V, q : Progress(V, q, todo, driven, drives)
    BY DEF Accounted
  <2>3. Visits(V, <<>>) /\ Len(drives[l]) = Cardinality(SeenDrivers(V, l))
    BY <2>1, <2>2 DEF Progress, CountsOf
  <2>4. PICK S, D : S = SeenDrivers(V, l) /\ D = Drivers(l)
    OBVIOUS
  <2>5. S \in SUBSET D /\ IsFiniteSet(D)
    BY <2>1, <2>4, DriversFinite DEF SeenDrivers
  <2>6. Cardinality(S) <= Cardinality(D)
    BY <2>5, FS_Subset
  <2>7. ASSUME InSight
        PROVE  S = D
    BY <2>1, <2>3, <2>4, <2>7, AllVisited
  <2> QED
    BY <2>3, <2>4, <2>6, <2>7
<1> QED
  BY <1>1, CheckedAtFirst, CheckedKept, WalkingAtFirst, WalkingKept, AccountedAtFirst, AccountedKept, PTL DEF Spec
=============================================================================
