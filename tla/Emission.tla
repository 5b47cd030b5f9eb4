------------------------------ MODULE Emission ------------------------------
(***************************************************************************)
(* From a loaded crate to its SystemVerilog file: the command line's order *)
(* of checks (main.rs), the check that inline bodies do not recurse        *)
(* (hir/check.rs), the gate of emission, the splicing of inline callees,   *)
(* the requests for specialised copies and the worklist that serves them   *)
(* (backend/lower.rs).                                                     *)
(*                                                                         *)
(* A type is the path of its heads, from the outermost one to a literal-   *)
(* width scalar or a type parameter: <<"Bus", "uint8">>, <<"Vec", "A">>.   *)
(* A module name is the sequence of the parts the code joins with "__".    *)
(* What a def emits besides instances (wires, assigns, ports) is left out, *)
(* and of the checks modelled elsewhere only whether they report.          *)
(***************************************************************************)
EXTENDS Integers, Sequences, FiniteSets, SequencesExt

CONSTANTS
    Crates,           \* the crates to compile
    ScalarHeads,      \* the heads type_arg_name gives a name of their own: ports and scalars
    MaxInlineDepth    \* MAX_INLINE_DEPTH, 64 in the code

ASSUME DepthAssumption == MaxInlineDepth \in Nat \ {0}

\* Calls and impls refer to defs of the crate; the method of an impl has a body.
ASSUME CrateAssumption ==
    \A c \in Crates :
        /\ \A i \in DOMAIN c.impls :
            i \in Nat /\ c.impls[i].method \in DOMAIN c.defs /\ ~ c.defs[c.impls[i].method].decl
        /\ \A d \in DOMAIN c.defs :
            /\ c.defs[d].owner \in Seq(STRING) /\ c.defs[d].name \in STRING
            /\ c.defs[d].generics \in Nat
            /\ c.defs[d].calls \in Seq(ToSet(c.defs[d].calls))
            /\ \A k \in ToSet(c.defs[d].calls) : k.callee \in DOMAIN c.defs

VARIABLES
    phase,     \* the step of `main` being run
    crate,     \* the crate on the command line
    out,       \* collect_diagnostics: the checks that reported
    todo,      \* the defs the current loop has still to visit, in source order
    cleared,   \* the inline defs inline_recurses answered `false` for
    root,      \* inline_recurses: the def it started from
    stack,     \* inline_recurses: the defs on its stack, taken in any order
    visited,   \* inline_recurses: its `seen`
    frames,    \* the SvLowers in progress: a module's own, then one per splice
    cur,       \* the module being built
    reqs,      \* sv_file: the requests not yet served
    seen,      \* sv_file: the names requested so far
    modules,   \* sv_file: the concrete modules
    mono,      \* sv_file: the specialised modules (sorted by name at the end)
    exit       \* the exit code of the process

vars == <<phase, crate, out, todo, cleared, root, stack, visited, frames, cur,
          reqs, seen, modules, mono, exit>>

checking == <<todo, cleared, root, stack, visited>>
emitting == <<frames, cur, reqs, seen, modules, mono>>

-----------------------------------------------------------------------------
(* Types and their names.                                                  *)

TypeParams == <<"A", "B">>     \* the names of a def's generics, by index
Unbound == <<>>

IsParam(h) == \E i \in DOMAIN TypeParams : TypeParams[i] = h
IndexOf(h) == CHOOSE i \in DOMAIN TypeParams : TypeParams[i] = h
Ground(t) == ~ IsParam(Last(t))

\* subst_type: the parameter replaced by its binding, if it has one.
Subst(t, s) ==
    IF ~ Ground(t) /\ IndexOf(Last(t)) \in DOMAIN s /\ s[IndexOf(Last(t))] # Unbound
    THEN Front(t) \o s[IndexOf(Last(t))]
    ELSE t

\* Does match_type reach the parameter of `pattern` in `actual`?
Matches(pattern, actual) ==
    /\ ~ Ground(pattern)
    /\ Len(actual) >= Len(pattern)
    /\ SubSeq(actual, 1, Len(pattern) - 1) = Front(pattern)

\* match_type: the parameter of `pattern` bound in s to what stands there in `actual`.
MatchType(pattern, actual, s) ==
    IF Matches(pattern, actual) /\ IndexOf(Last(pattern)) \in DOMAIN s
    THEN [s EXCEPT ![IndexOf(Last(pattern))] =
              SubSeq(actual, Len(pattern), Len(actual))]
    ELSE s

TypeArgName(t) == IF Head(t) \in ScalarHeads THEN Head(t) ELSE "T"

-----------------------------------------------------------------------------
(* The defs of a crate, in source order, and the calls of their bodies.    *)

Defs == DOMAIN crate.defs
Def(d) == crate.defs[d]

SplicesInline(d) == Def(d).inline \/ Def(d).form = "expr"
SplicesMirin(d) == SplicesInline(d) /\ Def(d).form = "mirin"

ModuleName(d) == Append(Def(d).owner, Def(d).name)

\* mono_name: a part for each generic that s binds, in order.
Given(d, s) == {i \in (1..Def(d).generics) \intersect DOMAIN s : s[i] # Unbound}
NthOf(S, j) == CHOOSE i \in S : Cardinality({k \in S : k <= i}) = j

ArgParts(d, s) ==
    [j \in 1..Cardinality(Given(d, s)) |-> TypeArgName(s[NthOf(Given(d, s), j)])]

MonoName(d, s) == ModuleName(d) \o ArgParts(d, s)

\* The defs that get a module of their own: neither inline, nor a trait's
\* declaration, nor type-generic, nor of the prelude, nor compile-time only.
Emitted(d) ==
    /\ ~ Def(d).prelude
    /\ ~ Def(d).inline
    /\ ~ Def(d).decl
    /\ Def(d).generics = 0
    /\ ~ Def(d).constOnly

EmittedDefs == {d \in Defs : Emitted(d)}

\* A loop over defs goes in source order.
First(d, S) == d \in S /\ \A e \in S : d <= e

\* resolve_trait_instance_with: the first impl of the declaration's trait for
\* the head of the receiver's type whose header the type matches.
SelfType(c, s) == Subst(c.recorded[1], s)

Fits(impl, c, s) ==
    /\ impl.decl = c.callee
    /\ Head(impl.header) = Head(SelfType(c, s))
    /\ Ground(impl.header) => impl.header = SelfType(c, s)
    /\ Ground(impl.header) \/ Matches(impl.header, SelfType(c, s))

FittingImpls(c, s) == {i \in DOMAIN crate.impls : Fits(crate.impls[i], c, s)}

Selected(c, s) ==
    crate.impls[CHOOSE i \in FittingImpls(c, s) : \A j \in FittingImpls(c, s) : i <= j]

\* The binder prefix from the header, then the declaration's own generics.
Composed(c, s) ==
    MatchType(Selected(c, s).header, SelfType(c, s),
              [i \in 1..Selected(c, s).binders |-> Unbound])
    \o [i \in 1..(Len(c.recorded) - 1) |-> Subst(c.recorded[i + 1], s)]

\* Variant: a trait's declaration is called as it stands.
RedirectedNever(c, s) == FALSE

Redirected(c, s) == Def(c.callee).decl /\ FittingImpls(c, s) # {}

\* mir_call_target
Target(c, s) == IF Redirected(c, s) THEN Selected(c, s).method ELSE c.callee

\* The substitution of a call before that of its caller is applied.
NodeSubst(c, s) == IF Redirected(c, s) THEN Composed(c, s) ELSE c.recorded

-----------------------------------------------------------------------------
(* What a call asks for.                                                   *)

\* actual_type: the caller's own bindings are applied to a local's type only.
ActualType(a, s) == IF a.local THEN Subst(a.type, s) ELSE a.type

\* The generics bound by matching the parameters' types with the arguments'.
ArgSubst(d, c, s) ==
    FoldLeft(LAMBDA b, i : IF i <= Len(c.args)
                           THEN MatchType(Def(d).params[i], ActualType(c.args[i], s), b)
                           ELSE b,
             [i \in 1..Def(d).generics |-> Unbound],
             [i \in 1..Len(Def(d).params) |-> i])

\* What is still unbound is filled from the recorded substitution.
Filled(b, n) == [i \in DOMAIN b |-> IF b[i] = Unbound /\ i <= Len(n) THEN n[i] ELSE b[i]]

InstanceSubst(d, c, s) ==
    IF Redirected(c, s)
    THEN SubSeq(Composed(c, s), 1, Def(d).generics)
    ELSE Filled(ArgSubst(d, c, s), NodeSubst(c, s))

NeedsMono(b) == \E i \in DOMAIN b : b[i] # Unbound

\* call_value_leaves: the nets of a call in value position have the callee's
\* result type, under the call's substitution and not its caller's.
ResultType(d, c, s) == Subst(Def(d).result, NodeSubst(c, s))

\* compose_term: the substitution a splice starts with is the caller's applied
\* to the call's.
SpliceSubst(d, c, s) ==
    [i \in 1..Def(d).generics |->
        IF i <= Len(NodeSubst(c, s)) /\ NodeSubst(c, s)[i] # Unbound
        THEN Subst(NodeSubst(c, s)[i], s)
        ELSE Unbound]

\* flatten_leaves and sv_type have no form for a type parameter, of the ports
\* of the parameters and then of the result.
Renderable(d, s) ==
    \A t \in ToSet(Def(d).params) \union {Def(d).result} : t = Unbound \/ Ground(Subst(t, s))

-----------------------------------------------------------------------------
(* main and collect_diagnostics                                            *)

\* Variant: the command line forgets a check.
FrontChecksButDirections == {"names", "sig", "body", "completeness", "drivers",
                             "inline_shape", "infer"}

FrontChecks == {"names", "sig", "body", "completeness", "drivers", "directions",
                "inline_shape", "infer"}

\* crate_emittable asks for the same without inline_check.
GateChecks == {"syntax", "names", "sig", "body", "infer", "drivers",
               "completeness", "directions"}
Checks == FrontChecks \union GateChecks \union {"mono"}

ASSUME ChecksAssumption == \A c \in Crates : c.bad \subseteq Checks

InlineMirin(d) == Def(d).inline /\ Def(d).form = "mirin"
InlineDefs == {d \in Defs : InlineMirin(d)}

None == [name |-> <<>>, def |-> 0, subst |-> <<>>, insts |-> {}]

Init ==
    /\ phase = "syntax"
    /\ crate \in Crates
    /\ out = {}
    /\ todo = {} /\ cleared = {} /\ root = 0 /\ stack = {} /\ visited = {}
    /\ frames = <<>> /\ cur = None
    /\ reqs = <<>> /\ seen = {} /\ modules = <<>> /\ mono = <<>>
    /\ exit = -1

\* A syntax error ends the process before anything is analysed.
CheckSyntax ==
    /\ phase = "syntax"
    /\ IF "syntax" \in crate.bad
       THEN phase' = "ended" /\ exit' = 1 /\ UNCHANGED <<out, todo>>
       ELSE /\ phase' = "inline"
            /\ out' = crate.bad \intersect FrontChecks
            /\ todo' = InlineDefs
            /\ UNCHANGED exit
    /\ UNCHANGED <<crate, cleared, root, stack, visited, emitting>>

\* Variant: generic callees are not followed.
IsInlineCallPlain(c) == c.plain /\ InlineMirin(c.callee) /\ Def(c.callee).generics = 0

\* inline_mirin_callees: plain calls only; what a method call dispatches to is
\* left to the guard of the splice.
IsInlineCall(c) == c.plain /\ InlineMirin(c.callee)

InlineCallees(d) == {c.callee : c \in {c \in ToSet(Def(d).calls) : IsInlineCall(c)}}

StartInlineCheck ==
    /\ phase = "inline"
    /\ \E d \in todo :
        /\ First(d, todo)
        /\ root' = d
        /\ stack' = InlineCallees(d)
        /\ todo' = todo \ {d}
    /\ phase' = "recurses"
    /\ visited' = {}
    /\ UNCHANGED <<crate, out, cleared, emitting, exit>>

\* Variant: what was visited is followed again.
PopCalleeAgain ==
    /\ phase = "recurses"
    /\ \E d \in stack :
        /\ d # root
        /\ visited' = visited \union {d}
        /\ stack' = (stack \ {d}) \union InlineCallees(d)
    /\ UNCHANGED <<phase, crate, out, todo, cleared, root, emitting, exit>>

\* Variant: the callees of callees are not looked at.
PopCalleeShallow ==
    /\ phase = "recurses"
    /\ \E d \in stack :
        /\ d # root
        /\ visited' = visited \union {d}
        /\ stack' = stack \ {d}
    /\ UNCHANGED <<phase, crate, out, todo, cleared, root, emitting, exit>>

\* One turn of the loop of inline_recurses.
PopCallee ==
    /\ phase = "recurses"
    /\ \E d \in stack :
        /\ d # root
        /\ visited' = visited \union {d}
        /\ stack' = (stack \ {d}) \union (IF d \in visited THEN {} ELSE InlineCallees(d))
    /\ UNCHANGED <<phase, crate, out, todo, cleared, root, emitting, exit>>

Recursion ==
    /\ phase = "recurses" /\ root \in stack
    /\ phase' = "inline"
    /\ out' = out \union {"recursive"}
    /\ UNCHANGED <<crate, checking, emitting, exit>>

NoRecursion ==
    /\ phase = "recurses" /\ stack = {}
    /\ phase' = "inline"
    /\ cleared' = cleared \union {root}
    /\ UNCHANGED <<crate, out, todo, root, stack, visited, emitting, exit>>

\* The end of collect_diagnostics: mono_check only for a clean front end; any
\* diagnostic ends the process.
Report ==
    /\ phase = "inline" /\ todo = {}
    /\ out' = IF out = {} THEN crate.bad \intersect {"mono"} ELSE out
    /\ IF out' # {} THEN phase' = "ended" /\ exit' = 1
                    ELSE phase' = "gate" /\ UNCHANGED exit
    /\ UNCHANGED <<crate, checking, emitting>>

-----------------------------------------------------------------------------
(* sv_file                                                                 *)

\* crate_emittable
Gate ==
    /\ phase = "gate"
    /\ IF crate.bad \intersect GateChecks = {}
       THEN phase' = "concrete" /\ todo' = EmittedDefs
       ELSE phase' = "reserved" /\ UNCHANGED todo
    /\ UNCHANGED <<crate, out, cleared, root, stack, visited, emitting, exit>>

Frame(d, s) == [def |-> d, subst |-> s, next |-> 1]

\* build_module up to its block: the ports come first.
Build(d, s, name) ==
    /\ cur' = [name |-> name, def |-> d, subst |-> s, insts |-> {}]
    /\ IF Renderable(d, s)
       THEN frames' = <<Frame(d, s)>> /\ UNCHANGED <<phase, exit>>
       ELSE phase' = "ended" /\ exit' = 101 /\ UNCHANGED frames

BuildConcrete ==
    /\ phase = "concrete" /\ frames = <<>>
    /\ \E d \in todo :
        /\ First(d, todo)
        /\ Build(d, <<>>, ModuleName(d))
        /\ todo' = todo \ {d}
    /\ UNCHANGED <<crate, out, cleared, root, stack, visited, reqs, seen, modules, mono>>

AllConcrete ==
    /\ phase = "concrete" /\ frames = <<>> /\ todo = {}
    /\ phase' = "mono"
    /\ UNCHANGED <<crate, out, checking, emitting, exit>>

\* The newest request is served first, unless its name has been.
PopRequest ==
    /\ phase = "mono" /\ frames = <<>> /\ reqs # <<>>
    /\ reqs' = Front(reqs)
    /\ LET r == Last(reqs)
       IN  IF r.name \in seen
           THEN UNCHANGED <<phase, frames, cur, seen, exit>>
           ELSE seen' = seen \union {r.name} /\ Build(r.callee, r.subst, r.name)
    /\ UNCHANGED <<crate, out, checking, modules, mono>>

\* Variant: the requests are taken on once.
AllServedOnce ==
    /\ phase = "mono" /\ frames = <<>>
    /\ phase' = "reserved"
    /\ UNCHANGED <<crate, out, checking, emitting, exit>>

AllServed ==
    /\ phase = "mono" /\ frames = <<>> /\ reqs = <<>>
    /\ phase' = "reserved"
    /\ UNCHANGED <<crate, out, checking, emitting, exit>>

-----------------------------------------------------------------------------
(* The calls of a body, in the order they are lowered.                     *)

Top == Last(frames)
Body == Def(Top.def).calls
Call == Body[Top.next]
Callee == Target(Call, Top.subst)

Lowering == phase \in {"concrete", "mono"} /\ frames # <<>>
AtCall == Lowering /\ Top.next <= Len(Body)

Stepped ==
    [i \in DOMAIN frames |->
        IF i = Len(frames) THEN [Frame(Top.def, Top.subst) EXCEPT !.next = Top.next + 1]
        ELSE frames[i]]

Emitter == UNCHANGED <<crate, out, checking, seen, modules, mono>>

Panic == phase' = "ended" /\ exit' = 101 /\ UNCHANGED <<frames, cur, reqs>> /\ Emitter

\* A verilog body is spliced as text; a compile-time call leaves no hardware.
SkipCall ==
    /\ AtCall
    /\ IF SplicesInline(Callee) THEN Def(Callee).form # "mirin" ELSE Def(Callee).constOnly
    /\ frames' = Stepped
    /\ UNCHANGED <<phase, cur, reqs, exit>> /\ Emitter

\* splice_inline_body: a nested lowering of the callee's own body.
SpliceCall ==
    /\ AtCall /\ SplicesMirin(Callee)
    /\ Len(frames) <= MaxInlineDepth
    /\ frames' = Append(Stepped, Frame(Callee, SpliceSubst(Callee, Call, Top.subst)))
    /\ UNCHANGED <<phase, cur, reqs, exit>> /\ Emitter

\* Its assertion on the depth.
SpliceTooDeep ==
    /\ AtCall /\ SplicesMirin(Callee)
    /\ Len(frames) > MaxInlineDepth
    /\ Panic

Instantiates == AtCall /\ ~ SplicesInline(Callee) /\ ~ Def(Callee).constOnly

UnrenderableResult ==
    /\ Call.value /\ Def(Callee).result # Unbound
    /\ ~ Ground(ResultType(Callee, Call, Top.subst))

\* emit_instance_core
InstantiateCall ==
    /\ Instantiates /\ ~ UnrenderableResult
    /\ LET s == InstanceSubst(Callee, Call, Top.subst)
           name == IF NeedsMono(s) THEN MonoName(Callee, s) ELSE ModuleName(Callee)
       IN  /\ cur' = [name |-> cur.name, def |-> cur.def, subst |-> cur.subst,
                      insts |-> cur.insts \union
                          {[module |-> name, callee |-> Callee, subst |-> s]}]
           /\ reqs' = IF NeedsMono(s)
                      THEN Append(reqs, [callee |-> Callee, subst |-> s, name |-> name])
                      ELSE reqs
    /\ frames' = Stepped
    /\ UNCHANGED <<phase, exit>> /\ Emitter

InstantiatePanics == Instantiates /\ UnrenderableResult /\ Panic

\* The end of a splice: its items are the caller's.
EndSplice ==
    /\ Lowering /\ Top.next > Len(Body) /\ Len(frames) > 1
    /\ frames' = Front(frames)
    /\ UNCHANGED <<phase, cur, reqs, exit>> /\ Emitter

EndModule ==
    /\ Lowering /\ Top.next > Len(Body) /\ Len(frames) = 1
    /\ IF phase = "concrete" THEN modules' = Append(modules, cur) /\ UNCHANGED mono
                             ELSE mono' = Append(mono, cur) /\ UNCHANGED modules
    /\ frames' = <<>>
    /\ cur' = None
    /\ UNCHANGED <<phase, crate, out, checking, reqs, seen, exit>>

-----------------------------------------------------------------------------
(* The end of main.                                                        *)

\* The order of the modules aside.
File == ToSet(modules) \union ToSet(mono)

IsReserved(m) == Len(m.name) = 1 /\ Head(m.name) \in crate.reserved

\* reserved_words, then write_sv.
Write ==
    /\ phase = "reserved"
    /\ phase' = "ended"
    /\ exit' = IF \E m \in File : IsReserved(m) THEN 1 ELSE 0
    /\ UNCHANGED <<crate, out, checking, emitting>>

Ended == phase = "ended" /\ UNCHANGED vars

Next ==
    \/ CheckSyntax \/ StartInlineCheck \/ PopCallee \/ Recursion \/ NoRecursion \/ Report
    \/ Gate \/ BuildConcrete \/ AllConcrete \/ PopRequest \/ AllServed
    \/ SkipCall \/ SpliceCall \/ SpliceTooDeep
    \/ InstantiateCall \/ InstantiatePanics \/ EndSplice \/ EndModule
    \/ Write \/ Ended

Spec == Init /\ [][Next]_vars /\ WF_vars(Next)

-----------------------------------------------------------------------------
(* Properties.                                                             *)

\* The defs below d in the inline call graph, as the sets that hold them all.
ClosedUnderCallees(S) == \A e \in S : InlineCallees(e) \subseteq S
BelowIn(d, S) == InlineCallees(d) \subseteq S /\ ClosedUnderCallees(S)

\* An inline def can reach itself: it is in every set that holds what is below it.
ReachesItself(d) == \A S \in SUBSET Defs : BelowIn(d, S) => d \in S

\* A diagnostic of recursion is given exactly when some inline def really
\* reaches itself through plain inline calls (inline_recurses).
InlineCheckExact ==
    phase = "inline" /\ todo = {}
        => ("recursive" \in out <=> \E d \in Defs : InlineMirin(d) /\ ReachesItself(d))

\* Every splice follows a plain call, as inline_check assumes.
Targets(c) == {c.callee} \union {crate.impls[i].method : i \in DOMAIN crate.impls}
PlainSplices ==
    \A d \in Defs : \A c \in ToSet(Def(d).calls) :
        (\E e \in Targets(c) : InlineMirin(e)) => c.plain /\ ~ Def(c.callee).decl

\* What the check let through is never spliced into itself, so the depth of
\* the splices is bounded by the number of inline defs and their assertion
\* cannot fail (splice_inline_body).
NoRecursiveSplice ==
    PlainSplices =>
        \A i, j \in DOMAIN frames : i < j => frames[i].def # frames[j].def

\* An instance of a def that gets no module, neither its own nor a copy.
Dangling(n) == ~ NeedsMono(n.subst) /\ n.callee \notin EmittedDefs

\* Every module the written file instantiates is in the file: the worklist has
\* served each request, the ones made while serving others included.
EveryInstanceHasAModule ==
    exit = 0 => \A m \in File : \A n \in m.insts :
                    Dangling(n) \/ \E h \in File : h.name = n.module

\* A specialised copy is emitted once, whatever asks for it.
CopiesComeOnce ==
    \A i, j \in DOMAIN mono : mono[i].name = mono[j].name => i = j

\* No module name begins with another's parts.
NamesApart ==
    \A d, e \in Defs : d # e => ~ IsPrefix(ModuleName(d), ModuleName(e))

\* The module that serves an instance is built from the def the call resolved
\* to, and a trait's declaration is never instantiated.
InstancesReachTheirCallee ==
    exit = 0 /\ NamesApart =>
        \A m \in File : \A n \in m.insts :
            /\ ~ Def(n.callee).decl
            /\ \A h \in File : h.name = n.module => h.def = n.callee

\* Exit code 0 means a clean crate, written whole: the gate of emission never
\* empties the file of a crate that the command line's checks let pass.
WrittenWhole ==
    exit = 0 => /\ crate.bad = {} /\ out = {}
                /\ \A d \in Defs : Emitted(d) =>
                        \E m \in ToSet(modules) : m.def = d /\ m.name = ModuleName(d)

\* Every run ends.
Terminates == <>(phase = "ended")

=============================================================================
