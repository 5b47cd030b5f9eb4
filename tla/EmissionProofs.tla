--------------------------- MODULE EmissionProofs ---------------------------
(***************************************************************************)
(* What holds of the compilation of any set of crates: the worklist of     *)
(* sv_file leaves no instance without a module, what inline_recurses lets  *)
(* through is never spliced into itself, only a clean crate gets a file,   *)
(* it is written whole, and each module in it is built from the def its    *)
(* instances resolved to.                                                  *)
(***************************************************************************)
EXTENDS Emission, WellFoundedInduction, FiniteSetTheorems, SequenceTheorems, TLAPS

-----------------------------------------------------------------------------
(* Sequences.                                                              *)

IsSeq(s) == s \in Seq(ToSet(s))

LEMMA AppendSeq ==
    ASSUME NEW s, IsSeq(s), NEW e
    PROVE  /\ IsSeq(Append(s, e))
           /\ ToSet(Append(s, e)) = ToSet(s) \union {e}
           /\ DOMAIN Append(s, e) = 1..(Len(s) + 1) /\ DOMAIN s = 1..Len(s) /\ Len(s) \in Nat
           /\ \A i \in DOMAIN s : Append(s, e)[i] = s[i]
           /\ Append(s, e)[Len(s) + 1] = e
  <1> DEFINE T == ToSet(s) \union {e}
             a == Append(s, e)
  <1>1. s \in Seq(T) /\ s \in Seq(ToSet(s))
    BY DEF IsSeq
  <1>2. /\ a \in Seq(T) /\ Len(a) = Len(s) + 1 /\ Len(s) \in Nat
        /\ DOMAIN a = 1..(Len(s) + 1) /\ DOMAIN s = 1..Len(s)
        /\ \A i \in DOMAIN s : a[i] = s[i]
        /\ a[Len(s) + 1] = e
    <2> HIDE DEF T
    <2>1. e \in T
      BY DEF T
    <2> QED BY <1>1, <2>1
  <1> HIDE DEF a
  <1>3. ToSet(a) = T
    <2>1. \A x \in ToSet(a) : x \in T
      BY <1>2 DEF ToSet
    <2>2. \A x \in ToSet(s) : x \in ToSet(a)
      <3> SUFFICES ASSUME NEW x \in ToSet(s) PROVE x \in ToSet(a)
        OBVIOUS
      <3>1. PICK i \in DOMAIN s : x = s[i]
        BY DEF ToSet
      <3>2. i \in DOMAIN a /\ a[i] = x
        BY <1>2, <3>1
      <3> QED BY <3>2 DEF ToSet
    <2>3. e \in ToSet(a)
      <3>1. Len(s) + 1 \in DOMAIN a
        BY <1>2
      <3> QED BY <1>2, <3>1 DEF ToSet
    <2> QED BY <2>1, <2>2, <2>3
  <1>4. IsSeq(a)
    BY <1>2, <1>3 DEF IsSeq
  <1> QED BY <1>2, <1>3, <1>4 DEF a

LEMMA FrontSeq ==
    ASSUME NEW s, IsSeq(s), s # <<>>
    PROVE  /\ IsSeq(Front(s))
           /\ DOMAIN Front(s) = 1..(Len(s) - 1) /\ DOMAIN s = 1..Len(s)
           /\ Len(s) \in Nat /\ Len(s) > 0
           /\ \A i \in DOMAIN Front(s) : Front(s)[i] = s[i]
  <1>1. s \in Seq(ToSet(s)) /\ Len(s) \in Nat /\ Len(s) > 0 /\ DOMAIN s = 1..Len(s)
    BY DEF IsSeq
  <1>2. /\ Front(s) \in Seq(ToSet(s)) /\ DOMAIN Front(s) = 1..(Len(s) - 1)
        /\ Len(Front(s)) = Len(s) - 1
        /\ \A i \in DOMAIN Front(s) : Front(s)[i] = s[i]
    BY <1>1 DEF Front
  <1>3. Front(s) \in Seq(ToSet(Front(s)))
    <2> DEFINE f == Front(s)
    <2>1. f \in [1..Len(f) -> ToSet(f)] /\ Len(f) \in Nat
      BY <1>1, <1>2 DEF ToSet
    <2> HIDE DEF f
    <2>2. f \in Seq(ToSet(f))
      BY <2>1
    <2> QED BY <2>2 DEF f
  <1> QED BY <1>1, <1>2, <1>3 DEF IsSeq

LEMMA SteppedSeq ==
    ASSUME IsSeq(frames)
    PROVE  /\ IsSeq(Stepped)
           /\ DOMAIN Stepped = DOMAIN frames /\ Len(Stepped) = Len(frames)
           /\ \A i \in DOMAIN frames : Stepped[i].def = frames[i].def
  <1>1. DOMAIN frames = 1..Len(frames) /\ Len(frames) \in Nat
    BY DEF IsSeq
  <1>2. DOMAIN Stepped = DOMAIN frames
    BY DEF Stepped
  <1>3. Stepped \in [1..Len(frames) -> ToSet(Stepped)]
    <2>1. \A i \in 1..Len(frames) : Stepped[i] \in ToSet(Stepped)
      BY <1>1, <1>2 DEF ToSet
    <2>2. Stepped = [i \in 1..Len(frames) |-> Stepped[i]]
      BY <1>1 DEF Stepped
    <2> QED BY <2>1, <2>2
  <1>4. Stepped \in Seq(ToSet(Stepped)) /\ Len(Stepped) = Len(frames)
    <2> HIDE DEF Stepped
    <2> QED BY <1>1, <1>3
  <1>5. ASSUME NEW i \in DOMAIN frames
        PROVE  Stepped[i].def = frames[i].def
    <2>1. CASE i = Len(frames)
      <3>1. Stepped[i] = [Frame(Top.def, Top.subst) EXCEPT !.next = Top.next + 1]
        BY <2>1 DEF Stepped
      <3>2. Stepped[i].def = Top.def
        BY <3>1 DEF Frame
      <3> QED BY <2>1, <3>2 DEF Top, Last
    <2>2. CASE i # Len(frames)
      BY <2>2 DEF Stepped
    <2> QED BY <2>1, <2>2
  <1> QED BY <1>2, <1>4, <1>5 DEF IsSeq

-----------------------------------------------------------------------------
(* The phases, and what each leaves for the next.                          *)

Passed == crate.bad \intersect GateChecks = {}

Seqs == IsSeq(frames) /\ IsSeq(reqs) /\ IsSeq(modules) /\ IsSeq(mono)

Flow ==
    /\ exit = 0 => phase = "ended"
    /\ phase \in {"syntax", "inline", "recurses", "gate"} =>
        modules = <<>> /\ frames = <<>> /\ reqs = <<>>
    /\ phase # "mono" /\ exit = -1 /\ phase # "reserved" => mono = <<>> /\ seen = {}
    /\ phase \in {"concrete", "mono"} => Passed
    /\ ~ Passed => modules = <<>> /\ mono = <<>>
    /\ phase \in {"mono", "reserved"} /\ Passed => todo = {}
    /\ exit = 0 /\ Passed => todo = {}
    /\ phase = "reserved" \/ exit = 0 => frames = <<>> /\ reqs = <<>>
    /\ exit = -1 <=> phase # "ended"

LEMMA NothingIsSeq == \A s : s = <<>> => IsSeq(s)
  <1> SUFFICES ASSUME NEW s, s = <<>> PROVE s \in Seq(ToSet(s))
    BY DEF IsSeq
  <1> DEFINE S == ToSet(s)
  <1> HIDE DEF S
  <1>1. s \in Seq(S)
    OBVIOUS
  <1> QED BY <1>1 DEF S

LEMMA AppendIsSeq == \A s, e : IsSeq(s) => IsSeq(Append(s, e))
  BY AppendSeq

LEMMA InitFlow == Init => Seqs /\ Flow
  <1> SUFFICES ASSUME Init PROVE Seqs /\ Flow
    OBVIOUS
  <1>1. Seqs
    <2>1. frames = <<>> /\ reqs = <<>> /\ modules = <<>> /\ mono = <<>>
      BY DEF Init
    <2> QED BY <2>1, NothingIsSeq DEF Seqs
  <1>2. Flow
    BY DEF Init, Flow
  <1> QED BY <1>1, <1>2

LEMMA BuildSeqs ==
    ASSUME Seqs, NEW d, NEW s, NEW name, Build(d, s, name)
    PROVE  IsSeq(frames')
  <1>1. IsSeq(<<Frame(d, s)>>)
    BY DEF IsSeq, ToSet
  <1> QED BY <1>1 DEF Build, Seqs

LEMMA NextSeqs == Seqs /\ [Next]_vars => Seqs'
  <1> SUFFICES ASSUME Seqs, [Next]_vars PROVE Seqs'
    OBVIOUS
  <1>1. CASE CheckSyntax \/ StartInlineCheck \/ PopCallee \/ Recursion \/ NoRecursion
             \/ Report \/ Gate \/ AllConcrete \/ AllServed \/ Write \/ Ended \/ UNCHANGED vars
    <2>1. UNCHANGED emitting
      BY <1>1 DEF CheckSyntax, StartInlineCheck, PopCallee, Recursion, NoRecursion, Report,
                  Gate, AllConcrete, AllServed, Write, Ended, vars, emitting
    <2> QED BY <2>1 DEF emitting, Seqs
  <1>2. CASE BuildConcrete
    <2>1. PICK d : Build(d, <<>>, ModuleName(d))
      BY <1>2 DEF BuildConcrete
    <2>2. IsSeq(frames')
      BY <2>1, BuildSeqs
    <2> QED BY <1>2, <2>2 DEF BuildConcrete, Seqs
  <1>3. CASE PopRequest
    <2>1. IsSeq(reqs')
      BY <1>3, FrontSeq DEF PopRequest, Seqs
    <2>2. IsSeq(frames')
      <3>1. CASE Last(reqs).name \in seen
        BY <1>3, <3>1 DEF PopRequest, Seqs
      <3>2. CASE Last(reqs).name \notin seen
        <4>1. Build(Last(reqs).callee, Last(reqs).subst, Last(reqs).name)
          BY <1>3, <3>2 DEF PopRequest
        <4> QED BY <4>1, BuildSeqs
      <3> QED BY <3>1, <3>2
    <2> QED BY <1>3, <2>1, <2>2 DEF PopRequest, Seqs
  <1>4. CASE SkipCall \/ SpliceTooDeep \/ InstantiatePanics
    <2>1. frames' \in {frames, Stepped}
      BY <1>4 DEF SkipCall, SpliceTooDeep, InstantiatePanics, Panic
    <2>2. UNCHANGED <<reqs, modules, mono>>
      BY <1>4 DEF SkipCall, SpliceTooDeep, InstantiatePanics, Panic, Emitter
    <2> QED BY <2>1, <2>2, SteppedSeq DEF Seqs
  <1>5. CASE SpliceCall
    <2>1. PICK f : frames' = Append(Stepped, f)
      BY <1>5 DEF SpliceCall
    <2>2. IsSeq(frames')
      BY <2>1, AppendSeq, SteppedSeq DEF Seqs
    <2> QED BY <1>5, <2>2 DEF SpliceCall, Emitter, Seqs
  <1>6. CASE InstantiateCall
    <2>1. frames' = Stepped /\ UNCHANGED <<modules, mono>>
      BY <1>6 DEF InstantiateCall, Emitter
    <2>2. reqs' = reqs \/ \E r : reqs' = Append(reqs, r)
      BY <1>6 DEF InstantiateCall
    <2>3. IsSeq(reqs')
      <3>1. CASE reqs' = reqs
        BY <3>1 DEF Seqs
      <3>2. CASE \E r : reqs' = Append(reqs, r)
        <4>1. PICK r : reqs' = Append(reqs, r)
          BY <3>2
        <4>2. IsSeq(Append(reqs, r))
          BY AppendIsSeq DEF Seqs
        <4> QED BY <4>1, <4>2
      <3> QED BY <2>2, <3>1, <3>2
    <2> QED BY <2>1, <2>3, SteppedSeq DEF Seqs
  <1>7. CASE EndSplice
    <2>1. frames # <<>> /\ frames' = Front(frames)
      BY <1>7 DEF EndSplice, Lowering
    <2>2. IsSeq(frames')
      BY <2>1, FrontSeq DEF Seqs
    <2> QED BY <1>7, <2>2 DEF EndSplice, Emitter, Seqs
  <1>8. CASE EndModule
    <2>1. /\ modules' = modules \/ modules' = Append(modules, cur)
          /\ mono' = mono \/ mono' = Append(mono, cur)
          /\ frames' = <<>> /\ reqs' = reqs
      BY <1>8 DEF EndModule
    <2>2. IsSeq(Append(modules, cur)) /\ IsSeq(Append(mono, cur))
      BY AppendIsSeq DEF Seqs
    <2>3. IsSeq(modules')
      BY <2>1, <2>2 DEF Seqs
    <2>4. IsSeq(mono')
      BY <2>1, <2>2 DEF Seqs
    <2>5. IsSeq(frames') /\ IsSeq(reqs')
      <3>1. IsSeq(frames')
        BY <2>1, NothingIsSeq
      <3> QED BY <2>1, <3>1 DEF Seqs
    <2> QED BY <2>3, <2>4, <2>5 DEF Seqs
  <1> QED
    BY <1>1, <1>2, <1>3, <1>4, <1>5, <1>6, <1>7, <1>8 DEF Next

LEMMA NextFlow == Flow /\ [Next]_vars => Flow'
  <1> SUFFICES ASSUME Flow, [Next]_vars PROVE Flow'
    OBVIOUS
  <1> USE DEF Flow, Passed, checking, emitting
  <1>1. CASE CheckSyntax
    BY <1>1 DEF CheckSyntax
  <1>2. CASE StartInlineCheck \/ PopCallee \/ Recursion \/ NoRecursion
    BY <1>2 DEF StartInlineCheck, PopCallee, Recursion, NoRecursion
  <1>3. CASE Report
    BY <1>3 DEF Report
  <1>4. CASE Gate
    BY <1>4 DEF Gate
  <1>5. CASE BuildConcrete
    BY <1>5 DEF BuildConcrete, Build
  <1>6. CASE AllConcrete \/ AllServed
    BY <1>6 DEF AllConcrete, AllServed
  <1>7. CASE PopRequest
    BY <1>7 DEF PopRequest, Build
  <1>8. CASE SkipCall \/ SpliceCall \/ EndSplice
    BY <1>8 DEF SkipCall, SpliceCall, EndSplice, Emitter, Lowering, AtCall
  <1>9. CASE SpliceTooDeep \/ InstantiatePanics
    BY <1>9 DEF SpliceTooDeep, InstantiatePanics, Instantiates, Panic, Emitter, Lowering, AtCall
  <1>10. CASE InstantiateCall
    BY <1>10 DEF InstantiateCall, Instantiates, Emitter, Lowering, AtCall
  <1>11. CASE EndModule
    BY <1>11 DEF EndModule, Lowering
  <1>12. CASE Write
    BY <1>12 DEF Write
  <1>13. CASE Ended \/ UNCHANGED vars
    BY <1>13 DEF Ended, vars
  <1> QED
    BY <1>1, <1>2, <1>3, <1>4, <1>5, <1>6, <1>7, <1>8, <1>9, <1>10, <1>11, <1>12, <1>13 DEF Next

-----------------------------------------------------------------------------
(* Every instance is waited for, or has its module.                        *)

Awaited(x) == x \in seen \/ \E i \in DOMAIN reqs : reqs[i].name = x

Settled(n) ==
    \/ Dangling(n)
    \/ NeedsMono(n.subst) /\ Awaited(n.module)
    \/ n.callee \in EmittedDefs /\ n.module = ModuleName(n.callee)

InProgress(x, p) == phase = p /\ frames # <<>> /\ cur.name = x
Made(x, ms) == \E m \in ToSet(ms) : m.name = x

AllSettled == \A m \in File \union {cur} : \A n \in m.insts : Settled(n)
CopiesMade == exit # 101 => \A x \in seen : Made(x, mono) \/ InProgress(x, "mono")
ConcreteMade ==
    Passed /\ (phase \in {"concrete", "mono", "reserved"} \/ exit = 0) =>
        \A d \in EmittedDefs :
            d \in todo \/ Made(ModuleName(d), modules) \/ InProgress(ModuleName(d), "concrete")

Served == AllSettled /\ CopiesMade /\ ConcreteMade

\* What the defs are does not change.
LEMMA CrateKept ==
    ASSUME UNCHANGED crate
    PROVE  /\ EmittedDefs' = EmittedDefs
           /\ \A d : ModuleName(d)' = ModuleName(d)
           /\ \A n : Dangling(n)' <=> Dangling(n)
           /\ Passed' <=> Passed
  BY DEF EmittedDefs, Emitted, Defs, Def, ModuleName, Dangling, Passed

LEMMA CrateConstant == [Next]_vars => UNCHANGED crate
  BY DEF Next, vars, CheckSyntax, StartInlineCheck, PopCallee, Recursion, NoRecursion, Report,
         Gate, BuildConcrete, AllConcrete, PopRequest, AllServed, SkipCall, SpliceCall,
         SpliceTooDeep, InstantiateCall, InstantiatePanics, Panic, EndSplice, EndModule, Write,
         Ended, Emitter, emitting, checking

\* A settled instance stays so as long as the names asked for are not forgotten.
LEMMA StaysSettled ==
    ASSUME UNCHANGED crate, NEW n, Settled(n), Awaited(n.module) => Awaited(n.module)'
    PROVE  Settled(n)'
  <1>1. /\ Dangling(n)' <=> Dangling(n)
        /\ EmittedDefs' = EmittedDefs
        /\ ModuleName(n.callee)' = ModuleName(n.callee)
    BY CrateKept
  <1>2. NeedsMono(n.subst)' <=> NeedsMono(n.subst)
    BY DEF NeedsMono
  <1> QED BY <1>1, <1>2 DEF Settled

LEMMA AwaitedKept ==
    ASSUME Seqs, [Next]_vars, NEW x, Awaited(x)
    PROVE  Awaited(x)'
  <1> USE DEF Awaited
  <1>1. CASE PopRequest
    <2>1. /\ DOMAIN Front(reqs) = 1..(Len(reqs) - 1) /\ DOMAIN reqs = 1..Len(reqs)
          /\ Len(reqs) \in Nat
          /\ \A i \in DOMAIN Front(reqs) : Front(reqs)[i] = reqs[i]
      BY <1>1, FrontSeq DEF PopRequest, Seqs
    <2>2. seen \subseteq seen' /\ Last(reqs).name \in seen' /\ reqs' = Front(reqs)
      BY <1>1 DEF PopRequest
    <2>3. ASSUME NEW i \in DOMAIN reqs, reqs[i].name = x PROVE Awaited(x)'
      <3>1. CASE i = Len(reqs)
        BY <2>2, <2>3, <3>1 DEF Last
      <3>2. CASE i # Len(reqs)
        <4>1. i \in DOMAIN Front(reqs) /\ Front(reqs)[i].name = x
          BY <2>1, <2>3, <3>2
        <4> QED BY <4>1, <2>2
      <3> QED BY <3>1, <3>2
    <2> QED BY <2>2, <2>3
  <1>2. CASE InstantiateCall
    <2>1. reqs' = reqs \/ \E r : reqs' = Append(reqs, r)
      BY <1>2 DEF InstantiateCall
    <2>2. seen' = seen
      BY <1>2 DEF InstantiateCall, Emitter
    <2>3. CASE \E r : reqs' = Append(reqs, r)
      <3>1. PICK r : reqs' = Append(reqs, r)
        BY <2>3
      <3>2. /\ DOMAIN reqs' = 1..(Len(reqs) + 1) /\ DOMAIN reqs = 1..Len(reqs)
            /\ Len(reqs) \in Nat
            /\ \A i \in DOMAIN reqs : reqs'[i] = reqs[i]
        BY <3>1, AppendSeq DEF Seqs
      <3>3. \A i \in DOMAIN reqs : i \in DOMAIN reqs'
        BY <3>2
      <3> QED BY <2>2, <3>2, <3>3
    <2> QED BY <2>1, <2>2, <2>3
  <1>3. CASE UNCHANGED <<reqs, seen>>
    BY <1>3
  <1> QED
    BY <1>1, <1>2, <1>3 DEF Next, vars, CheckSyntax, StartInlineCheck, PopCallee, Recursion,
         NoRecursion, Report, Gate, BuildConcrete, AllConcrete, AllServed, SkipCall,
         SpliceCall, SpliceTooDeep, InstantiatePanics, Panic, EndSplice, EndModule,
         Write, Ended, Emitter, emitting, checking

\* The modules of the next file are those of this one and, at the end of a
\* module, the one in progress.
LEMMA FileGrows ==
    ASSUME Seqs, [Next]_vars
    PROVE  /\ ToSet(modules) \subseteq ToSet(modules')
           /\ ToSet(mono) \subseteq ToSet(mono')
           /\ ToSet(modules') \union ToSet(mono') \subseteq File \union {cur}
  <1>1. CASE EndModule
    <2>1. /\ ToSet(Append(modules, cur)) = ToSet(modules) \union {cur}
          /\ ToSet(Append(mono, cur)) = ToSet(mono) \union {cur}
      BY AppendSeq DEF Seqs
    <2>2. /\ modules' = modules \/ modules' = Append(modules, cur)
          /\ mono' = mono \/ mono' = Append(mono, cur)
      BY <1>1 DEF EndModule
    <2> QED BY <2>1, <2>2 DEF File
  <1>2. CASE UNCHANGED <<modules, mono>>
    BY <1>2 DEF File
  <1> QED
    BY <1>1, <1>2 DEF Next, vars, CheckSyntax, StartInlineCheck, PopCallee, Recursion,
         NoRecursion, Report, Gate, BuildConcrete, AllConcrete, PopRequest, AllServed, SkipCall,
         SpliceCall, SpliceTooDeep, InstantiateCall, InstantiatePanics, Panic, EndSplice,
         Write, Ended, Emitter, emitting, checking

LEMMA NextSettled == Seqs /\ AllSettled /\ [Next]_vars => AllSettled'
  <1> SUFFICES ASSUME Seqs, AllSettled, [Next]_vars,
                      NEW m \in (File \union {cur})', NEW n \in m.insts
               PROVE  Settled(n)'
    BY DEF AllSettled
  <1>1. UNCHANGED crate
    BY CrateConstant
  <1>2. CASE m \in File \union {cur}
    <2>1. Settled(n)
      BY <1>2 DEF AllSettled
    <2> QED BY <2>1, <1>1, AwaitedKept, StaysSettled
  <1>3. CASE m \notin File \union {cur}
    <2>1. m = cur' /\ cur' # cur
      BY <1>3, FileGrows DEF File
    <2>2. CASE InstantiateCall
      <3> DEFINE s == InstanceSubst(Callee, Call, Top.subst)
                 name == IF NeedsMono(s) THEN MonoName(Callee, s) ELSE ModuleName(Callee)
                 new == [module |-> name, callee |-> Callee, subst |-> s]
      <3>1. /\ cur'.insts = cur.insts \union {new}
            /\ reqs' = IF NeedsMono(s)
                       THEN Append(reqs, [callee |-> Callee, subst |-> s, name |-> name])
                       ELSE reqs
        BY <2>2 DEF InstantiateCall
      <3>2. CASE n \in cur.insts
        <4>1. Settled(n)
          BY <3>2 DEF AllSettled
        <4> QED BY <4>1, <1>1, AwaitedKept, StaysSettled
      <3>3. CASE n = new
        <4> HIDE DEF s
        <4>1. n.module = name /\ n.callee = Callee /\ n.subst = s
          BY <3>3
        <4>2. CASE NeedsMono(s)
          <5> DEFINE r == [callee |-> Callee, subst |-> s, name |-> name]
          <5>1. r.name = name /\ reqs' = Append(reqs, r)
            BY <4>2, <3>1
          <5> HIDE DEF r, name
          <5>2. Len(reqs) + 1 \in DOMAIN reqs' /\ reqs'[Len(reqs) + 1] = r
            BY <5>1, AppendSeq DEF Seqs
          <5>3. Awaited(n.module)'
            BY <5>1, <5>2, <4>1 DEF Awaited
          <5>4. NeedsMono(n.subst)'
            BY <4>1, <4>2 DEF NeedsMono
          <5> QED BY <5>3, <5>4 DEF Settled
        <4>3. CASE ~ NeedsMono(s)
          <5>1. n.module = ModuleName(n.callee) /\ ~ NeedsMono(n.subst)
            BY <4>1, <4>3
          <5>2. Settled(n)
            BY <5>1 DEF Settled, Dangling
          <5> QED BY <5>2, <1>1, AwaitedKept, StaysSettled
        <4> QED BY <4>2, <4>3
      <3> QED BY <2>1, <3>1, <3>2, <3>3
    <2>3. CASE cur'.insts = {}
      BY <2>1, <2>3
    <2> QED
      BY <2>1, <2>2, <2>3 DEF Next, vars, CheckSyntax, StartInlineCheck, PopCallee, Recursion,
         NoRecursion, Report, Gate, BuildConcrete, Build, AllConcrete, PopRequest, AllServed,
         SkipCall, SpliceCall, SpliceTooDeep, InstantiatePanics, Panic, EndSplice, EndModule,
         None, Write, Ended, Emitter, emitting, checking
  <1> QED BY <1>2, <1>3

LEMMA MadeKept ==
    ASSUME Seqs, [Next]_vars, NEW x
    PROVE  /\ Made(x, mono) => Made(x, mono)'
           /\ Made(x, modules) => Made(x, modules)'
  BY FileGrows DEF Made

\* A module in progress stays so until it is finished, or the process panics.
LEMMA UnderWay ==
    ASSUME Seqs, Flow, [Next]_vars, ~ EndModule, exit' # 101,
           NEW x, NEW p \in {"concrete", "mono"}, InProgress(x, p)
    PROVE  InProgress(x, p)'
  <1>1. CASE SkipCall \/ SpliceCall \/ InstantiateCall \/ EndSplice
    <2>1. phase' = phase /\ cur'.name = cur.name
      BY <1>1 DEF SkipCall, SpliceCall, InstantiateCall, EndSplice
    <2>2. /\ frames # <<>>
          /\ \/ frames' = Stepped
             \/ \E f : frames' = Append(Stepped, f)
             \/ (Len(frames) > 1 /\ frames' = Front(frames))
      <3>1. frames # <<>>
        BY <1>1 DEF SkipCall, SpliceCall, InstantiateCall, Instantiates, EndSplice, AtCall, Lowering
      <3>2. CASE SkipCall \/ InstantiateCall
        BY <3>1, <3>2 DEF SkipCall, InstantiateCall
      <3>3. CASE SpliceCall
        <4> DEFINE f == Frame(Callee, SpliceSubst(Callee, Call, Top.subst))
        <4>1. frames' = Append(Stepped, f)
          BY <3>3 DEF SpliceCall
        <4> HIDE DEF f
        <4> QED BY <3>1, <4>1
      <3>4. CASE EndSplice
        BY <3>1, <3>4 DEF EndSplice
      <3> QED BY <1>1, <3>2, <3>3, <3>4
    <2>3. frames' # <<>>
      <3>1. DOMAIN frames = 1..Len(frames) /\ Len(frames) \in Nat /\ Len(frames) > 0
        BY <2>2, FrontSeq DEF Seqs
      <3>2. CASE frames' = Stepped
        <4>1. DOMAIN Stepped = DOMAIN frames
          BY SteppedSeq DEF Seqs
        <4>2. 1 \in DOMAIN frames'
          BY <3>1, <3>2, <4>1
        <4> QED BY <4>2
      <3>3. CASE \E f : frames' = Append(Stepped, f)
        <4>1. PICK f : frames' = Append(Stepped, f)
          BY <3>3
        <4>2. IsSeq(Stepped)
          BY SteppedSeq DEF Seqs
        <4>3. Len(Stepped) + 1 \in DOMAIN frames'
          BY <4>1, <4>2, AppendSeq
        <4> QED BY <4>3
      <3>4. CASE Len(frames) > 1 /\ frames' = Front(frames)
        <4>1. DOMAIN Front(frames) = 1..(Len(frames) - 1)
          BY <2>2, FrontSeq DEF Seqs
        <4>2. 1 \in DOMAIN frames'
          BY <3>1, <3>4, <4>1
        <4> QED BY <4>2
      <3> QED BY <2>2, <3>2, <3>3, <3>4
    <2> QED BY <2>1, <2>3 DEF InProgress
  <1>2. CASE UNCHANGED vars
    BY <1>2 DEF vars, InProgress
  <1> QED
    BY <1>1, <1>2 DEF InProgress, Flow, Next, CheckSyntax, StartInlineCheck, PopCallee,
         Recursion, NoRecursion, Report, Gate, BuildConcrete, AllConcrete, PopRequest,
         AllServed, SpliceTooDeep, InstantiatePanics, Panic, Write, Ended

\* What is in progress either goes on, is finished, or the process panics.
LEMMA ProgressKept ==
    ASSUME Seqs, Flow, [Next]_vars, NEW x
    PROVE  /\ InProgress(x, "mono") =>
                exit' = 101 \/ InProgress(x, "mono")' \/ Made(x, mono)'
           /\ InProgress(x, "concrete") =>
                exit' = 101 \/ InProgress(x, "concrete")' \/ Made(x, modules)'
  <1>1. CASE EndModule
    <2>1. /\ cur \in ToSet(Append(modules, cur))
          /\ cur \in ToSet(Append(mono, cur))
      BY AppendSeq DEF Seqs
    <2>2. /\ phase = "mono" => mono' = Append(mono, cur)
          /\ phase = "concrete" => modules' = Append(modules, cur)
      BY <1>1 DEF EndModule
    <2> QED BY <2>1, <2>2 DEF InProgress, Made
  <1>2. CASE ~ EndModule
    BY <1>2, UnderWay
  <1> QED BY <1>1, <1>2

LEMMA NextCopies == Seqs /\ Flow /\ CopiesMade /\ [Next]_vars => CopiesMade'
  <1> SUFFICES ASSUME Seqs, Flow, CopiesMade, [Next]_vars, exit' # 101, NEW x \in seen'
               PROVE  Made(x, mono)' \/ InProgress(x, "mono")'
    BY DEF CopiesMade
  <1>1. CASE x \in seen /\ exit # 101
    BY <1>1, MadeKept, ProgressKept DEF CopiesMade
  <1>2. CASE exit = 101
    <2>1. phase = "ended"
      BY <1>2 DEF Flow
    <2>2. exit' = 101
      BY <1>2, <2>1 DEF Next, vars, CheckSyntax, StartInlineCheck, PopCallee, Recursion,
         NoRecursion, Report, Gate, BuildConcrete, AllConcrete, PopRequest, AllServed, SkipCall,
         SpliceCall, SpliceTooDeep, InstantiateCall, InstantiatePanics, Instantiates, Panic,
         EndSplice, EndModule, Write, Ended, AtCall, Lowering
    <2> QED BY <2>2
  <1>3. CASE x \notin seen
    <2>1. PopRequest
      BY <1>3 DEF Next, vars, CheckSyntax, StartInlineCheck, PopCallee, Recursion,
         NoRecursion, Report, Gate, BuildConcrete, AllConcrete, AllServed, SkipCall,
         SpliceCall, SpliceTooDeep, InstantiateCall, InstantiatePanics, Panic,
         EndSplice, EndModule, Write, Ended, Emitter, emitting, checking
    <2>2. /\ x = Last(reqs).name /\ phase = "mono"
          /\ Build(Last(reqs).callee, Last(reqs).subst, Last(reqs).name)
      BY <1>3, <2>1 DEF PopRequest
    <2>3. phase' = phase /\ frames' = <<Frame(Last(reqs).callee, Last(reqs).subst)>>
      BY <2>2 DEF Build
    <2>4. cur'.name = x
      BY <2>2 DEF Build
    <2> QED BY <2>2, <2>3, <2>4 DEF InProgress
  <1> QED BY <1>1, <1>2, <1>3

LEMMA NextConcrete == Seqs /\ Flow /\ ConcreteMade /\ [Next]_vars => ConcreteMade'
  <1> DEFINE On == phase \in {"concrete", "mono", "reserved"} \/ exit = 0
  <1> SUFFICES ASSUME Seqs, Flow, ConcreteMade, [Next]_vars, Passed', On',
                      NEW d \in EmittedDefs'
               PROVE  \/ d \in todo' \/ Made(ModuleName(d)', modules')
                      \/ InProgress(ModuleName(d), "concrete")'
    BY DEF ConcreteMade, Made
  <1>1. UNCHANGED crate
    BY CrateConstant
  <1>2. d \in EmittedDefs /\ Passed /\ ModuleName(d)' = ModuleName(d)
    BY <1>1, CrateKept
  <1>x. PICK x : x = ModuleName(d)
    OBVIOUS
  <1>3. exit' # 101
    BY DEF Flow, Next, vars, CheckSyntax, StartInlineCheck, PopCallee, Recursion,
         NoRecursion, Report, Gate, BuildConcrete, Build, AllConcrete, PopRequest, AllServed, SkipCall,
         SpliceCall, SpliceTooDeep, InstantiateCall, InstantiatePanics, Instantiates, Panic,
         EndSplice, EndModule, Write, Ended, AtCall, Lowering
  <1>4. CASE Gate
    <2>1. todo' = EmittedDefs
      BY <1>2, <1>4 DEF Gate, Passed
    <2> QED BY <1>2, <2>1
  <1>5. CASE ~ Gate /\ On
    <2>1. d \in todo \/ Made(x, modules) \/ InProgress(x, "concrete")
      BY <1>2, <1>5, <1>x DEF ConcreteMade
    <2>2. CASE Made(x, modules) \/ InProgress(x, "concrete")
      <3>1. Made(x, modules)' \/ InProgress(x, "concrete")'
        BY <2>2, <1>3, MadeKept, ProgressKept
      <3> QED BY <3>1, <1>2, <1>x DEF Made, InProgress
    <2>3. CASE d \in todo /\ d \notin todo'
      <3>1. BuildConcrete
        BY <1>5, <2>3 DEF Flow, Next, vars, CheckSyntax, StartInlineCheck, PopCallee, Recursion,
         NoRecursion, Report, AllConcrete, PopRequest, AllServed, SkipCall, SpliceCall,
         SpliceTooDeep, InstantiateCall, InstantiatePanics, Panic, EndSplice, EndModule, Write,
         Ended, Emitter, emitting, checking
      <3>2. Build(d, <<>>, ModuleName(d)) /\ phase = "concrete"
        BY <3>1, <2>3 DEF BuildConcrete
      <3>3. phase' = phase /\ frames' = <<Frame(d, <<>>)>>
        BY <3>2, <1>3 DEF Build
      <3>4. cur'.name = x
        BY <3>2, <1>x DEF Build
      <3> QED BY <3>2, <3>3, <3>4, <1>2, <1>x DEF InProgress
    <2> QED BY <2>1, <2>2, <2>3
  <1>6. CASE ~ Gate /\ ~ On
    <2>1. FALSE
      BY <1>6 DEF Flow, Next, vars, CheckSyntax, StartInlineCheck, PopCallee, Recursion,
         NoRecursion, Report, BuildConcrete, Build, AllConcrete, PopRequest, AllServed, SkipCall,
         SpliceCall, SpliceTooDeep, InstantiateCall, InstantiatePanics, Instantiates, Panic,
         EndSplice, EndModule, Write, Ended, AtCall, Lowering
    <2> QED BY <2>1
  <1> QED BY <1>4, <1>5, <1>6

LEMMA InitServed == Init => Served
  <1> SUFFICES ASSUME Init PROVE Served
    OBVIOUS
  <1>1. modules = <<>> /\ mono = <<>> /\ seen = {} /\ cur = None /\ phase = "syntax" /\ exit = -1
    BY DEF Init
  <1>2. File \union {cur} = {None}
    BY <1>1 DEF File, ToSet
  <1>3. AllSettled
    BY <1>2 DEF AllSettled, None
  <1>4. CopiesMade /\ ConcreteMade
    BY <1>1 DEF CopiesMade, ConcreteMade
  <1> QED BY <1>3, <1>4 DEF Served

LEMMA ServedHasModules == Seqs /\ Flow /\ Served => EveryInstanceHasAModule
  <1> SUFFICES ASSUME Seqs, Flow, Served, exit = 0, NEW m \in File, NEW n \in m.insts, ~ Dangling(n)
               PROVE  \E h \in File : h.name = n.module
    BY DEF EveryInstanceHasAModule
  <1>1. frames = <<>> /\ reqs = <<>> /\ phase = "ended"
    BY DEF Flow
  <1>2. Passed /\ todo = {}
    <2>1. ASSUME ~ Passed PROVE FALSE
      <3>1. modules = <<>> /\ mono = <<>>
        BY <2>1 DEF Flow
      <3> QED BY <3>1 DEF File, ToSet
    <2> QED BY <2>1 DEF Flow
  <1>3. Settled(n)
    BY DEF Served, AllSettled
  <1>4. CASE Awaited(n.module)
    <2>1. n.module \in seen
      BY <1>1, <1>4 DEF Awaited
    <2>2. Made(n.module, mono)
      BY <2>1, <1>1 DEF Served, CopiesMade, InProgress
    <2> QED BY <2>2 DEF Made, File
  <1>5. CASE n.callee \in EmittedDefs /\ n.module = ModuleName(n.callee)
    <2>1. Made(n.module, modules)
      BY <1>1, <1>2, <1>5 DEF Served, ConcreteMade, InProgress
    <2> QED BY <2>1 DEF Made, File
  <1> QED BY <1>3, <1>4, <1>5 DEF Settled

\* Whatever the crates, their generics and their calls: when the command line
\* exits with code 0, every module the written file instantiates is in it.
THEOREM ModulesAreThere == Spec => []EveryInstanceHasAModule
  <1> DEFINE Inv == Seqs /\ Flow /\ Served
  <1>1. Init => Inv
    BY InitFlow, InitServed
  <1>2. Inv /\ [Next]_vars => Inv'
    BY NextSeqs, NextFlow, NextSettled, NextCopies, NextConcrete DEF Served
  <1>3. Inv => EveryInstanceHasAModule
    BY ServedHasModules
  <1> QED BY <1>1, <1>2, <1>3, PTL DEF Spec

-----------------------------------------------------------------------------
(* A copy is emitted once.                                                 *)

Once ==
    /\ \A i \in DOMAIN mono : mono[i].name \in seen
    /\ phase = "mono" /\ frames # <<>> =>
        cur.name \in seen /\ \A i \in DOMAIN mono : mono[i].name # cur.name
    /\ CopiesComeOnce

LEMMA NextOnce == Seqs /\ Flow /\ Once /\ [Next]_vars => Once'
  <1> SUFFICES ASSUME Seqs, Flow, Once, [Next]_vars PROVE Once'
    OBVIOUS
  <1>1. CASE PopRequest
    <2>1. CASE Last(reqs).name \in seen
      BY <1>1, <2>1 DEF PopRequest, Once, CopiesComeOnce
    <2>2. CASE Last(reqs).name \notin seen
      <3>1. /\ seen' = seen \union {Last(reqs).name} /\ mono' = mono
            /\ Build(Last(reqs).callee, Last(reqs).subst, Last(reqs).name)
        BY <1>1, <2>2 DEF PopRequest
      <3>2. cur'.name = Last(reqs).name
        BY <3>1 DEF Build
      <3> QED BY <2>2, <3>1, <3>2 DEF Once, CopiesComeOnce
    <2> QED BY <2>1, <2>2
  <1>2. CASE EndModule /\ mono' # mono
    <2>1. mono' = Append(mono, cur) /\ phase = "mono" /\ frames # <<>>
      BY <1>2 DEF EndModule, Lowering
    <2>2. seen' = seen /\ frames' = <<>>
      BY <1>2 DEF EndModule
    <2>3. /\ DOMAIN mono' = 1..(Len(mono) + 1) /\ DOMAIN mono = 1..Len(mono) /\ Len(mono) \in Nat
          /\ \A i \in DOMAIN mono : mono'[i] = mono[i]
          /\ mono'[Len(mono) + 1] = cur
      BY <2>1, AppendSeq DEF Seqs
    <2>4. \A i \in DOMAIN mono' : i \in DOMAIN mono \/ i = Len(mono) + 1
      BY <2>3
    <2>5. \A i \in DOMAIN mono' : mono'[i].name \in seen'
      BY <2>1, <2>2, <2>3, <2>4 DEF Once
    <2>6. \A i, j \in DOMAIN mono' : mono'[i].name = mono'[j].name => i = j
      BY <2>1, <2>3, <2>4 DEF Once, CopiesComeOnce
    <2> QED BY <2>2, <2>5, <2>6 DEF Once, CopiesComeOnce
  <1>3. CASE mono' = mono /\ seen' = seen
             /\ (phase' = "mono" /\ frames' # <<>> =>
                    phase = "mono" /\ frames # <<>> /\ cur'.name = cur.name)
    BY <1>3 DEF Once, CopiesComeOnce
  <1>4. CASE SkipCall \/ SpliceCall \/ InstantiateCall \/ EndSplice
    <2>1. /\ mono' = mono /\ seen' = seen /\ phase' = phase /\ cur'.name = cur.name
      BY <1>4 DEF SkipCall, SpliceCall, InstantiateCall, EndSplice, Emitter
    <2>2. frames # <<>>
      BY <1>4 DEF SkipCall, SpliceCall, InstantiateCall, Instantiates, EndSplice, AtCall, Lowering
    <2> QED BY <1>3, <2>1, <2>2
  <1> QED
    BY <1>1, <1>2, <1>3, <1>4 DEF Next, vars, CheckSyntax, StartInlineCheck, PopCallee, Recursion,
         NoRecursion, Report, Gate, BuildConcrete, Build, AllConcrete, AllServed,
         SpliceTooDeep, InstantiatePanics, Panic, EndModule, Write, Ended, Emitter,
         emitting, checking

\* No name is emitted for two copies, whatever asks for it and however often.
THEOREM OneModulePerName == Spec => []CopiesComeOnce
  <1> DEFINE Inv == Seqs /\ Flow /\ Once
  <1>1. Init => Inv
    <2>1. Init => mono = <<>> /\ phase = "syntax"
      BY DEF Init
    <2> QED BY <2>1, InitFlow DEF Once, CopiesComeOnce
  <1>2. Inv /\ [Next]_vars => Inv'
    BY NextSeqs, NextFlow, NextOnce
  <1>3. Inv => CopiesComeOnce
    BY DEF Once
  <1> QED BY <1>1, <1>2, <1>3, PTL DEF Spec

-----------------------------------------------------------------------------
(* What inline_recurses lets through.                                      *)

Free(d) == \E S : BelowIn(d, S) /\ d \notin S

Searched ==
    phase = "recurses" =>
        /\ InlineCallees(root) \subseteq visited \union stack
        /\ \A e \in visited : InlineCallees(e) \subseteq visited \union stack
        /\ root \notin visited

Judged ==
    /\ \A d \in cleared : Free(d)
    /\ phase = "inline" => "recursive" \in out \/ InlineDefs \subseteq cleared \union todo
    /\ phase = "recurses" => "recursive" \in out \/ InlineDefs \subseteq cleared \union todo \union {root}
    /\ phase \in {"gate", "concrete", "mono", "reserved"} \/ frames # <<>> => InlineDefs \subseteq cleared

LEMMA InlineKept ==
    ASSUME UNCHANGED crate
    PROVE  /\ \A d : InlineCallees(d)' = InlineCallees(d)
           /\ \A d : Free(d)' <=> Free(d)
           /\ InlineDefs' = InlineDefs
           /\ \A d : InlineMirin(d)' <=> InlineMirin(d)
           /\ \A d, S : BelowIn(d, S)' <=> BelowIn(d, S)
           /\ PlainSplices' <=> PlainSplices
           /\ Defs' = Defs /\ EmittedDefs' = EmittedDefs
           /\ \A d : Def(d)' = Def(d)
  BY DEF InlineCallees, IsInlineCall, InlineMirin, Free, BelowIn, ClosedUnderCallees, InlineDefs,
         Defs, Def, PlainSplices, Targets, EmittedDefs, Emitted

LEMMA NextSearched == Searched /\ [Next]_vars => Searched'
  <1> SUFFICES ASSUME Searched, [Next]_vars, phase' = "recurses" PROVE Searched'
    BY DEF Searched
  <1>1. \A d : InlineCallees(d)' = InlineCallees(d)
    BY CrateConstant, InlineKept
  <1>2. CASE StartInlineCheck
    <2>1. stack' = InlineCallees(root') /\ visited' = {}
      BY <1>2 DEF StartInlineCheck
    <2>2. InlineCallees(root)' = InlineCallees(root')
      BY CrateConstant DEF InlineCallees, IsInlineCall, InlineMirin, Def
    <2> QED BY <2>1, <2>2 DEF Searched
  <1>3. CASE PopCallee
    <2>1. PICK d \in stack :
              /\ d # root
              /\ visited' = visited \union {d}
              /\ stack' = (stack \ {d}) \union (IF d \in visited THEN {} ELSE InlineCallees(d))
      BY <1>3 DEF PopCallee
    <2>2. phase = "recurses" /\ root' = root
      BY <1>3 DEF PopCallee
    <2>3. visited \union stack \subseteq visited' \union stack' /\ root \notin visited'
      BY <2>1, <2>2 DEF Searched
    <2>4. \A e \in visited' : InlineCallees(e) \subseteq visited' \union stack'
      BY <2>1, <2>2, <2>3 DEF Searched
    <2>5. InlineCallees(root) \subseteq visited' \union stack'
      BY <2>2, <2>3 DEF Searched
    <2>6. InlineCallees(root)' = InlineCallees(root)
      BY CrateConstant, <2>2 DEF InlineCallees, IsInlineCall, InlineMirin, Def
    <2> QED BY <1>1, <2>2, <2>3, <2>4, <2>5, <2>6 DEF Searched
  <1>4. CASE UNCHANGED vars
    BY <1>4, <1>1 DEF vars, Searched, InlineCallees, IsInlineCall, InlineMirin, Def
  <1> QED
    BY <1>2, <1>3, <1>4 DEF Next, CheckSyntax, Recursion, NoRecursion, Report, Gate,
         BuildConcrete, Build, AllConcrete, PopRequest, AllServed, SkipCall, SpliceCall, SpliceTooDeep,
         InstantiateCall, InstantiatePanics, Instantiates, Panic, EndSplice, EndModule, Write, Ended,
         AtCall, Lowering

LEMMA NextJudged == Flow /\ Searched /\ Judged /\ [Next]_vars => Judged'
  <1> SUFFICES ASSUME Flow, Searched, Judged, [Next]_vars PROVE Judged'
    OBVIOUS
  <1>1. /\ \A d : Free(d)' <=> Free(d)
        /\ InlineDefs' = InlineDefs
    BY CrateConstant, InlineKept
  <1>2. CASE CheckSyntax
    <2>1. frames = <<>> /\ frames' = frames /\ cleared' = cleared
      BY <1>2 DEF CheckSyntax, Flow, emitting
    <2>2. phase' = "ended" \/ (phase' = "inline" /\ todo' = InlineDefs)
      BY <1>2 DEF CheckSyntax
    <2> QED BY <1>1, <2>1, <2>2 DEF Judged
  <1>3. CASE StartInlineCheck
    <2>1. frames = <<>> /\ frames' = frames /\ cleared' = cleared /\ out' = out /\ phase = "inline" /\ phase' = "recurses"
      BY <1>3 DEF StartInlineCheck, Flow, emitting
    <2>2. todo \subseteq todo' \union {root'}
      BY <1>3 DEF StartInlineCheck
    <2> QED BY <1>1, <2>1, <2>2 DEF Judged
  <1>4. CASE PopCallee
    BY <1>1, <1>4 DEF PopCallee, Judged, Flow, emitting
  <1>5. CASE Recursion
    <2>1. frames = <<>> /\ frames' = frames /\ cleared' = cleared /\ phase' = "inline" /\ "recursive" \in out'
      BY <1>5 DEF Recursion, Flow, emitting, checking
    <2> QED BY <1>1, <2>1 DEF Judged
  <1>6. CASE NoRecursion
    <2>1. /\ frames = <<>> /\ frames' = frames /\ cleared' = cleared \union {root}
          /\ phase' = "inline" /\ phase = "recurses" /\ out' = out /\ todo' = todo /\ stack = {}
      BY <1>6 DEF NoRecursion, Flow, emitting
    <2>2. Free(root)
      <3>1. BelowIn(root, visited) /\ root \notin visited
        BY <2>1 DEF Searched, BelowIn, ClosedUnderCallees
      <3> QED BY <3>1 DEF Free
    <2>3. \A d \in cleared' : Free(d)'
      BY <1>1, <2>1, <2>2 DEF Judged
    <2>4. "recursive" \in out' \/ InlineDefs' \subseteq cleared' \union todo'
      BY <1>1, <2>1 DEF Judged
    <2> QED BY <2>1, <2>3, <2>4 DEF Judged
  <1>7. CASE Report
    <2>1. /\ frames = <<>> /\ frames' = frames /\ cleared' = cleared /\ phase = "inline" /\ todo = {}
          /\ phase' \in {"ended", "gate"} /\ (phase' = "gate" => out = {})
      BY <1>7 DEF Report, Flow, emitting, checking
    <2> QED BY <1>1, <2>1 DEF Judged
  <1>8. CASE Gate \/ AllConcrete \/ AllServed \/ Write
    <2>1. /\ phase \in {"gate", "concrete", "mono", "reserved"} /\ cleared' = cleared
          /\ phase' \notin {"inline", "recurses"}
      BY <1>8 DEF Gate, AllConcrete, AllServed, Write, checking
    <2> QED BY <1>1, <2>1 DEF Judged
  <1>9. CASE BuildConcrete \/ PopRequest \/ EndModule
    <2>1. /\ phase \in {"concrete", "mono"} /\ cleared' = cleared
          /\ phase' \notin {"inline", "recurses"}
      BY <1>9 DEF BuildConcrete, PopRequest, EndModule, Build, Lowering, checking
    <2> QED BY <1>1, <2>1 DEF Judged
  <1>10. CASE SkipCall \/ SpliceCall \/ SpliceTooDeep \/ InstantiateCall \/ InstantiatePanics \/ EndSplice
    <2>1. /\ phase \in {"concrete", "mono"} /\ cleared' = cleared
          /\ phase' \notin {"inline", "recurses"}
      BY <1>10 DEF SkipCall, SpliceCall, SpliceTooDeep, InstantiateCall, InstantiatePanics, EndSplice,
            Instantiates, AtCall, Lowering, Panic, Emitter, checking
    <2> QED BY <1>1, <2>1 DEF Judged
  <1>11. CASE Ended \/ UNCHANGED vars
    <2>1. UNCHANGED vars
      BY <1>11 DEF Ended
    <2> QED BY <1>1, <2>1 DEF vars, Judged
  <1> QED
    BY <1>2, <1>3, <1>4, <1>5, <1>6, <1>7, <1>8, <1>9, <1>10, <1>11 DEF Next

-----------------------------------------------------------------------------
(* Every splice goes to a callee of the one before it.                     *)

LEMMA Least ==
    ASSUME NEW T, T \subseteq Nat, T # {}
    PROVE  \E m \in T : \A k \in T : m <= k
  <1> DEFINE R == {p \in Nat \X Nat : p[1] < p[2]}
  <1>1. IsWellFoundedOn(R, Nat)
    BY NatLessThanWellFounded DEF OpToRel
  <1>2. PICK m \in T : \A k \in T : ~ (<<k, m>> \in R)
    <2> HIDE DEF R
    <2> QED BY <1>1, WFMin
  <1>3. ASSUME NEW k \in T PROVE m <= k
    <2>1. m \in Nat /\ k \in Nat /\ ~ (<<k, m>> \in R)
      BY <1>2
    <2>2. k < m => <<k, m>> \in R
      BY <2>1
    <2> QED BY <2>1, <2>2
  <1> QED BY <1>3

\* What a call resolves to is the def it names or an impl's method.
LEMMA TargetKnown ==
    ASSUME crate \in Crates, NEW c, NEW s
    PROVE  /\ ~ Def(c.callee).decl => Target(c, s) = c.callee
           /\ Target(c, s) \in Targets(c)
           /\ Targets(c) \ {c.callee} \subseteq Defs
  <1> DEFINE F == FittingImpls(c, s)
  <1>1. /\ DOMAIN crate.impls \subseteq Nat
        /\ \A i \in DOMAIN crate.impls : crate.impls[i].method \in Defs
    BY CrateAssumption DEF Defs
  <1>2. CASE Redirected(c, s)
    <2>1. F # {} /\ F \subseteq DOMAIN crate.impls
      BY <1>2 DEF Redirected, FittingImpls
    <2>2. \E m \in F : \A k \in F : m <= k
      <3> HIDE DEF F
      <3> QED BY <2>1, <1>1, Least
    <2>3. PICK m \in F : Selected(c, s) = crate.impls[m]
      BY <2>2 DEF Selected
    <2>4. m \in DOMAIN crate.impls /\ Target(c, s) = crate.impls[m].method
      BY <2>1, <2>3, <1>2 DEF Target
    <2> QED BY <2>4, <1>1, <1>2 DEF Targets, Redirected
  <1>3. CASE ~ Redirected(c, s)
    BY <1>1, <1>3 DEF Target, Targets
  <1> QED BY <1>2, <1>3

Known ==
    /\ crate \in Crates
    /\ \A i \in DOMAIN frames : frames[i].def \in Defs /\ frames[i].next \in Nat \ {0}
    /\ \A i \in DOMAIN reqs : reqs[i].callee \in Defs
    /\ phase = "concrete" => todo \subseteq Defs

\* The call being lowered is one of its def's.
LEMMA CallKnown ==
    ASSUME Seqs, Known, AtCall
    PROVE  /\ Top.def \in Defs /\ Top.next \in Nat \ {0} /\ Len(frames) \in DOMAIN frames
           /\ Top = frames[Len(frames)]
           /\ Call \in ToSet(Def(Top.def).calls)
           /\ Callee \in Targets(Call) /\ Callee \in Defs
           /\ ~ Def(Call.callee).decl => Callee = Call.callee
  <1>1. Len(frames) \in DOMAIN frames /\ Top = frames[Len(frames)]
    BY DEF Seqs, IsSeq, AtCall, Lowering, Top, Last
  <1>2. Top.def \in Defs /\ Top.next \in Nat \ {0}
    BY <1>1 DEF Known
  <1>3. /\ Body \in Seq(ToSet(Body))
        /\ \A k \in ToSet(Body) : k.callee \in Defs
    BY <1>2, CrateAssumption DEF Known, Body, Def, Defs
  <1>4. Top.next \in DOMAIN Body
    BY <1>2, <1>3 DEF AtCall
  <1>5. Call \in ToSet(Body)
    BY <1>4 DEF Call, ToSet
  <1>6. /\ ~ Def(Call.callee).decl => Callee = Call.callee
        /\ Callee \in Targets(Call)
        /\ Targets(Call) \ {Call.callee} \subseteq Defs
    BY TargetKnown DEF Known, Callee
  <1> QED BY <1>1, <1>2, <1>3, <1>5, <1>6 DEF Body

LEMMA BuildKnown ==
    ASSUME NEW d \in Defs, NEW s, NEW name, Build(d, s, name), Known, Seqs
    PROVE  \A i \in DOMAIN frames' : frames'[i].def \in Defs /\ frames'[i].next \in Nat \ {0}
  <1>1. CASE frames' = <<Frame(d, s)>>
    BY <1>1 DEF Frame
  <1>2. CASE frames' = frames
    BY <1>2 DEF Known
  <1> QED BY <1>1, <1>2 DEF Build

LEMMA SteppedKnown ==
    ASSUME Seqs, Known, AtCall
    PROVE  \A i \in DOMAIN Stepped : Stepped[i].def \in Defs /\ Stepped[i].next \in Nat \ {0}
  <1> SUFFICES ASSUME NEW i \in DOMAIN Stepped
               PROVE  Stepped[i].def \in Defs /\ Stepped[i].next \in Nat \ {0}
    OBVIOUS
  <1>1. i \in DOMAIN frames
    BY DEF Stepped
  <1>2. CASE i = Len(frames)
    <2>1. Stepped[i] = [Frame(Top.def, Top.subst) EXCEPT !.next = Top.next + 1]
      BY <1>1, <1>2 DEF Stepped
    <2>2. Stepped[i].def = Top.def /\ Stepped[i].next = Top.next + 1
      BY <2>1 DEF Frame
    <2> QED BY <2>2, CallKnown
  <1>3. CASE i # Len(frames)
    BY <1>1, <1>3 DEF Stepped, Known
  <1> QED BY <1>2, <1>3

LEMMA NextKnown == Seqs /\ Known /\ [Next]_vars => Known'
  <1> SUFFICES ASSUME Seqs, Known, [Next]_vars PROVE Known'
    OBVIOUS
  <1>1. crate' = crate /\ Defs' = Defs
    BY CrateConstant DEF Defs
  <1>2. CASE BuildConcrete
    <2>1. PICK d \in todo : Build(d, <<>>, ModuleName(d)) /\ todo' = todo \ {d}
      BY <1>2 DEF BuildConcrete
    <2>2. d \in Defs /\ todo' \subseteq Defs /\ reqs' = reqs
      BY <1>2, <2>1 DEF BuildConcrete, Known
    <2>3. \A i \in DOMAIN frames' : frames'[i].def \in Defs /\ frames'[i].next \in Nat \ {0}
      BY <2>1, <2>2, BuildKnown
    <2> QED BY <1>1, <2>2, <2>3 DEF Known
  <1>3. CASE PopRequest
    <2>1. /\ phase = "mono" /\ reqs # <<>> /\ reqs' = Front(reqs) /\ todo' = todo
      BY <1>3 DEF PopRequest, checking
    <2>2. /\ DOMAIN Front(reqs) = 1..(Len(reqs) - 1) /\ DOMAIN reqs = 1..Len(reqs)
          /\ Len(reqs) \in Nat /\ Len(reqs) > 0
          /\ \A i \in DOMAIN Front(reqs) : Front(reqs)[i] = reqs[i]
      BY <2>1, FrontSeq DEF Seqs
    <2>3. Last(reqs).callee \in Defs
      BY <2>2 DEF Known, Last
    <2>4. \A i \in DOMAIN reqs' : reqs'[i].callee \in Defs
      BY <2>1, <2>2 DEF Known
    <2>5. phase' # "concrete"
      BY <1>3 DEF PopRequest, Build
    <2>6. \A i \in DOMAIN frames' : frames'[i].def \in Defs /\ frames'[i].next \in Nat \ {0}
      <3>1. CASE Last(reqs).name \in seen
        BY <1>3, <3>1 DEF PopRequest, Known
      <3>2. CASE Last(reqs).name \notin seen
        <4>1. Build(Last(reqs).callee, Last(reqs).subst, Last(reqs).name)
          BY <1>3, <3>2 DEF PopRequest
        <4> QED BY <4>1, <2>3, BuildKnown
      <3> QED BY <3>1, <3>2
    <2> QED BY <1>1, <2>4, <2>5, <2>6 DEF Known
  <1>4. CASE SkipCall
    <2>1. AtCall /\ frames' = Stepped /\ phase' = phase /\ reqs' = reqs /\ todo' = todo
      BY <1>4 DEF SkipCall, Emitter, checking
    <2> QED BY <1>1, <2>1, SteppedKnown DEF Known
  <1>5. CASE SpliceCall
    <2>1. PICK f : f = Frame(Callee, SpliceSubst(Callee, Call, Top.subst))
      OBVIOUS
    <2>2. /\ AtCall /\ frames' = Append(Stepped, f) /\ phase' = phase /\ reqs' = reqs
          /\ todo' = todo
      BY <1>5, <2>1 DEF SpliceCall, Emitter, checking
    <2>3. f.def \in Defs /\ f.next \in Nat \ {0}
      BY <2>1, <2>2, CallKnown DEF Frame
    <2>4. /\ DOMAIN frames' = 1..(Len(Stepped) + 1) /\ DOMAIN Stepped = 1..Len(Stepped)
          /\ Len(Stepped) \in Nat
          /\ \A i \in DOMAIN Stepped : frames'[i] = Stepped[i]
          /\ frames'[Len(Stepped) + 1] = f
      BY <2>2, SteppedSeq, AppendSeq DEF Seqs
    <2>5. \A i \in DOMAIN frames' : frames'[i].def \in Defs /\ frames'[i].next \in Nat \ {0}
      BY <2>2, <2>3, <2>4, SteppedKnown
    <2> QED BY <1>1, <2>2, <2>5 DEF Known
  <1>6. CASE InstantiateCall
    <2>1. /\ AtCall /\ frames' = Stepped /\ phase' = phase /\ todo' = todo
      BY <1>6 DEF InstantiateCall, Instantiates, Emitter, checking
    <2>2. \A i \in DOMAIN reqs' : reqs'[i].callee \in Defs
      <3>1. PICK s, name :
                reqs' = IF NeedsMono(s)
                        THEN Append(reqs, [callee |-> Callee, subst |-> s, name |-> name])
                        ELSE reqs
        BY <1>6 DEF InstantiateCall
      <3>2. CASE reqs' = reqs
        BY <3>2 DEF Known
      <3>3. CASE reqs' # reqs
        <4>1. PICK r : r = [callee |-> Callee, subst |-> s, name |-> name]
          OBVIOUS
        <4>2. reqs' = Append(reqs, r) /\ r.callee \in Defs
          BY <3>1, <3>3, <4>1, <2>1, CallKnown
        <4>3. /\ DOMAIN reqs' = 1..(Len(reqs) + 1) /\ DOMAIN reqs = 1..Len(reqs)
              /\ Len(reqs) \in Nat
              /\ \A i \in DOMAIN reqs : reqs'[i] = reqs[i]
              /\ reqs'[Len(reqs) + 1] = r
          BY <4>2, AppendSeq DEF Seqs
        <4> QED BY <4>2, <4>3 DEF Known
      <3> QED BY <3>2, <3>3
    <2> QED BY <1>1, <2>1, <2>2, SteppedKnown DEF Known
  <1>7. CASE EndSplice
    <2>1. /\ frames # <<>> /\ frames' = Front(frames) /\ phase' = phase /\ reqs' = reqs
          /\ todo' = todo
      BY <1>7 DEF EndSplice, Lowering, Emitter, checking
    <2>2. \A i \in DOMAIN frames' : i \in DOMAIN frames /\ frames'[i] = frames[i]
      BY <2>1, FrontSeq DEF Seqs
    <2> QED BY <1>1, <2>1, <2>2 DEF Known
  <1>8. CASE EndModule
    <2>1. frames' = <<>> /\ phase' = phase /\ reqs' = reqs /\ todo' = todo
      BY <1>8 DEF EndModule, checking
    <2>2. DOMAIN frames' = {}
      BY <2>1
    <2> QED BY <1>1, <2>1, <2>2 DEF Known
  <1>9. CASE Gate
    <2>1. /\ frames' = frames /\ reqs' = reqs
          /\ phase' = "concrete" => todo' = EmittedDefs
      BY <1>9 DEF Gate, emitting
    <2>2. EmittedDefs \subseteq Defs
      BY DEF EmittedDefs
    <2> QED BY <1>1, <2>1, <2>2 DEF Known
  <1>10. CASE UNCHANGED <<frames, reqs>> /\ (phase' # "concrete" \/ UNCHANGED <<phase, todo>>)
    BY <1>1, <1>10 DEF Known
  <1> QED
    BY <1>2, <1>3, <1>4, <1>5, <1>6, <1>7, <1>8, <1>9, <1>10
       DEF Next, CheckSyntax, StartInlineCheck, PopCallee, Recursion, NoRecursion, Report,
           AllConcrete, AllServed, SpliceTooDeep, InstantiatePanics, Panic, Emitter, Write, Ended,
           vars, emitting, checking

\* A splice goes to a callee of the frame under it, so it lies in every set
\* that holds what is below any frame under it.
Chained ==
    \A j \in DOMAIN frames : \A i \in DOMAIN frames : i < j =>
        /\ InlineMirin(frames[j].def)
        /\ \A S : BelowIn(frames[i].def, S) => frames[j].def \in S

LEMMA NextChained == Seqs /\ Known /\ PlainSplices /\ Chained /\ [Next]_vars => Chained'
  <1> SUFFICES ASSUME Seqs, Known, PlainSplices, Chained, [Next]_vars PROVE Chained'
    OBVIOUS
  <1>1. /\ \A d : InlineMirin(d)' <=> InlineMirin(d)
        /\ \A d, S : BelowIn(d, S)' <=> BelowIn(d, S)
    BY CrateConstant, InlineKept
  <1>2. CASE \/ /\ \A i \in DOMAIN frames' : i \in DOMAIN frames /\ frames'[i].def = frames[i].def
             \/ \A i, j \in DOMAIN frames' : ~ i < j
    BY <1>1, <1>2 DEF Chained
  <1>3. CASE SpliceCall
    <2>1. PICK f : f = Frame(Callee, SpliceSubst(Callee, Call, Top.subst))
      OBVIOUS
    <2>2. AtCall /\ frames' = Append(Stepped, f) /\ SplicesMirin(Callee) /\ f.def = Callee
      BY <1>3, <2>1 DEF SpliceCall, Frame
    <2>3. /\ DOMAIN frames' = 1..(Len(frames) + 1) /\ DOMAIN frames = 1..Len(frames)
          /\ Len(frames) \in Nat
          /\ \A i \in DOMAIN frames : frames'[i].def = frames[i].def
          /\ frames'[Len(frames) + 1].def = Callee
      <3>1. /\ IsSeq(Stepped) /\ DOMAIN Stepped = DOMAIN frames /\ Len(Stepped) = Len(frames)
            /\ \A i \in DOMAIN frames : Stepped[i].def = frames[i].def
        BY SteppedSeq DEF Seqs
      <3>2. /\ DOMAIN frames' = 1..(Len(Stepped) + 1) /\ DOMAIN Stepped = 1..Len(Stepped)
            /\ Len(Stepped) \in Nat
            /\ \A i \in DOMAIN Stepped : frames'[i] = Stepped[i]
            /\ frames'[Len(Stepped) + 1] = f
        BY <2>2, <3>1, AppendSeq
      <3> QED BY <3>1, <3>2, <2>2
    <2>4. InlineMirin(Callee)
      BY <2>2 DEF SplicesMirin, SplicesInline, InlineMirin
    <2>5. /\ Top = frames[Len(frames)] /\ Len(frames) \in DOMAIN frames
          /\ Callee \in InlineCallees(Top.def)
      <3>1. /\ Top.def \in Defs /\ Len(frames) \in DOMAIN frames
            /\ Top = frames[Len(frames)]
            /\ Call \in ToSet(Def(Top.def).calls)
            /\ Callee \in Targets(Call)
            /\ ~ Def(Call.callee).decl => Callee = Call.callee
        BY <2>2, CallKnown
      <3>2. Call.plain /\ ~ Def(Call.callee).decl
        BY <2>4, <3>1 DEF PlainSplices
      <3>3. IsInlineCall(Call) /\ Callee = Call.callee
        BY <2>4, <3>1, <3>2 DEF IsInlineCall
      <3>4. Callee \in InlineCallees(Top.def)
        BY <3>1, <3>3 DEF InlineCallees
      <3> QED BY <3>1, <3>4
    <2>6. ASSUME NEW i \in DOMAIN frames, NEW S, BelowIn(frames[i].def, S)
          PROVE  Callee \in S
      <3>1. CASE i = Len(frames)
        BY <2>5, <2>6, <3>1 DEF BelowIn
      <3>2. CASE i # Len(frames)
        <4>1. i < Len(frames)
          BY <2>3, <3>2
        <4>2. Top.def \in S
          BY <4>1, <2>5, <2>6 DEF Chained
        <4> QED BY <4>2, <2>5, <2>6 DEF BelowIn, ClosedUnderCallees
      <3> QED BY <3>1, <3>2
    <2>7. ASSUME NEW j \in DOMAIN frames', NEW i \in DOMAIN frames', i < j
          PROVE  /\ InlineMirin(frames'[j].def)
                 /\ \A S : BelowIn(frames'[i].def, S) => frames'[j].def \in S
      <3>1. i \in DOMAIN frames /\ (j \in DOMAIN frames \/ j = Len(frames) + 1)
        BY <2>3, <2>7
      <3>2. CASE j \in DOMAIN frames
        BY <2>3, <2>7, <3>1, <3>2 DEF Chained
      <3>3. CASE j = Len(frames) + 1
        BY <2>3, <2>4, <2>6, <3>1, <3>3
      <3> QED BY <3>1, <3>2, <3>3
    <2> QED BY <1>1, <2>7 DEF Chained
  <1>4. CASE SkipCall \/ InstantiateCall
    <2>1. frames' = Stepped
      BY <1>4 DEF SkipCall, InstantiateCall
    <2> QED BY <1>2, <2>1, SteppedSeq DEF Seqs
  <1>5. CASE EndSplice
    <2>1. frames # <<>> /\ frames' = Front(frames)
      BY <1>5 DEF EndSplice, Lowering
    <2>2. \A i \in DOMAIN frames' : i \in DOMAIN frames /\ frames'[i] = frames[i]
      BY <2>1, FrontSeq DEF Seqs
    <2> QED BY <1>2, <2>2
  <1>6. CASE BuildConcrete \/ PopRequest \/ EndModule
    <2>1. frames' = frames \/ frames' = <<>> \/ \E f : frames' = <<f>>
      BY <1>6 DEF BuildConcrete, PopRequest, Build, EndModule
    <2>2. CASE frames' = frames
      BY <1>2, <2>2
    <2>3. CASE frames' = <<>>
      <3>1. DOMAIN frames' = {}
        BY <2>3
      <3> QED BY <1>2, <3>1
    <2>4. CASE \E f : frames' = <<f>>
      <3>1. \A i \in DOMAIN frames' : i = 1
        BY <2>4
      <3>2. \A i, j \in DOMAIN frames' : ~ i < j
        BY <3>1
      <3> QED BY <1>2, <3>2
    <2> QED BY <2>1, <2>2, <2>3, <2>4
  <1>7. CASE frames' = frames
    BY <1>2, <1>7
  <1> QED
    BY <1>3, <1>4, <1>5, <1>6, <1>7
       DEF Next, CheckSyntax, StartInlineCheck, PopCallee, Recursion, NoRecursion, Report, Gate,
           AllConcrete, AllServed, SpliceTooDeep, InstantiatePanics, Panic, Emitter, Write, Ended,
           vars, emitting, checking

\* In a crate whose inline defs are reached through plain calls only, what the
\* check for recursion lets through is never being spliced twice at a time: the
\* recursion of splice_inline_body is as deep as there are inline defs at most.
THEOREM SplicesDoNotRecurse == Spec => []NoRecursiveSplice
  <1> DEFINE Inv == /\ Seqs /\ Flow /\ Known /\ Searched /\ Judged
                    /\ PlainSplices => Chained
  <1>1. Init => Inv
    <2> SUFFICES ASSUME Init PROVE Inv
      OBVIOUS
    <2>1. /\ frames = <<>> /\ reqs = <<>> /\ phase = "syntax" /\ crate \in Crates
          /\ cleared = {}
      BY DEF Init
    <2>2. DOMAIN frames = {} /\ DOMAIN reqs = {}
      BY <2>1
    <2> QED BY <2>1, <2>2, InitFlow DEF Known, Searched, Judged, Chained
  <1>2. Inv /\ [Next]_vars => Inv'
    <2> SUFFICES ASSUME Inv, [Next]_vars PROVE Inv'
      OBVIOUS
    <2>1. PlainSplices' <=> PlainSplices
      BY CrateConstant, InlineKept
    <2>2. Seqs' /\ Flow' /\ Known' /\ Searched' /\ Judged'
      BY NextSeqs, NextFlow, NextKnown, NextSearched, NextJudged
    <2>3. PlainSplices => Chained'
      BY NextChained
    <2> QED BY <2>1, <2>2, <2>3
  <1>3. Inv => NoRecursiveSplice
    <2> SUFFICES ASSUME Inv, PlainSplices, NEW i \in DOMAIN frames, NEW j \in DOMAIN frames,
                        i < j, frames[i].def = frames[j].def
                 PROVE  FALSE
      BY DEF NoRecursiveSplice
    <2>1. /\ InlineMirin(frames[j].def)
          /\ \A S : BelowIn(frames[j].def, S) => frames[j].def \in S
      BY DEF Chained
    <2>2. frames # <<>> /\ frames[j].def \in InlineDefs
      BY <2>1 DEF Known, InlineDefs
    <2>3. Free(frames[j].def)
      BY <2>2 DEF Judged
    <2> QED BY <2>1, <2>3 DEF Free
  <1> QED BY <1>1, <1>2, <1>3, PTL DEF Spec

-----------------------------------------------------------------------------
(* What inline_recurses reports.                                           *)

\* What is on the stack or was visited is below the root.
Swept ==
    /\ phase = "inline" => todo \subseteq InlineDefs
    /\ phase = "recurses" =>
        /\ root \in InlineDefs /\ todo \subseteq InlineDefs
        /\ \A S : BelowIn(root, S) => stack \union visited \subseteq S
    /\ "recursive" \in out => \E d \in InlineDefs : ReachesItself(d)

LEMMA ReachKept ==
    ASSUME UNCHANGED crate
    PROVE  /\ InlineDefs' = InlineDefs
           /\ (\E d \in InlineDefs : ReachesItself(d))' <=> \E d \in InlineDefs : ReachesItself(d)
  BY DEF ReachesItself, InlineCallees, IsInlineCall, InlineMirin, BelowIn, ClosedUnderCallees,
         InlineDefs, Defs, Def

LEMMA NextSwept == Swept /\ [Next]_vars => Swept'
  <1> SUFFICES ASSUME Swept, [Next]_vars PROVE Swept'
    OBVIOUS
  <1>1. /\ InlineDefs' = InlineDefs
        /\ (\E d \in InlineDefs : ReachesItself(d))' <=> \E d \in InlineDefs : ReachesItself(d)
    BY CrateConstant, ReachKept
  <1>2. \A d : InlineCallees(d)' = InlineCallees(d)
    BY CrateConstant, InlineKept
  <1>3. CASE CheckSyntax
    <2>1. \/ phase' = "ended" /\ out' = out
          \/ phase' = "inline" /\ todo' = InlineDefs /\ "recursive" \notin out'
      BY <1>3 DEF CheckSyntax, FrontChecks
    <2> QED BY <1>1, <2>1 DEF Swept
  <1>4. CASE StartInlineCheck
    <2>1. /\ phase = "inline" /\ phase' = "recurses" /\ out' = out
          /\ root' \in todo /\ todo' \subseteq todo
          /\ stack' = InlineCallees(root') /\ visited' = {}
      BY <1>4 DEF StartInlineCheck
    <2>2. InlineCallees(root)' = InlineCallees(root')
      BY CrateConstant DEF InlineCallees, IsInlineCall, InlineMirin, Def
    <2>3. \A S : BelowIn(root, S)' => stack' \union visited' \subseteq S
      BY <2>1, <2>2 DEF BelowIn
    <2> QED BY <1>1, <2>1, <2>3 DEF Swept
  <1>5. CASE PopCallee
    <2>1. PICK d \in stack :
              /\ visited' = visited \union {d}
              /\ stack' = (stack \ {d}) \union (IF d \in visited THEN {} ELSE InlineCallees(d))
      BY <1>5 DEF PopCallee
    <2>2. phase = "recurses" /\ phase' = phase /\ root' = root /\ out' = out /\ todo' = todo
      BY <1>5 DEF PopCallee
    <2>3. ASSUME NEW S, BelowIn(root, S) PROVE stack' \union visited' \subseteq S
      <3>1. stack \union visited \subseteq S
        BY <2>2, <2>3 DEF Swept
      <3>2. InlineCallees(d) \subseteq S
        BY <3>1, <2>1, <2>3 DEF BelowIn, ClosedUnderCallees
      <3> QED BY <2>1, <3>1, <3>2
    <2>4. \A S : BelowIn(root, S)' <=> BelowIn(root, S)
      <3>1. \A d1, S : BelowIn(d1, S)' <=> BelowIn(d1, S)
        BY CrateConstant, InlineKept
      <3> QED BY <2>2, <1>2 DEF BelowIn, ClosedUnderCallees
    <2> QED BY <1>1, <2>2, <2>3, <2>4 DEF Swept
  <1>6. CASE Recursion
    <2>1. /\ phase = "recurses" /\ root \in stack /\ phase' = "inline"
          /\ todo' = todo
      BY <1>6 DEF Recursion, checking
    <2>2. root \in InlineDefs /\ ReachesItself(root)
      BY <2>1 DEF Swept, ReachesItself
    <2> QED BY <1>1, <2>1, <2>2 DEF Swept
  <1>7. CASE NoRecursion
    <2>1. phase = "recurses" /\ phase' = "inline" /\ todo' = todo /\ out' = out
      BY <1>7 DEF NoRecursion
    <2> QED BY <1>1, <2>1 DEF Swept
  <1>8. CASE Report
    <2>1. phase' \in {"ended", "gate"} /\ ("recursive" \in out' => "recursive" \in out)
      BY <1>8 DEF Report
    <2> QED BY <1>1, <2>1 DEF Swept
  <1>9. CASE out' = out /\ phase' \notin {"inline", "recurses"}
    BY <1>1, <1>9 DEF Swept
  <1>10. CASE UNCHANGED vars
    <2>1. \A S : BelowIn(root, S)' <=> BelowIn(root, S)
      BY <1>2, <1>10 DEF BelowIn, ClosedUnderCallees, vars
    <2> QED BY <1>1, <1>10, <2>1 DEF vars, Swept
  <1>11. CASE Gate \/ BuildConcrete \/ AllConcrete \/ PopRequest \/ AllServed \/ Write
    BY <1>9, <1>11 DEF Gate, BuildConcrete, Build, AllConcrete, PopRequest, AllServed, Write
  <1>12. CASE SkipCall \/ SpliceCall \/ SpliceTooDeep \/ InstantiateCall \/ InstantiatePanics
              \/ EndSplice \/ EndModule
    BY <1>9, <1>12 DEF SkipCall, SpliceCall, SpliceTooDeep, InstantiateCall, InstantiatePanics,
         Instantiates, Panic, EndSplice, EndModule, AtCall, Lowering, Emitter
  <1> QED
    BY <1>3, <1>4, <1>5, <1>6, <1>7, <1>8, <1>10, <1>11, <1>12 DEF Next, Ended

\* What is called is a def, so a set that is closed stays so among the defs.
LEMMA FreeDoesNotReach ==
    ASSUME crate \in Crates, NEW d \in Defs, Free(d)
    PROVE  ~ ReachesItself(d)
  <1>1. PICK S : BelowIn(d, S) /\ d \notin S
    BY DEF Free
  <1>2. ASSUME NEW e \in Defs PROVE InlineCallees(e) \subseteq Defs
    <2>1. \A k \in ToSet(Def(e).calls) : k.callee \in Defs
      BY CrateAssumption DEF Def, Defs
    <2> QED BY <2>1 DEF InlineCallees
  <1> DEFINE T == S \intersect Defs
  <1>3. BelowIn(d, T)
    BY <1>1, <1>2 DEF BelowIn, ClosedUnderCallees
  <1>4. T \in SUBSET Defs /\ d \notin T
    BY <1>1
  <1> HIDE DEF T
  <1> QED BY <1>3, <1>4 DEF ReachesItself

\* In any crate, the check reports a recursion exactly when an inline def can
\* reach itself by plain calls of inline defs.
THEOREM RecursionIsReported == Spec => []InlineCheckExact
  <1> DEFINE Inv == Seqs /\ Flow /\ Known /\ Searched /\ Judged /\ Swept
  <1>1. Init => Inv
    <2> SUFFICES ASSUME Init PROVE Inv
      OBVIOUS
    <2>1. /\ frames = <<>> /\ reqs = <<>> /\ phase = "syntax" /\ crate \in Crates
          /\ cleared = {} /\ out = {}
      BY DEF Init
    <2>2. DOMAIN frames = {} /\ DOMAIN reqs = {}
      BY <2>1
    <2> QED BY <2>1, <2>2, InitFlow DEF Known, Searched, Judged, Swept
  <1>2. Inv /\ [Next]_vars => Inv'
    BY NextSeqs, NextFlow, NextKnown, NextSearched, NextJudged, NextSwept
  <1>3. Inv => InlineCheckExact
    <2> SUFFICES ASSUME Inv, phase = "inline", todo = {}
                 PROVE  "recursive" \in out <=> \E d \in Defs : InlineMirin(d) /\ ReachesItself(d)
      BY DEF InlineCheckExact
    <2>1. "recursive" \in out => \E d \in Defs : InlineMirin(d) /\ ReachesItself(d)
      BY DEF Swept, InlineDefs
    <2>2. ASSUME "recursive" \notin out, NEW d \in Defs, InlineMirin(d)
          PROVE  ~ ReachesItself(d)
      <3>1. Free(d)
        BY <2>2 DEF Judged, InlineDefs
      <3> QED BY <3>1, FreeDoesNotReach DEF Known
    <2> QED BY <2>1, <2>2
  <1> QED BY <1>1, <1>2, <1>3, PTL DEF Spec

-----------------------------------------------------------------------------
(* What the command line has heard of the crate.                           *)

Heard ==
    /\ phase \in {"inline", "recurses"} =>
        crate.bad \intersect FrontChecks \subseteq out /\ "syntax" \notin crate.bad
    /\ phase \in {"gate", "concrete", "mono", "reserved"} \/ exit = 0 =>
        crate.bad = {} /\ out = {}

LEMMA NextHeard == Flow /\ Known /\ Heard /\ [Next]_vars => Heard'
  <1> SUFFICES ASSUME Flow, Known, Heard, [Next]_vars PROVE Heard'
    OBVIOUS
  <1>1. crate' = crate
    BY CrateConstant
  <1>2. CASE CheckSyntax
    BY <1>1, <1>2 DEF CheckSyntax, Heard, Flow
  <1>3. CASE StartInlineCheck \/ PopCallee \/ Recursion \/ NoRecursion
    BY <1>1, <1>3 DEF StartInlineCheck, PopCallee, Recursion, NoRecursion, Heard, Flow
  <1>4. CASE Report
    <2>1. crate.bad \subseteq Checks
      BY ChecksAssumption DEF Known
    <2>2. /\ phase = "inline" /\ out' = IF out = {} THEN crate.bad \intersect {"mono"} ELSE out
          /\ \/ out' # {} /\ phase' = "ended" /\ exit' = 1
             \/ out' = {} /\ phase' = "gate" /\ exit' = exit
      BY <1>4 DEF Report
    <2>3. CASE out' # {}
      BY <2>2, <2>3 DEF Heard
    <2>4. CASE out' = {}
      <3>1. out = {} /\ crate.bad \intersect {"mono"} = {}
        BY <2>2, <2>4
      <3>2. crate.bad \intersect FrontChecks = {} /\ "syntax" \notin crate.bad
        BY <2>2, <3>1 DEF Heard
      <3>3. crate.bad = {}
        BY <2>1, <3>1, <3>2 DEF Checks, GateChecks, FrontChecks
      <3> QED BY <1>1, <2>2, <2>4, <3>3 DEF Heard, Flow
    <2> QED BY <2>3, <2>4
  <1>5. CASE Gate \/ AllConcrete \/ AllServed \/ Write
    BY <1>1, <1>5 DEF Gate, AllConcrete, AllServed, Write, Heard, Flow
  <1>6. CASE BuildConcrete \/ PopRequest
    BY <1>1, <1>6 DEF BuildConcrete, PopRequest, Build, Heard, Flow
  <1>7. CASE SkipCall \/ SpliceCall \/ InstantiateCall \/ EndSplice \/ EndModule
    BY <1>1, <1>7 DEF SkipCall, SpliceCall, InstantiateCall, Instantiates, EndSplice, EndModule, AtCall,
         Lowering, Emitter, Heard
  <1>8. CASE SpliceTooDeep \/ InstantiatePanics
    BY <1>1, <1>8 DEF SpliceTooDeep, InstantiatePanics, Panic, Emitter, Heard
  <1>9. CASE Ended \/ UNCHANGED vars
    BY <1>9 DEF Ended, vars, Heard
  <1> QED
    BY <1>2, <1>3, <1>4, <1>5, <1>6, <1>7, <1>8, <1>9 DEF Next

-----------------------------------------------------------------------------
(* The module of every emitted def is made, and made from it.              *)

MadeFrom(d, x, ms) == \E m \in ToSet(ms) : m.def = d /\ m.name = x
BuiltFrom(d, x) == InProgress(x, "concrete") /\ cur.def = d

EmittedMade ==
    Passed /\ (phase \in {"concrete", "mono", "reserved"} \/ exit = 0) =>
        \A d \in EmittedDefs :
            d \in todo \/ MadeFrom(d, ModuleName(d), modules) \/ BuiltFrom(d, ModuleName(d))

\* A module in progress is the same after any step that neither ends it nor panics.
LEMMA BuiltFromKept ==
    ASSUME Seqs, Flow, [Next]_vars, exit' # 101, NEW d, NEW x, BuiltFrom(d, x)
    PROVE  BuiltFrom(d, x)' \/ MadeFrom(d, x, modules)'
  <1>1. CASE EndModule
    <2>1. cur \in ToSet(Append(modules, cur))
      BY AppendSeq DEF Seqs
    <2>2. modules' = Append(modules, cur)
      BY <1>1 DEF EndModule, BuiltFrom, InProgress
    <2> QED BY <2>1, <2>2 DEF BuiltFrom, InProgress, MadeFrom
  <1>2. CASE ~ EndModule
    <2>1. InProgress(x, "concrete")'
      BY <1>2, UnderWay DEF BuiltFrom
    <2>2. cur'.def = cur.def /\ modules' = modules /\ frames # <<>> /\ phase = "concrete"
      BY <1>2 DEF BuiltFrom, InProgress, Flow, Next, vars, CheckSyntax, StartInlineCheck, PopCallee,
         Recursion, NoRecursion, Report, Gate, BuildConcrete, AllConcrete, PopRequest,
         AllServed, SkipCall, SpliceCall, SpliceTooDeep, InstantiateCall, InstantiatePanics,
         Panic, EndSplice, Write, Ended, Emitter
    <2> QED BY <2>1, <2>2 DEF BuiltFrom
  <1> QED BY <1>1, <1>2

LEMMA NextEmitted == Seqs /\ Flow /\ EmittedMade /\ [Next]_vars => EmittedMade'
  <1> DEFINE On == phase \in {"concrete", "mono", "reserved"} \/ exit = 0
  <1> SUFFICES ASSUME Seqs, Flow, EmittedMade, [Next]_vars, Passed', On', NEW d \in EmittedDefs'
               PROVE  \/ d \in todo' \/ MadeFrom(d, ModuleName(d)', modules')
                      \/ BuiltFrom(d, ModuleName(d))'
    BY DEF EmittedMade, MadeFrom
  <1>1. UNCHANGED crate
    BY CrateConstant
  <1>2. d \in EmittedDefs /\ Passed /\ ModuleName(d)' = ModuleName(d)
    BY <1>1, CrateKept
  <1>x. PICK x : x = ModuleName(d)
    OBVIOUS
  <1>3. exit' # 101
    BY DEF Flow, Next, vars, CheckSyntax, StartInlineCheck, PopCallee, Recursion,
         NoRecursion, Report, Gate, BuildConcrete, Build, AllConcrete, PopRequest, AllServed, SkipCall,
         SpliceCall, SpliceTooDeep, InstantiateCall, InstantiatePanics, Instantiates, Panic,
         EndSplice, EndModule, Write, Ended, AtCall, Lowering
  <1>4. CASE Gate
    <2>1. todo' = EmittedDefs
      BY <1>2, <1>4 DEF Gate, Passed
    <2> QED BY <1>2, <2>1
  <1>5. CASE ~ Gate /\ On
    <2>1. d \in todo \/ MadeFrom(d, x, modules) \/ BuiltFrom(d, x)
      BY <1>2, <1>5, <1>x DEF EmittedMade
    <2>2. CASE MadeFrom(d, x, modules)
      <3>1. MadeFrom(d, x, modules)'
        BY <2>2, FileGrows DEF MadeFrom
      <3> QED BY <3>1, <1>2, <1>x DEF MadeFrom
    <2>3. CASE BuiltFrom(d, x)
      <3>1. BuiltFrom(d, x)' \/ MadeFrom(d, x, modules)'
        BY <2>3, <1>3, BuiltFromKept
      <3> QED BY <3>1, <1>2, <1>x DEF MadeFrom, BuiltFrom, InProgress
    <2>4. CASE d \in todo /\ d \notin todo'
      <3>1. BuildConcrete
        BY <1>5, <2>4 DEF Flow, Next, vars, CheckSyntax, StartInlineCheck, PopCallee, Recursion,
         NoRecursion, Report, AllConcrete, PopRequest, AllServed, SkipCall, SpliceCall,
         SpliceTooDeep, InstantiateCall, InstantiatePanics, Panic, EndSplice, EndModule, Write,
         Ended, Emitter, emitting, checking
      <3>2. Build(d, <<>>, ModuleName(d)) /\ phase = "concrete"
        BY <3>1, <2>4 DEF BuildConcrete
      <3>3. phase' = phase /\ frames' = <<Frame(d, <<>>)>>
        BY <3>2, <1>3 DEF Build
      <3>4. cur'.name = x /\ cur'.def = d
        BY <3>2, <1>x DEF Build
      <3> QED BY <3>2, <3>3, <3>4, <1>2, <1>x DEF BuiltFrom, InProgress
    <2> QED BY <2>1, <2>2, <2>3, <2>4
  <1>6. CASE ~ Gate /\ ~ On
    <2>1. FALSE
      BY <1>6 DEF Flow, Next, vars, CheckSyntax, StartInlineCheck, PopCallee, Recursion,
         NoRecursion, Report, BuildConcrete, Build, AllConcrete, PopRequest, AllServed, SkipCall,
         SpliceCall, SpliceTooDeep, InstantiateCall, InstantiatePanics, Instantiates, Panic,
         EndSplice, EndModule, Write, Ended, AtCall, Lowering
    <2> QED BY <2>1
  <1> QED BY <1>4, <1>5, <1>6

\* Exit code 0 is given to a clean crate only, and the file then holds the
\* module of every def that gets one, built from that def under its own name.
THEOREM FileIsWhole == Spec => []WrittenWhole
  <1> DEFINE Inv == Seqs /\ Flow /\ Known /\ Heard /\ EmittedMade
  <1>1. Init => Inv
    <2> SUFFICES ASSUME Init PROVE Inv
      OBVIOUS
    <2>1. /\ frames = <<>> /\ reqs = <<>> /\ phase = "syntax" /\ crate \in Crates /\ exit = -1
      BY DEF Init
    <2>2. DOMAIN frames = {} /\ DOMAIN reqs = {}
      BY <2>1
    <2> QED BY <2>1, <2>2, InitFlow DEF Known, Heard, EmittedMade
  <1>2. Inv /\ [Next]_vars => Inv'
    BY NextSeqs, NextFlow, NextKnown, NextHeard, NextEmitted
  <1>3. Inv => WrittenWhole
    <2> SUFFICES ASSUME Inv, exit = 0
                 PROVE  /\ crate.bad = {} /\ out = {}
                        /\ \A d \in Defs : Emitted(d) =>
                               \E m \in ToSet(modules) : m.def = d /\ m.name = ModuleName(d)
      BY DEF WrittenWhole
    <2>1. crate.bad = {} /\ out = {} /\ phase = "ended"
      BY DEF Heard, Flow
    <2>2. Passed /\ todo = {}
      BY <2>1 DEF Passed, Flow
    <2>3. \A d \in EmittedDefs : MadeFrom(d, ModuleName(d), modules)
      BY <2>1, <2>2 DEF EmittedMade, BuiltFrom, InProgress
    <2> QED BY <2>1, <2>3 DEF EmittedDefs, MadeFrom
  <1> QED BY <1>1, <1>2, <1>3, PTL DEF Spec

-----------------------------------------------------------------------------
(* The names of modules.                                                   *)

\* x is the name of d's module, or of a copy of it.
Bears(d, x) == \E t : IsSeq(t) /\ x = ModuleName(d) \o t

LEMMA ArgPartsSeq ==
    ASSUME crate \in Crates, NEW d \in Defs, NEW s
    PROVE  IsSeq(ArgParts(d, s))
  <1>1. Def(d).generics \in Nat
    BY CrateAssumption DEF Defs, Def
  <1>2. Cardinality(Given(d, s)) \in Nat
    <2>1. IsFiniteSet(1..Def(d).generics)
      BY <1>1, FS_Interval
    <2>2. Given(d, s) \subseteq 1..Def(d).generics
      BY DEF Given
    <2> QED BY <2>1, <2>2, FS_Subset, FS_CardinalityType
  <1> DEFINE k == Cardinality(Given(d, s))
             f == ArgParts(d, s)
  <1>3. DOMAIN f = 1..k /\ f = [j \in 1..k |-> f[j]]
    BY DEF ArgParts
  <1>4. \A j \in 1..k : f[j] \in ToSet(f)
    BY <1>3 DEF ToSet
  <1>5. k \in Nat
    BY <1>2
  <1> HIDE DEF k, f
  <1>6. f \in [1..k -> ToSet(f)]
    BY <1>3, <1>4
  <1>7. f \in Seq(ToSet(f))
    BY <1>5, <1>6
  <1> QED BY <1>7 DEF f, IsSeq

LEMMA NameSeq ==
    ASSUME crate \in Crates, NEW d \in Defs
    PROVE  ModuleName(d) \in Seq(STRING)
  <1>1. Def(d).owner \in Seq(STRING) /\ Def(d).name \in STRING
    BY CrateAssumption DEF Defs, Def
  <1> QED BY <1>1 DEF ModuleName

LEMMA NamesBear ==
    ASSUME crate \in Crates, NEW d \in Defs, NEW s
    PROVE  Bears(d, ModuleName(d)) /\ Bears(d, MonoName(d, s))
  <1>1. \E t : IsSeq(t) /\ ModuleName(d) = ModuleName(d) \o t
    <2>1. IsSeq(<<>>)
      BY NothingIsSeq
    <2>2. ModuleName(d) = ModuleName(d) \o <<>>
      BY NameSeq, ConcatEmptySeq
    <2> QED BY <2>1, <2>2
  <1>2. MonoName(d, s) = ModuleName(d) \o ArgParts(d, s)
    BY DEF MonoName
  <1> QED BY <1>1, <1>2, ArgPartsSeq DEF Bears

\* Of two names that start one and the same sequence, one starts with the other.
LEMMA StartsAlike ==
    ASSUME NEW S, NEW a \in Seq(S), NEW b \in Seq(S), NEW t \in Seq(S), NEW u \in Seq(S),
           a \o t = b \o u, Len(a) <= Len(b)
    PROVE  IsPrefix(a, b)
  <1>1. /\ Len(a) \in Nat /\ Len(b) \in Nat
        /\ \A i \in 1..Len(a) : (a \o t)[i] = a[i]
        /\ \A i \in 1..Len(b) : (b \o u)[i] = b[i]
    OBVIOUS
  <1>2. \A i \in 1..Len(a) : a[i] = b[i]
    BY <1>1
  <1>3. SubSeq(a, 1, Len(a)) = SubSeq(b, 1, Len(a))
    <2>1. /\ SubSeq(a, 1, Len(a)) = [i \in 1..Len(a) |-> a[i]]
          /\ SubSeq(b, 1, Len(a)) = [i \in 1..Len(a) |-> b[i]]
      BY <1>1
    <2> QED BY <2>1, <1>2
  <1> QED BY <1>3 DEF IsPrefix

LEMMA OneBearer ==
    ASSUME crate \in Crates, NamesApart, NEW d \in Defs, NEW e \in Defs, NEW x,
           Bears(d, x), Bears(e, x)
    PROVE  d = e
  <1>1. PICK t : IsSeq(t) /\ x = ModuleName(d) \o t
    BY DEF Bears
  <1>2. PICK u : IsSeq(u) /\ x = ModuleName(e) \o u
    BY DEF Bears
  <1> DEFINE S == STRING \union ToSet(t) \union ToSet(u)
             a == ModuleName(d)
             b == ModuleName(e)
  <1>3. a \in Seq(S) /\ b \in Seq(S) /\ t \in Seq(S) /\ u \in Seq(S)
    <2>1. STRING \subseteq S /\ ToSet(t) \subseteq S /\ ToSet(u) \subseteq S
      OBVIOUS
    <2>2. a \in Seq(STRING) /\ b \in Seq(STRING) /\ t \in Seq(ToSet(t)) /\ u \in Seq(ToSet(u))
      BY <1>1, <1>2, NameSeq DEF IsSeq
    <2> HIDE DEF S, a, b
    <2>3. a \in Seq(S) /\ b \in Seq(S)
      BY <2>1, <2>2, SeqMonotonic
    <2>4. t \in Seq(S)
      BY <2>1, <2>2, SeqMonotonic
    <2>5. u \in Seq(S)
      BY <2>1, <2>2, SeqMonotonic
    <2> QED BY <2>3, <2>4, <2>5
  <1>4. a \o t = b \o u
    BY <1>1, <1>2
  <1> HIDE DEF S
  <1>5. IsPrefix(a, b) \/ IsPrefix(b, a)
    <2> HIDE DEF a, b
    <2>1. Len(a) \in Nat /\ Len(b) \in Nat
      BY <1>3
    <2>2. CASE Len(a) <= Len(b)
      BY <1>3, <1>4, <2>2, StartsAlike
    <2>3. CASE Len(b) <= Len(a)
      <3>1. b \o u = a \o t
        BY <1>4
      <3> QED BY <1>3, <2>3, <3>1, StartsAlike
    <2> QED BY <2>1, <2>2, <2>3
  <1> QED BY <1>5 DEF NamesApart

-----------------------------------------------------------------------------
(* Every name leads back to the def it was made from.                      *)

FileNamed == \A m \in File : m.def \in Defs /\ Bears(m.def, m.name)
CurNamed == frames # <<>> => cur.def \in Defs /\ Bears(cur.def, cur.name)
RequestsNamed == \A i \in DOMAIN reqs : Bears(reqs[i].callee, reqs[i].name)
InstancesNamed ==
    \A m \in File \union {cur} : \A n \in m.insts : n.callee \in Defs /\ Bears(n.callee, n.module)

Named == FileNamed /\ CurNamed /\ RequestsNamed /\ InstancesNamed

LEMMA BearsKept ==
    ASSUME UNCHANGED crate
    PROVE  /\ Defs' = Defs
           /\ \A d, x : Bears(d, x)' <=> Bears(d, x)
  BY DEF Defs, Bears, ModuleName, Def

\* The instance that InstantiateCall adds, and the request it may add.
LEMMA NewInstance ==
    ASSUME Seqs, Known, InstantiateCall
    PROVE  \E s, x :
              /\ cur'.insts = cur.insts \union {[module |-> x, callee |-> Callee, subst |-> s]}
              /\ cur'.name = cur.name /\ cur'.def = cur.def
              /\ \/ reqs' = reqs
                 \/ reqs' = Append(reqs, [callee |-> Callee, subst |-> s, name |-> x])
              /\ Callee \in Defs /\ Bears(Callee, x)
  <1> DEFINE s == InstanceSubst(Callee, Call, Top.subst)
             x == IF NeedsMono(s) THEN MonoName(Callee, s) ELSE ModuleName(Callee)
  <1>1. Callee \in Defs
    BY CallKnown DEF InstantiateCall, Instantiates
  <1>2. Bears(Callee, x)
    <2> HIDE DEF s
    <2>1. Bears(Callee, ModuleName(Callee)) /\ Bears(Callee, MonoName(Callee, s))
      BY <1>1, NamesBear DEF Known
    <2>2. x = MonoName(Callee, s) \/ x = ModuleName(Callee)
      OBVIOUS
    <2> HIDE DEF x
    <2> QED BY <2>1, <2>2
  <1>3. /\ cur' = [name |-> cur.name, def |-> cur.def, subst |-> cur.subst,
                   insts |-> cur.insts \union {[module |-> x, callee |-> Callee, subst |-> s]}]
        /\ \/ reqs' = reqs
           \/ reqs' = Append(reqs, [callee |-> Callee, subst |-> s, name |-> x])
    BY DEF InstantiateCall
  <1> HIDE DEF s, x
  <1> QED BY <1>1, <1>2, <1>3

LEMMA NextFileNamed ==
    ASSUME Seqs, Named, [Next]_vars PROVE FileNamed'
  <1>1. UNCHANGED crate
    BY CrateConstant
  <1>2. ASSUME NEW m \in File' PROVE m.def \in Defs /\ Bears(m.def, m.name)
    <2>1. CASE m \in File
      BY <2>1 DEF Named, FileNamed
    <2>2. CASE m \notin File
      <3>1. m = cur
        BY <2>2, FileGrows DEF File
      <3>2. EndModule
        BY <2>2 DEF File, Next, vars, CheckSyntax, StartInlineCheck, PopCallee, Recursion, NoRecursion,
         Report, Gate, BuildConcrete, AllConcrete, PopRequest, AllServed, SkipCall, SpliceCall,
         SpliceTooDeep, InstantiateCall, InstantiatePanics, Panic, EndSplice, Write, Ended,
         Emitter, emitting
      <3> QED BY <3>1, <3>2 DEF EndModule, Lowering, Named, CurNamed
    <2> QED BY <2>1, <2>2
  <1> QED BY <1>1, <1>2, BearsKept DEF FileNamed

LEMMA NextRequestsNamed ==
    ASSUME Seqs, Known, Named, [Next]_vars PROVE RequestsNamed'
  <1>1. UNCHANGED crate
    BY CrateConstant
  <1>2. \A i \in DOMAIN reqs' : Bears(reqs'[i].callee, reqs'[i].name)
    <2>1. CASE PopRequest
      BY <2>1, FrontSeq DEF PopRequest, Seqs, Named, RequestsNamed
    <2>2. CASE InstantiateCall
      <3>1. PICK s, x :
              /\ \/ reqs' = reqs
                 \/ reqs' = Append(reqs, [callee |-> Callee, subst |-> s, name |-> x])
              /\ Bears(Callee, x)
        BY <2>2, NewInstance
      <3>2. PICK r : r = [callee |-> Callee, subst |-> s, name |-> x]
        OBVIOUS
      <3>3. CASE reqs' = Append(reqs, r)
        <4>1. /\ DOMAIN reqs' = 1..(Len(reqs) + 1) /\ DOMAIN reqs = 1..Len(reqs)
              /\ Len(reqs) \in Nat
              /\ \A i \in DOMAIN reqs : reqs'[i] = reqs[i]
              /\ reqs'[Len(reqs) + 1] = r
          BY <3>3, AppendSeq DEF Seqs
        <4>2. Bears(r.callee, r.name)
          BY <3>1, <3>2
        <4> QED BY <4>1, <4>2 DEF Named, RequestsNamed
      <3> QED BY <3>1, <3>2, <3>3 DEF Named, RequestsNamed
    <2>3. CASE reqs' = reqs
      BY <2>3 DEF Named, RequestsNamed
    <2> QED
      BY <2>1, <2>2, <2>3 DEF Next, vars, CheckSyntax, StartInlineCheck, PopCallee, Recursion,
         NoRecursion, Report, Gate, BuildConcrete, AllConcrete, AllServed, SkipCall,
         SpliceCall, SpliceTooDeep, InstantiatePanics, Panic, EndSplice, EndModule,
         Write, Ended, Emitter, emitting, checking
  <1> QED BY <1>1, <1>2, BearsKept DEF RequestsNamed

LEMMA NextCurNamed ==
    ASSUME Seqs, Known, Named, [Next]_vars, frames' # <<>> PROVE CurNamed'
  <1>1. UNCHANGED crate
    BY CrateConstant
  <1>2. cur'.def \in Defs /\ Bears(cur'.def, cur'.name)
    <2>1. CASE BuildConcrete
      <3>1. PICK d \in todo : Build(d, <<>>, ModuleName(d))
        BY <2>1 DEF BuildConcrete
      <3>2. d \in Defs /\ cur'.def = d /\ cur'.name = ModuleName(d)
        BY <2>1, <3>1 DEF BuildConcrete, Known, Build
      <3> QED BY <3>2, NamesBear DEF Known
    <2>2. CASE PopRequest /\ cur' # cur
      <3>1. /\ reqs # <<>>
            /\ Build(Last(reqs).callee, Last(reqs).subst, Last(reqs).name)
        BY <2>2 DEF PopRequest
      <3>2. cur'.def = Last(reqs).callee /\ cur'.name = Last(reqs).name
        BY <3>1 DEF Build
      <3>3. Len(reqs) \in DOMAIN reqs
        BY <3>1, FrontSeq DEF Seqs
      <3> QED BY <3>2, <3>3 DEF Last, Known, Named, RequestsNamed
    <2>3. CASE InstantiateCall
      <3>1. cur'.name = cur.name /\ cur'.def = cur.def /\ frames # <<>>
        BY <2>3 DEF InstantiateCall, Instantiates, AtCall, Lowering
      <3> QED BY <3>1 DEF Named, CurNamed
    <2>4. CASE cur' = cur /\ frames # <<>>
      BY <2>4 DEF Named, CurNamed
    <2>5. CASE frames = <<>> /\ ~ BuildConcrete /\ ~ (PopRequest /\ cur' # cur)
      <3>1. CASE PopRequest
        <4>1. CASE Last(reqs).name \in seen
          BY <2>5, <3>1, <4>1 DEF PopRequest
        <4>2. CASE Last(reqs).name \notin seen
          <5>1. PICK d, s : /\ cur' = [name |-> Last(reqs).name, def |-> d, subst |-> s, insts |-> {}]
                            /\ frames' = frames \/ frames' = <<Frame(d, s)>>
                            /\ d = Last(reqs).callee
            BY <3>1, <4>2 DEF PopRequest, Build
          <5>2. Len(reqs) \in DOMAIN reqs
            BY <3>1, FrontSeq DEF Seqs, PopRequest
          <5> QED BY <5>1, <5>2 DEF Last, Known, Named, RequestsNamed
        <4> QED BY <4>1, <4>2
      <3> QED
        BY <2>5, <3>1 DEF Next, vars, CheckSyntax, StartInlineCheck, PopCallee, Recursion,
         NoRecursion, Report, Gate, AllConcrete, AllServed, SkipCall,
         SpliceCall, SpliceTooDeep, InstantiateCall, InstantiatePanics, Instantiates, Panic, EndSplice,
         EndModule, AtCall, Lowering, Write, Ended, Emitter, emitting, checking
    <2> QED
      BY <2>1, <2>2, <2>3, <2>4, <2>5 DEF Next, vars, CheckSyntax, StartInlineCheck, PopCallee,
         Recursion, NoRecursion, Report, Gate, AllConcrete, AllServed, SkipCall,
         SpliceCall, SpliceTooDeep, InstantiatePanics, Panic, EndSplice, EndModule, PopRequest,
         Write, Ended, Emitter, emitting, checking
  <1> QED BY <1>1, <1>2, BearsKept DEF CurNamed

LEMMA NextInstancesNamed ==
    ASSUME Seqs, Known, Named, [Next]_vars PROVE InstancesNamed'
  <1>1. UNCHANGED crate
    BY CrateConstant
  <1>2. ASSUME NEW m \in (File \union {cur})', NEW n \in m.insts
        PROVE  n.callee \in Defs /\ Bears(n.callee, n.module)
    <2>1. CASE m \in File \union {cur}
      BY <2>1 DEF Named, InstancesNamed
    <2>2. CASE m \notin File \union {cur}
      <3>1. m = cur' /\ cur' # cur
        BY <2>2, FileGrows DEF File
      <3>2. CASE InstantiateCall
        <4>1. PICK s, x :
                /\ cur'.insts = cur.insts \union {[module |-> x, callee |-> Callee, subst |-> s]}
                /\ Callee \in Defs /\ Bears(Callee, x)
          BY <3>2, NewInstance
        <4>2. CASE n \in cur.insts
          BY <4>2 DEF Named, InstancesNamed
        <4>3. CASE n \notin cur.insts
          <5>1. n.callee = Callee /\ n.module = x
            BY <3>1, <4>1, <4>3
          <5> QED BY <4>1, <5>1
        <4> QED BY <4>2, <4>3
      <3>3. CASE cur'.insts = {}
        BY <3>1, <3>3
      <3> QED
        BY <3>1, <3>2, <3>3 DEF Next, vars, CheckSyntax, StartInlineCheck, PopCallee, Recursion,
         NoRecursion, Report, Gate, BuildConcrete, Build, AllConcrete, PopRequest, AllServed,
         SkipCall, SpliceCall, SpliceTooDeep, InstantiatePanics, Panic, EndSplice, EndModule,
         None, Write, Ended, Emitter, emitting, checking
    <2> QED BY <2>1, <2>2
  <1> QED BY <1>1, <1>2, BearsKept DEF InstancesNamed

LEMMA NextNamed == Seqs /\ Known /\ Named /\ [Next]_vars => Named'
  <1> SUFFICES ASSUME Seqs, Known, Named, [Next]_vars PROVE Named'
    OBVIOUS
  <1>1. CurNamed'
    BY NextCurNamed DEF CurNamed
  <1> QED BY <1>1, NextFileNamed, NextRequestsNamed, NextInstancesNamed DEF Named

LEMMA InitNamed == Init => Seqs /\ Flow /\ Known /\ Named
  <1> SUFFICES ASSUME Init PROVE Seqs /\ Flow /\ Known /\ Named
    OBVIOUS
  <1>1. /\ frames = <<>> /\ reqs = <<>> /\ modules = <<>> /\ mono = <<>> /\ phase = "syntax"
        /\ crate \in Crates /\ cur = None
    BY DEF Init
  <1>2. DOMAIN frames = {} /\ DOMAIN reqs = {} /\ File = {} /\ cur.insts = {}
    BY <1>1 DEF File, ToSet, None
  <1> QED
    BY <1>1, <1>2, InitFlow DEF Known, Named, FileNamed, CurNamed, RequestsNamed, InstancesNamed

\* The module an instance names is built from the def its call resolved to.
ServedByTheirDef ==
    NamesApart =>
        \A m \in File : \A n \in m.insts : \A h \in File : h.name = n.module => h.def = n.callee

LEMMA NamedServed == Known /\ Named => ServedByTheirDef
  <1> SUFFICES ASSUME Known, Named, NamesApart,
                      NEW m \in File, NEW n \in m.insts, NEW h \in File, h.name = n.module
               PROVE  h.def = n.callee
    BY DEF ServedByTheirDef
  <1>1. h.def \in Defs /\ Bears(h.def, h.name)
    BY DEF Named, FileNamed
  <1>2. n.callee \in Defs /\ Bears(n.callee, n.module)
    BY DEF Named, InstancesNamed
  <1>3. crate \in Crates
    BY DEF Known
  <1> QED BY <1>1, <1>2, <1>3, OneBearer

\* In any crate whose module names are apart and at any time, a module with the
\* name of an instance was built from the def that the instance's call resolved
\* to, copies and re-selected impls included (module_name, mono_name).
THEOREM ModulesServeTheirDef == Spec => []ServedByTheirDef
  <1> DEFINE Inv == Seqs /\ Flow /\ Known /\ Named
  <1>1. Inv /\ [Next]_vars => Inv'
    BY NextSeqs, NextFlow, NextKnown, NextNamed
  <1>2. Inv => ServedByTheirDef
    BY NamedServed
  <1> QED BY <1>1, <1>2, InitNamed, PTL DEF Spec

-----------------------------------------------------------------------------
(* Calls of a trait's declaration.                                         *)

\* Every call of a declaration that is met finds an impl: what mono_check has
\* established of the crate.
Dispatches == AtCall /\ Def(Call.callee).decl => Redirected(Call, Top.subst)

NoDeclarations == \A m \in File \union {cur} : \A n \in m.insts : ~ Def(n.callee).decl

LEMMA RedirectedToBody ==
    ASSUME crate \in Crates, NEW c, NEW s, Redirected(c, s)
    PROVE  ~ Def(Target(c, s)).decl
  <1> DEFINE F == FittingImpls(c, s)
  <1>1. /\ DOMAIN crate.impls \subseteq Nat
        /\ \A i \in DOMAIN crate.impls : ~ Def(crate.impls[i].method).decl
    BY CrateAssumption DEF Def
  <1>2. F # {} /\ F \subseteq DOMAIN crate.impls
    BY DEF Redirected, FittingImpls
  <1>3. \E m \in F : \A k \in F : m <= k
    <2> HIDE DEF F
    <2> QED BY <1>1, <1>2, Least
  <1>4. PICK m \in F : Selected(c, s) = crate.impls[m]
    BY <1>3 DEF Selected
  <1> QED BY <1>1, <1>2, <1>4 DEF Target

LEMMA NextNoDeclarations ==
    ASSUME Seqs, Known, Dispatches, NoDeclarations, [Next]_vars
    PROVE  NoDeclarations'
  <1>1. \A d : Def(d)' = Def(d)
    BY CrateConstant DEF Def
  <1>2. ASSUME NEW m \in (File \union {cur})', NEW n \in m.insts
        PROVE  ~ Def(n.callee).decl
    <2>1. CASE m \in File \union {cur}
      BY <2>1 DEF NoDeclarations
    <2>2. CASE m \notin File \union {cur}
      <3>1. m = cur' /\ cur' # cur
        BY <2>2, FileGrows DEF File
      <3>2. CASE InstantiateCall
        <4>1. PICK s, x :
                cur'.insts = cur.insts \union {[module |-> x, callee |-> Callee, subst |-> s]}
          BY <3>2, NewInstance
        <4>2. CASE n \in cur.insts
          BY <4>2 DEF NoDeclarations
        <4>3. CASE n \notin cur.insts
          <5>1. n.callee = Callee
            BY <3>1, <4>1, <4>3
          <5>2. AtCall /\ crate \in Crates
            BY <3>2 DEF InstantiateCall, Instantiates, Known
          <5>3. CASE Def(Call.callee).decl
            <6>1. Redirected(Call, Top.subst)
              BY <5>2, <5>3 DEF Dispatches
            <6> QED BY <5>1, <5>2, <6>1, RedirectedToBody DEF Callee
          <5>4. CASE ~ Def(Call.callee).decl
            BY <5>1, <5>2, <5>4, CallKnown
          <5> QED BY <5>3, <5>4
        <4> QED BY <4>2, <4>3
      <3>3. CASE cur'.insts = {}
        BY <3>1, <3>3
      <3> QED
        BY <3>1, <3>2, <3>3 DEF Next, vars, CheckSyntax, StartInlineCheck, PopCallee, Recursion,
         NoRecursion, Report, Gate, BuildConcrete, Build, AllConcrete, PopRequest, AllServed,
         SkipCall, SpliceCall, SpliceTooDeep, InstantiatePanics, Panic, EndSplice, EndModule,
         None, Write, Ended, Emitter, emitting, checking
    <2> QED BY <2>1, <2>2
  <1> QED BY <1>1, <1>2 DEF NoDeclarations

\* In any crate whose calls dispatch wherever the emitter meets them, no
\* instance of the written file names a trait's declaration, and each has the
\* module of the def its call resolved to.
THEOREM InstancesReachCallees == Spec /\ []Dispatches => []InstancesReachTheirCallee
  <1> DEFINE Inv == Seqs /\ Flow /\ Known /\ Named /\ NoDeclarations
  <1>1. Init => Inv
    <2> SUFFICES ASSUME Init PROVE Inv
      OBVIOUS
    <2>1. modules = <<>> /\ mono = <<>> /\ cur = None
      BY DEF Init
    <2>2. File = {} /\ cur.insts = {}
      BY <2>1 DEF File, ToSet, None
    <2> QED BY <2>2, InitNamed DEF NoDeclarations
  <1>2. Inv /\ Dispatches /\ [Next]_vars => Inv'
    BY NextSeqs, NextFlow, NextKnown, NextNamed, NextNoDeclarations
  <1>3. Inv => InstancesReachTheirCallee
    BY NamedServed DEF NoDeclarations, ServedByTheirDef, InstancesReachTheirCallee
  <1> QED BY <1>1, <1>2, <1>3, PTL DEF Spec

=============================================================================
