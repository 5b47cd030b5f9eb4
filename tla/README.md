# TLA+ models of the Mirin toolchain

Mirin is a hardware description language; this repository compiles it to
SystemVerilog (`packages/mirin-compiler`), serves it to editors
(`packages/mirin-lsp`) and formats it (`packages/mirin-fmt`).  This directory
holds models of the parts of that toolchain whose correctness is about order,
fixpoints, shared state, names and limits, TLC runs over small instances, and
proofs that TLAPS checks for all instances.  Paths below are relative to the
repository; a file named without a directory is the one of its section, and
`def_map.rs:965` means line 965.

Contents: [Inventory](#inventory), [Reading order](#reading-order); the
components [DefMap](#defmap-name-resolution),
[LspServer](#lspserver-the-language-server),
[Signatures](#signatures-declarations), [Scopes](#scopes-names-in-a-body),
[Inference](#inference-types-and-clock-domains),
[Drivers](#drivers-single-assignment),
[ConstEval](#consteval-compile-time-values),
[MonoCheck](#monocheck-checks-of-instantiations),
[Emission](#emission-from-a-crate-to-its-file),
[Lowering](#lowering-from-a-body-to-a-module),
[Formatter](#formatter); [What is proved](#what-is-proved),
[Not modelled](#not-modelled), [Notes on the code](#notes-on-the-code).

## Inventory

The compiler is *one set of queries* over a database of inputs (the salsa
library): every query is a function of the inputs and of other queries, so the
components below keep state only while one query runs, except the inputs and
the language server.  The command line fills the inputs once; the server keeps
changing them.

| Component | State it keeps | Operations | Correct when |
|---|---|---|---|
| Inputs: `base/{db,vfs,loader}.rs` | path → text, the crate's file set and root | set a text, refresh the root, load a crate | every `mod m;` that name resolution looks for on disk was loaded; an input changes only when its content does |
| Item identity: `syntax/ast_id.rs` | ids minted so far, collision counters | mint an id per item | ids are unique in a file and survive edits to other items |
| Item tree: `syntax/item_tree.rs` | none | project the syntax tree | an edit inside a body leaves it equal |
| Name resolution: `nameres/def_map.rs` | modules, name tables, defs, visibilities, pending work, diagnostics | declare, refine, import, check, index impls, name defs | each use is bound to what it names or diagnosed; privacy is kept |
| Signatures: `hir/sig.rs` | the signature so far | lower generics, bounds, types, domains | indices agree between a method and its impl; each leaf is on the domain its type says |
| Bodies: `hir/body.rs` | ribs of names, locals, blocks | lower a body | each name refers to what its position says; no equation is lost |
| Inference: `hir/infer.rs` | type variables, obligations, residuals | unify, discharge, solve traits | what is accepted is well typed, or left to the instances |
| Constants: `{hir,mir}/const_eval.rs`, `mir/lower.rs` | a slot per local, steps and depth used | evaluate on demand, fold `const if` | cycles and limits give no value, never a wrong one |
| Checks: `hir/check.rs` | drivers seen per place | drivers, completeness, directions, inline | no element has two drivers, none has no driver, or it is reported |
| Instance checks: `backend/mono_check.rs` | diagnostics so far, the budget of the call at hand | walk the instantiations below every call | what is reported is what is wrong below the call |
| Backend: `backend/lower.rs` | worklist of instances, names used, the module under construction | gate, emit, monomorphise, splice | the modules mean the source, and each instance has one |
| Command line: `main.rs` | none | run the checks in order, emit | exit code 0 means a whole file for a clean crate |
| Language server: `mirin-lsp/src/server.rs` | open documents, the overlay of their texts, the editor's view | open, change, close, format, go to definition | the diagnostics shown are those of the buffers |
| Formatter: `mirin-fmt` | layout stack, the files of a run | format a tree, check a file | nothing is lost; a second formatting changes nothing |

How they interact: the loader and the server write the inputs; item tree and
ast-ids are read by name resolution; signatures, bodies, inference and checks
read name resolution and each other; the backend reads all of them behind one
gate (`crate_emittable`).  The command line and the server are two clients of
the same queries, each with its own list of which diagnostics to ask for.  The
formatter shares only the grammar.

Where it is hard, apart from the rules themselves: the import fixpoint and
everything that is copied while it runs; provisional answers refined later
(`pub(in path)`, obligations, symbolic widths); facts kept twice (a
visibility, the list of checks, two constant evaluators, the generics of an
impl and of its methods); names made from other names (splices, leaves,
specialised copies); limits that turn into "no answer" (depths, fuel, budgets,
step counts, 16-bit hashes); and the server's handlers, which interleave at
their awaits over shared maps.  `PROJECT.json` lists these hazards at their
lines with the properties that cover them, and says why the others have none.

## Reading order

| Module | What it is | Abstraction or reference | Proofs |
|---|---|---|---|
| `DefMap`, in `CrateMap` | name resolution | `NameTable` (refinement) | `DefMapProofs`, `DefMapPrivacyProofs`, `CrateMapProofs` |
| `LspServer` | the server, its channels, the editor | `EditorView` (refinement) | `LspServerProofs` |
| `Signatures` | declarations | the written types and bounds (`Meant`) | — |
| `Scopes` | bodies | lexical scoping (`Visible`) | — |
| `Inference` | types and domains | declarative rules (`Typed`) | — |
| `Drivers` | drivers and completeness | the single elements of a type (`Elements`, `Hits`) | `DriversProofs`, `DriversCountProofs` |
| `ConstEval` | both evaluators and the fold | the least solution of a body's equations | — |
| `MonoCheck` | the bounded walk | all instantiations within the fuel (`Below`) | `MonoCheckProofs` |
| `Emission` | command line, gate, worklist, splices | reachability (`ReachesItself`) | `EmissionProofs` |
| `Lowering`, on `Netlist` | bodies to SystemVerilog items | `SourceMeaning` | — |
| `Formatter`, on `Layout` | rules, renderer, command line | the tokens of the tree | — |

Each `MC<Module>.tla` defines the instances and each `.cfg` is one run.
`PROJECT.json` maps every definition to the lines it models and names, for each
property of a run, a mutation of the model that breaks it.

Three conventions hold everywhere.  The queries are deterministic: the only
choice is the crate, the body or the file, which `Init` takes from a set, so a
run is "the algorithm on each of these inputs, step by step"; only the server
has real interleavings.  A reference never looks at the machinery it judges
(no tables, no order of steps).  And where a property assumes something of the
input, the assumption is named and the crates it leaves out are described
below, with what the code does to them under
[Notes on the code](#notes-on-the-code).

## DefMap: name resolution

`DefMap.tla` is the query `crate_def_map` (`def_map.rs:526`), phase by phase:

| Phase | Actions | Code |
|---|---|---|
| `collect` | `CollectItem`, `DeclareAdt`, `CollectMod`, `CollectUse`, `EndCollect` | `collect_items`, `declare`, `declare_adt`, `collect_mod` |
| `pending` | `ResolvePending`, `EndPending` | `resolve_pending_visibilities` |
| `imports` | `BeginUse`, `ImportLeaf`, `ImportSelf`, `ImportGlob`, `EndUse`, `EndPass` | `resolve_imports`, `import_tree`, `import_leaf`, `import_glob`, `insert_binding` |
| `check` | `CheckLeaf`, `EndCheckUse`, `EndCheck` | `check_uses`, `check_path_access` |

`table` is the `items` maps of all modules, keyed `<<module, name, namespace>>`;
`visibility` is `DefData.visibility`, `Undeclared` where `defs` has no entry;
`parent` and `moduleOf` are the module tree; `pending`, `uses` and `diags` the
vectors of the `Collector`.  A def is an item and a role, as a `DefId` is an
ast-id and a role.  `Public` and `Crate` are one visibility (there is one
crate), a restricted one is its module.  A crate is the sequence of its items
in the order `collect_items` meets them: an item names the module it is in, so
inline modules and file modules look the same, and a `mod m;` without a file is
`found = FALSE`.  A `use` is the sequence of its leaves with the prefixes of its
groups prepended, in the order `import_tree` visits them.

Each step of the loops is a step of the model, so that everything a leaf does
to the tables is seen by the next one.

`CrateMap.tla` adds the two phases that write maps of their own, so that the
whole query is one specification.  Its steps are DefMap's, with what they do to
the order of the defs, and:

| Phase | Actions | Code |
|---|---|---|
| 3, after the imports | `SkipImpl`, `IndexInherent`, `IndexTraitImpl` | `resolve_impls` |
| 5, at the end | `BuildDefPath` | `build_def_paths` |

`order` is `def_order`; `inherent`, `dispatch` and `traitImpls` are
`impl_methods`, `trait_dispatch` and `trait_impls`; `paths` is `def_paths` in the
order in which it is filled.  The prelude is what it binds (`Prelude`), the
scope behind every module's table, and its impls lead the queue; no `use` path
reaches it, so DefMap does without.

Left out: visibility and `inline` of methods, the hash of a path and the map
from it.  The order of the diagnostics is abstracted: `diags` and `implDiags`
are sets.

`NameTable.tla` is what the tables promise, whatever the crate: names are
declared, then imported, then frozen; a binding gives way only to a stronger
one (absent < glob < import < def); a def is declared under one name; an import
copies a def the tables already bind in the same namespace.  `DefMap` implements
it under the mapping `stage` (phases to stages; the table is the same).

| Run | Crates | Shows |
|---|---|---|
| `MCDefMap` | 1440 crates of imports: a `use` in each of four modules, private and public; 1584 of declarations: duplicates of each sort, `pub(in path)` before and after what it names, missing files, mutual globs, cyclic re-exports, two imports of one name; 84 of impls: the type and the trait from the module, an import, the prelude or nowhere, methods overridden, impls repeated and overlapping; 171 297 states | `BoundDefsWonTheirName`, `VisibilityAgrees`, `LostDeclarationsReported`, `UsesAnswered` (the passes end in a real fixpoint, and the import walk and the diagnosing walk agree), `RestrictionsKept` (`pub(in path)` lands, privacy along chains), `MethodsAreReached` and `ImplsAreJudged` (the impl index), `PathsIdentify` (def paths), `NameTableSpec` (refinement), `Terminates` |

The crates are small where the behaviour is: chains of imports need a module
between two others, an override needs a glob and an import of one name, a cycle
needs two modules; five modules and eleven items give all of them at once.  In
the crates of imports every module sees the root's names, so what the root or
the module in the middle writes is kept to private and to plain public uses.
Longer chains repeat the same steps, and for what is proved the size does not
matter.

`PrivateStaysInside`, the second half of `RestrictionsKept`, speaks of crates
that re-export nothing (the language lets a re-export widen a visibility), in
which no name is a module and an item, and no module has both globs and explicit
imports.  Of a name that is both, an import takes both, the one it may not see
too (`import_leaf` does not look at visibilities, and `check_path_access` is
content with either).  Where an explicit import takes a name over from a glob, a
copy of the glob's def stays behind (`def_map.rs:1118`), and the path that led
to it leads elsewhere by the time it is checked.  `MayKnow` counts what is inside
the module of the declaration as knowing the def, because `pub(in path)` may name
a module that is no ancestor, which hides the def from its own module
(`def_map.rs` checks no ancestry).

In the crates of impls the queue holds the prelude's impl and two of the crate's:
an impl is compared with those before it, and overridden by those after it.
`MethodsAreReached` and `ImplsAreJudged` look at the tables as they are in the
end; that they hold of an index built in the phase before the checks is what the
order of the phases is for (the mutation starts it with the imports).

Fairness: `WF_mapVars(CrateNext)`.  The query is one synchronous call of one thread; it
stops only where no step is left, so it takes a next step whenever it has one.

### Proofs

All for any names, any set of crates that satisfies `CratesAssumption` (items
are items and lie in modules already opened) and any bounds.

`DefMapProofs.tla`: `TypeCorrect`, `BoundDefsWon`, `VisibilitiesAgree`,
`LostReported`, `ImplementsNameTable`.  The argument is one inductive invariant,
`DeclInv`.  `BoundDefsWonTheirName` alone is not inductive: that a binding copied
by an import leads to a def that won its name (`TableOK`) survives a declaration
only because the def being declared is new, for which the items collected so far
must be those before `pos`; and that both copies of a visibility agree survives
the refinement of a pending entry only because no import has been bound yet
(`NoImports`), so that the name leads to the def of its own declaration.
`DeclsOK` states the invariants of a record of the four variables that `declare`
changes, so that the two declarations of a struct are two uses of `DeclareOK`.
In the import phase every step is a `Copies` step (`ImportsCopy`), which is at
once what keeps `TableOK` (`CopiesKeepTable`) and what NameTable calls an import.

In the same module: `EveryUseAnswered` (`UsesAnswered`) and `RestrictionsLand`
(`PubInLands`, the first half of `RestrictionsKept`).

- That the fixpoint is one: `AtRest` says that once the passes are over every
  leaf is settled.  It follows from `SettledSoFar`: a pass that has inserted
  nothing yet has settled each leaf it has passed, in the tables as they are,
  because nothing has moved since.  A pass that did insert is followed by
  another, so the last pass is one of the first kind.
- That the two walks agree: the tables are frozen when the checks begin
  (`CheckedSoFar` speaks of the same tables the imports left), and three lemmas
  about the walk over a path relate the verdict of `check_path_access` to what
  `resolve_path` returns (`OkResolves`, `UnresolvedNamesNothing`, `DeadEnd`).
- That `pub(in path)` lands: `Owed` says that what is not refined yet is still
  pending, with the module the path will lead to in the declarations alone,
  which no later step of the phase changes.

`DefMapPrivacyProofs.tla`: `PrivacyKept` (`PrivateStaysInside`) and
`RestrictionsAreKept` (`RestrictionsKept`).  "Each def is known where it may be"
is not inductive: an import takes what it may not see, and only the checks that
follow say so.  The invariant is `Safe`: every module may know what it binds, or
some leaf `Leaks`, looking through its path at a name it may not see, and a leak
stays one while the tables grow (`LeaksGrows`), so that it is there to be reported
when the checks come to it (`LeakReported`).

- The tables of a plain crate only grow (`Grows`): no explicit import can take a
  name from a glob, and a name is imported once.
- What may be known travels (`PathKnown`, `GlobKnows`): a binding seen from module m
  was imported where its own module could know the def, and m is inside the
  module that imported it (`Dated`), or it is declared there.
- That rests on the shape of the module tree: a module is opened after the one it
  is written in (`TreeInv`), so climbing by `super` descends in number, ends at the
  root and passes every ancestor (`UpDescends`, `UpIsWithin`, `WithinWithin`).

`CrateMapProofs.tla`: `CrateResolvesNames` (a run of CrateMap is one of DefMap, by
which what is above holds with the impls around it), `MethodCallsReach`
(`MethodsAreReached`), `SelectionRelies` (`ImplsAreJudged`) and
`EachPathIdentifies` (`PathsIdentify`), for any prelude and any impls.

- `IndexInv` says of the impls resolved so far what the properties say in the end.
  It is inductive because an impl's type, trait and conformance are functions of
  the tables (`SameJudgement`), and the tables stand still from the first impl on:
  before, nothing is indexed (`~Over => nextImpl = 1`).  A diagnostic is about the
  impl being resolved and no other (`RefusedStep`), and what the coherence check
  finds among the entries so far is an earlier impl (`OverlapIsRivalry`).
- `OrderInv` says that the order of the defs repeats none: every def belongs to one
  item or to one impl (`OneOrigin`), and items and impls are taken once each.
- `PathsInv` says that the number of a path is how many before it have its names,
  so that of two equal ones the later has the larger number (`NumbersDiffer`).
  That every name leads to a path rests on DefMap's `DeclInv` (what is bound is
  declared) and `RolesFit` (what is declared was pushed).

Model-checked only: `Terminates` (liveness).

## LspServer: the language server

`LspServer.tla` is `Backend` in `mirin-lsp/src/server.rs` with what its handlers
call (`semantic::diagnostics`, `navigation::definition_range`, `Vfs`), and the
editor as its environment.

| Model | Code |
|---|---|
| `buffers`, `asked`, `shown` | the editor: its documents, its open formatting requests, the diagnostics it shows |
| `inbox`, `outbox` | the two directions of the connection |
| `documents` | `Backend.documents` (`DashMap`) |
| `vfs`, `krate` | `Vfs.by_path` with the texts of the files, and the one `SourceRoot` input, behind `Backend.analysis` |
| `waiting` | the handlers suspended in a send, with the map guard each holds |
| `stuck` | the server's task is blocked on a guard |
| `DidOpen`, `DidChange`, `DidClose`, `GotoDefinition`, `Formatting`, `FormattingRefused` | the handlers of these names up to their end or their one await |
| `Publish`, `Overlay`, `SourceRoot`, `Diagnose` | `publish`, `semantic::diagnostics`, `Vfs::source_root` |
| `Blocks`, `Resume`, `Deliver` | a write lock that is not free; a send that gets room; the transport |

The protocol library is external: the model rests on what the code uses of it.
One task runs all handlers (nothing is spawned), starts them in the order of
their messages, keeps at most `Concurrency` unfinished and lets go one waiting
handler for each message taken from the channel (`Room`).  Between two awaits a
handler is not interrupted, so each is one step, split at its send.

A content carries the number of its edit (`ver`).  The server does not see it;
the properties use it to tell an old text from an equal new one.  The documents
share a directory and their declared modules are one level deep, so what a
diagnosis depends on is the document and those it declares.  A text is a model
value: it may be broken (`Broken`) and declares documents (`Declares`); the
rest of the analysis is abstracted to "computed from these contents".  A ranged
change is the text it results in.

`EditorView.tla` is what the editor may see: documents get newer versions, and
what is shown for one is of a version already written and never of an older one
than before.

| Run | Instance | Shows |
|---|---|---|
| `MCLspServer` | 2 documents in one shard, one named `prelude.mrn`, 3 edits each, room for 1 message, 2 handlers, 2 messages under way | `DocumentsInStep`, `OutboxBounded`, `ViewSpec`, `CatchesUp` |
| `MCLspServerRefused` | the same with formatting requests only | a violation of `FormattingAnswered`: `formatting` awaits a send holding its document's guard; an edit of a document in that shard blocks the task that would empty the channel |

One message of room and two handlers are the least that make a handler wait
while another starts; with two documents and three edits a document can be
opened, broken, mended or closed while the other one is analysed.
`MCLspServerRefused` is the one run that shows the code departing from what its
comments say; `findings` in `PROJECT.json` quotes the lines.

Two things the model does as the code and no property forbids: go to definition
puts a text that does not parse into the analysis of the other documents, and an
edit does not republish the documents that use the edited one.

Fairness: `WF_vars` on `Start`, `Resume` and `Deliver`: the task polls its
handlers, its input and its output whenever it is woken.  None on the editor,
which may stop writing at any time; for that reason the runs do not check
deadlock.  `CatchesUp` says of a server that does not get stuck that the
diagnostics shown for the last edit of a document come from its text at last;
a server that does get stuck is what `MCLspServerRefused` is about.

### Proofs

`LspServerProofs.tla` proves, for any documents, texts, shards, room and
concurrency, and any number of edits: `TypeCorrect`, `Backpressure`
(`OutboxBounded`), `PreludeIsUnique` (`OnePrelude`, which no run checks),
`DocumentsKeptInStep` (`DocumentsInStep`) and `ImplementsView` (`ViewSpec`).

`OutboxBounded` is not inductive: a message may join only while a handler may
start, so what is carried along is that the messages beyond the room are no
more than the waiting handlers (`WaitersCover`).  `OnePrelude` rests on the shape of
the last crate (`RightPrelude`) and on every text of the VFS having been put
there (`TextsPresent`).  For the refinement, `InOrder` says that along the way
from the buffer through the inbox, the server's copy and the channel to the
screen, the versions of a document fall; `Rises` states it once for both
queues, with a lemma for what joins a queue and one for what leaves it.

Model-checked only: `CatchesUp` (liveness).

## Signatures: declarations

`Signatures.tla` is the lowering of one declaration by `hir/sig.rs`: a function
or method, an impl header, a struct or port, an associated constant.

| Model | Code |
|---|---|
| `Classify` | `lower_generics`: named parameters become domains, consts or types, from their kind or from how they are used |
| `CollectBounds` | bounds of parameters and `where` clauses, of the trait a method is declared in |
| `LowerTypes` | `lower_type` and its helpers on paths, vectors, tuples, `Self` |
| `CheckDomains`, `LiftDomains` | a signature names all its domains or none; the lifted one |
| `BuildResultPlaces` | the names a body's results are reached by |
| `LowerHeader`, `LowerAssocConst`, `LowerAdt` | `impl_header`, associated constants, structs and ports |

A written type is its sort, name, `@domain` and arguments; a lowered one its
sort, kind, generic index, domain and parts.  Left out: spans, defaults, field
directions and what a number is.

| Run | Instance | Shows |
|---|---|---|
| `MCSignatures` | some 3400 declarations: types up to two levels deep with each domain at each level, in functions, methods of impls and traits, headers, structs | `IndicesAgree` (references are in range, and an impl's header is a prefix of each of its methods' signatures, which select and substitute by the header's indices), `BoundsLand`, `SlotsFilled` (each leaf is on the domain its type says) |

Two levels of types give a domain inside, outside, on both and on neither, which
is all that filling and lifting distinguish.  `SlotsFilled` leaves out a `Self`
with a domain in an impl for a vector or a tuple (`MovesSelf`) and names that no
domain bears (`KnownDomains`), where the code drops the domain silently.

## Scopes: names in a body

`Scopes.tla` is the lowering of a function body by `hir/body.rs`: the ribs, the
locals, what each name refers to, the statements of each block, and the splices
of a verbatim body.

| Model | Code |
|---|---|
| `LowerNext` | one statement of the top block: `lower_stmt` with all it recurses into |
| `FinishBody` | the fold of the tail into an equation, the end of the top scope |
| `LowerSplice` | one `${...}` of a verilog body; a port, which is several nets, is refused |
| `cx` | the `BodyLowerer` |

A node of the syntax tree is its kind, name, children in the order they are
lowered, and pattern; a node is known by its path.  Left out: spans, values of
literals, types but for the names in their widths and whether a parameter is a port.

| Run | Instance | Shows |
|---|---|---|
| `MCScopes` | some 9000 bodies: every pair and the telling triples from a menu of bindings, uses and drives of two names, at the top and inside each construct that opens a scope | `NamesResolveLexically`, `BlocksKept` (`DeclarationsLand`, `DrivesKept`) |

The reference `Visible` finds the binder of a name from positions in the text
alone.  Two names are enough for one to shadow, be destructured with, or be read
while, the other.  `WellFormed` leaves out bodies refused for the form of an
`enumerate` or a missing initialiser; `DeclarationsLand` those with a
redeclaration.

## Inference: types and clock domains

`Inference.tla` is the query `infer` (`hir/infer.rs`) for one body.

| Model | Code |
|---|---|
| `cx` | `InferCtx`: the union-find table (`cx.table`), the types of locals, the obligations, residuals and diagnostics |
| `Fresh`, `Find`, `Union`, `Bind`, `Resolve` | `InferenceTable`; path compression is left out |
| `Unify*`, `Subsume*`, `Merge` | `unify`, `subsume`, `merge_branch` and their helpers on widths, domains, kinds |
| `InferNext`, `EndWalk`, `Infer*` | one statement of the body; the arms of `infer_expr_inner` and `infer_block` |
| `StartPass`, `DischargeOne`, `NextPass`, `Fallback`, `Finish` | `discharge_obligations`, `fallback_literals`, `finish` |
| `SolveTrait`, `Matches` | `solve_trait`, `match_header` |
| `Overflow` | a type that contains itself: the next resolution does not return |

A statement is one step of the walk; an obligation one step of a pass.  An
expression is known by its path in the body.  Calls with positional and named
arguments, methods, type-path calls, records, slices, loops, `reg` and sums and
differences of widths are modelled; const items, associated consts and the other
operators on widths are left out.

| Run | Instance | Shows |
|---|---|---|
| `MCInference` | some 9500 bodies of up to three statements over two clocks, with two traits that offer one method; `MaxDepth` 2 of 64; 69 445 states | `AcceptedBodiesFit`, `ConstIsNoClock`, `UndecidedIsKept`, `Terminates` |

The reference is `Typed`: rules that look at the final types only, without
variables, tables or order.  Two statements are needed for one variable to be
used before and after it is bound; three for a merge between them.  Bodies that
register a type that contains itself are left out (`Loops`): there the walk
itself does not return.  The other bodies left out are those for which inference
accepts what the rules refuse; they are the first group of the notes.

Fairness is `WF_vars(Next)` with its ENABLED written out (`Fairness`): until the
end one action always has a step, and TLC would otherwise infer each statement
again to see it.

## Drivers: single assignment

`Drivers.tla` is `check_drivers` and `completeness` of `hir/check.rs`, with the
walk `count_block` that both share.  A body is an arena of expressions,
statements and blocks that refer to each other by number; in the code the
expressions do, while blocks own their statements.

| Model | Code |
|---|---|
| `todo`, `Task` | the calls of the walk that are due: `count_block`, its arms, `count_expr`, `collect_when_drives` |
| `drives` | the map from a local to the paths that drive it |
| `driven` | the vector `collect_when_drives` fills, one per enclosing `when` |
| `PlaceOf`, `SliceSeg`, `RootLocal` | `place_of`, `slice_seg`, `root_local`: a place is a path of segments, where the code has text |
| `Overlap`, `Conflicting` | `paths_conflict`; the loop of `check_drivers` over the pairs |
| `Leaves`, `Covers`, `Missing` | `struct_leaf_paths`, `vec_slice_covers`, the arms of `completeness` |
| `pc = "check"`, `CheckLocal` | the loops of the two checks over the locals |

The walk over the body is a step per call, so that what it counts and where is
visible; the checks of one local are one step.  The rendering of a segment as
text and back (a symbolic index compares as text) is the kind `Runtime`: an end
that is no number.

| Run | Instance | Shows |
|---|---|---|
| `MCDrivers` | 1916 bodies: three drives of one local of six types, in ten nestings (plain, `if`, `for`, `when`, calls, records, nested); 32 444 states | `NoElementTwice`, `MultipleIsGenuine`, `EachDriverCounted`, `EveryElementDriven` |

The reference is `Elements`, the single fields, bits and vector elements of a
type, and which of them a path `Hits`; it knows nothing of segments' overlap.
Three drives are needed for a conflict between the first and the last; six
types give fields, bits, elements, nested ones, and a vector of unknown length.

`EveryElementDriven` leaves out locals driven by bits, and vectors driven by
parts of their elements (`Deep`), for which only the first segment of a path
counts: `v[0].a = x;` covers `v[0]` (`check.rs:392` against `:370`).

### Proofs

`DriversProofs.tla` proves, for bodies of any shape whose arena is filled from
the leaves up (`BodiesAssumption`: what an entry refers to is there, and an
expression's operands and a type's parts come before it, as they are allocated),
`DrivesAreDisjoint` (`NoElementTwice`), `ElementsAreDriven`
(`EveryElementDriven`) and `MultipleAreGenuine` (`MultipleIsGenuine`).

For the first, two paths that share an element conflict
(`SharedElementConflicts`): take the first segment where they differ; both hold
the element's segment there, so their ranges meet.  For the second, the elements
and the leaves of a type are recursive functions over the arena; that the
equations that define them have a solution is `RecursionIsDefined`, by induction
along the arena (`AlongTheArena`), and `LeavesLeadToElements` says that each
element is below a leaf.  `CoversHits` and `FieldsHit` then turn the verdicts of
`completeness` into hits.  The invariant `Checked` carries that the counted
drives no longer change once the checks have begun and that each local checked
so far has the diagnostics they give; `Walking`, that what is due refers to the
arena and the drives are places (`PlacesTyped`).

The third assumes `[]PlacesFit`: that each drive whose ends are known is of a
place within the type of its local, and selects nothing of a slice.  Inference
and `mono_check` refuse other bodies, and without it the report may be of no
element: `v[0..2][0]` and `v[1..3][2]` conflict at their first segment.  The
bodies of `MCDrivers` satisfy it (`PlacesFit` can be put among the invariants
of its configuration).  Of two places that conflict, one ends where they differ,
in a range; the other one's element, with its number there lowered to where its
own range begins, is in both (`RangeShares`), and it is an element of the type
as the numbers of a dimension begin at 0 (`ElementsClosed`, along the arena).
`Grounded` carries that what is reported was found at some local.

`DriversCountProofs.tla` proves `DriversAreCounted` (`EachDriverCounted`): what is
counted for a local are that many distinct drivers of the text, and all of them
where nothing that drives is where the walk does not look (`InSight`).  It needs
that the body is a tree (`Tree`, in `BodiesAssumption`): a block owns its
statements and a statement its blocks, and body lowering allocates an expression
for the one place it stands in; what it allocates and leaves out, the local a
pattern takes apart, drives nothing.  Blocks have no numbers in the code, so they
are numbered as they are finished, a statement's before its own.

A length is a cardinality only if no call is made twice and no `when` ends with
what another one guards, and neither can be seen in the list of calls alone.  The
invariant is `Accounted`: there are a set of calls the walk has gone through and
the ends of the `when`s that are due, such that (`Progress`)

- the calls gone through and those due are distinct, of their node's mode, guarded
  or not (`Proper`), and closed under what a call makes (`Visits`).  Two calls make
  none in common, as a node is held once (`MadeByOne`), so that each is made once
  (`VisitsKept`);
- a call that collects for a `when` comes before the end of that `when`, with no
  other end between them (`Owned`): it is what makes the head of `driven` its own;
- each set in `driven` is the roots of the equations seen so far of its own `when`
  (`StackOf`), complete when its end is met (`StackEnds`, `AllSeen`);
- what is counted for a local are the drivers whose call has been made
  (`CountsOf`): a step adds as many as its call is for (`AddsAre`, `SeenGrows`).

When nothing is due, the drivers counted are a subset of those in the text; and
what is `InSight` is reached by induction from the function's block along what
each node holds (`ReachedAreClosed`, `AllAreSeen`).  `InSight` says where the walk
does not look: the condition of an `if` and an event of a `when` that are
expressions, places, tuples, and of what a `when` guards the places, a block's
value, and every `for`, `when` and `return`.  Outside it drivers are missed, and
the run has such bodies.

## ConstEval: compile-time values

`ConstEval.tla` is the two evaluators, of HIR (`hir/const_eval.rs`) and of MIR
(`mir/const_eval.rs`), and `mir/lower.rs` as far as they see it.

| Model | Code |
|---|---|
| `LowerToMir` | `mir/lower.rs` for one def, with the `const if`s folded whose conditions are known |
| `EvalWidth`, `EvalValue`, `EvalReturn` | the entry points `eval_width`, `eval_cond_with`, `eval_return` |
| `Demand`, `DemandIn*`, `Slot` | `demand`, the search of a body for what drives a local; the memo per local with its mark for cycles |
| `EnterCall`, `EvalOutParam` | an activation; an output, evaluated in it on demand |
| `MaxSteps`, `MaxDepth` | `MAX_STEPS`, `MAX_DEPTH` |
| `Verdict` | `WidthEval`: a value, deferred to the instances, or failed |

A body is a system of equations; the reference is its least solution, computed
by iteration, with calls expanded `RefCalls` deep.  The ghost `cut` says that an
evaluation met a limit.

| Run | Instance | Shows |
|---|---|---|
| `MCConstEval` | 236 crates of a root def and five callees (an output between inputs, recursion, a loop without end, records); every query of each; `MaxSteps` 80, `MaxDepth` 3, `RefCalls` 4; 16 048 states | `AnswersAreRight` (`AnswersAreExact`; `FailuresAreFinal`: a width refused at once has no value under any binding), `FoldsKeepMeaning` |

Three calls within calls reach the depth limit and less than it; 80 steps end
some evaluations and not others.  The properties assume that a local has one
driver in each arm (`OneSite`), that the search for it reaches it (`AllSearched`)
and, for HIR, that the body has no expression only MIR evaluates (`PlainHir`);
the notes say what happens otherwise.

## MonoCheck: checks of instantiations

`MonoCheck.tla` is the query `mono_check` (`mono_check.rs:84`).  Inference leaves
open what depends on const parameters (equal widths, literals that fit, slices
in range, widths that are not negative); the query decides it at every call,
and below it at the calls of the callee with the arguments composed.

| Model | Code |
|---|---|
| `at`, `CheckCall`, `NextDef` | the two loops of `mono_check`: the def and the call whose instantiations are walked |
| `stack`, `Frame`, `Descend`, `SkipGround`, `Return` | the recursion of `compose_check` and its loop over inner calls |
| `budget`, `Frame.fuel` | `COMPOSE_BUDGET`, shared below one call, and `COMPOSE_FUEL`, per chain |
| `Substituted`, `Value` | `subst_const_opt`; `is_closed` with `eval_const` and its `MAX_STEPS` |
| `CheckObligations`, `Fails` | `check_obligations` |
| `out`, `Kept` | the diagnostics pushed; what the sort and `dedup` leave of a message |

A term over parameters is substituted to its value and the number of its nodes,
which is all the walk depends on: a value, `Open` while something in it is
symbolic, `Failed` when it divides by zero.  Type arguments and associated
consts are terms that stay symbolic; domains are left out.  What is pushed at
once is a set, since the sort forgets its order.  `checked` and `cut` are
history.

| Run | Instance | Shows |
|---|---|---|
| `MCMonoCheck` | 1120 crates: a caller with literals, a wrapper, a def with obligations; diamonds, self-recursion, mutual recursion; fuel 2, budget 5, 6 steps | `ReportsExact` |

The reference is `Below`, all instantiations within the fuel, without budget and
without skipping ground calls.  Fuel 2 is the least with a call below a call
below a call; the trees have up to seven instantiations, so a budget of 5 runs
out in some crates and not in others; six steps are fewer than some trees have
nodes.

A literal of a width that grounds to 0 passes: the check of literals starts at
width 1 and leaves the rest to that of widths, which rejects negative ones only.
The query may stop only at its end, for which the run does not check deadlock.

### Proofs

For any crates, fuel, budget and limits.

`MonoCheckProofs.tla`: `TypeCorrect`, `Bounded` (`WorkBounded`) and
`ReportedOnce` (`EachReportedOnce`), which no run checks.  `WorkBounded` needs
that each frame has the fuel its depth leaves (`Chain`, part of `TypeOK`) and
that what was checked and what is left of the budget add up to no more than it
(`Spent`).  `EachReportedOnce` rests on `DefsInOrder`: the walk takes the defs in
order, so between two equal diagnostics of the sorted list lies no equal message
of another def.

And `ReportIsExact` (`ReportsExact`).  Soundness is
`Justified`: each diagnostic is of an instantiation of `Below`, because the
frames of the stack are linked (`Linked`: each is a call of the one under it with
its arguments composed).  Completeness is `Covered`: of each call walked so far,
and of each frame on the stack for the part of its loop that is behind it
(`Walked`), every instantiation below was checked, unless a budget ran out.  A
call that is ground already is skipped below its callers; what it would report
is reported where the outer loop comes to it (`Swept`), since its instantiations
do not depend on the caller's arguments.

## Emission: from a crate to its file

`Emission.tla` follows `main` from a loaded crate to the written file: the syntax
errors, the list of checks in `collect_diagnostics`, `inline_recurses`, the gate
`crate_emittable`, the modules of `sv_file`, and the worklist of specialised
copies.

| Model | Code |
|---|---|
| `phase` | the step of `main`, then the loop of `sv_file` |
| `root`, `stack`, `visited`, `cleared` | the search of `inline_recurses`, one pop per step |
| `frames` | the `SvLower`s under construction: a module's, and one per splice within it |
| `reqs`, `seen`, `mono` | `mono_reqs`, the names requested, the copies built |
| `Redirected`, `Fits`, `Composed` | `resolve_trait_instance_with`: an impl selected for a ground receiver |
| `SkipCall`, `SpliceCall`, `InstantiateCall`, `InstantiatePanics` | what `lower_call_stmt` makes of a call |
| `exit` | the exit code; 101 is a panic |

A type is the path of its heads to one scalar or type parameter, a name the
sequence of the parts that the code joins.  What a def emits besides its
instances is `Lowering`'s; of the checks modelled elsewhere only their verdict
is kept (`bad`).

| Run | Instance | Shows |
|---|---|---|
| `MCEmission` | 669 crates of nine defs: plain, generic, inline, a trait's declaration with two impls, a prelude def; every choice of their calls from a menu | `InlineCheckExact`, `NoRecursiveSplice`, `EveryInstanceHasAModule`, `InstancesReachTheirCallee`, `WrittenWhole`, `Terminates` |

`NoRecursiveSplice` speaks of crates whose splices follow plain calls
(`PlainSplices`), which is what `inline_check` looks at; a method that dispatches
to itself is in the run, and excluded by this condition.
`InstancesReachTheirCallee` speaks of names that do not begin with each other
(`NamesApart`).

Fairness: `WF_vars(Next)`; `main` is one thread.

### Proofs

For any set of crates.

`EmissionProofs.tla`: `ModulesAreThere` (`EveryInstanceHasAModule`),
`OneModulePerName` (a copy is emitted once), `SplicesDoNotRecurse`
(`NoRecursiveSplice`) and `RecursionIsReported` (`InlineCheckExact`).  The first
carries that every instance of a finished module is settled: its copy is built
or requested, and what was requested is still in the list or built
(`AllSettled`, `CopiesMade`).  For the inline check, what the search let through
is outside some set closed under callees (`Free`, `Judged`), and what it met is
reached from its root, which a recursion then reaches again.  The frames of a
splice form a chain of plain calls (`Chained`), so a def under itself would be in
every closed set above it, against the least such pair (well-founded induction).

And for the file: `FileIsWhole` (`WrittenWhole`), `ModulesServeTheirDef` and
`InstancesReachCallees` (`InstancesReachTheirCallee`).  `Heard` says that each
check that found something left an exit code other than 0, `EmittedMade` that the
defs passed so far have their module.  `Named` says that a module, a request and
an instance bear the name their def and arguments give, so that with names apart
one name is one def.  `InstancesReachCallees` has one hypothesis, `Dispatches`:
wherever a copy is built, a call of a trait's declaration finds an impl for its
receiver.  That is what the obligations of inference and `mono_check` establish
before emission starts; TLC confirms it in every state of `MCEmission`.

Model-checked only: `Terminates` (liveness).

## Lowering: from a body to a module

`Lowering.tla` is what `backend/lower.rs` makes of a definition's MIR: leaves,
nets, assignments, registers, instances, muxes, generate loops, blocks, folds,
memories and splices.

| Model | Code |
|---|---|
| `StartModule`, `EndModule` | `lower_module`: ports, the header, what is prepended and appended |
| `LowerLet`, `LowerVar`, `LowerEquation`, `LowerReturn`, `LowerCall`, `LowerWhen`, `LowerFor`, `LowerFold` | the statements of `lower_block`, each with the values, places and splices it lowers |
| `DriveTail` | the value of the body on its result |
| `sv` | the `SvLower`: items, names used, counters, substitution, prefix |
| `modules` | the finished modules |

`Netlist.tla` gives a meaning to the items of `backend/ir.rs`: a module is
elaborated (loops unrolled, parameters bound) and each net has a value at every
tick, computed on demand from what drives it.  `SourceMeaning.tla` gives one to
the source, from statements and expressions alone: the value of every leaf of
every local at every tick.  Data are numbers, and what an operator computes is
an opaque mix of its arguments; so a wrong wire, index, clock, reset, polarity
or order shows as a wrong number.

| Run | Instance | Shows |
|---|---|---|
| `MCLowering` | 493 crates: every kind of value behind every kind of binding for types of five shapes (a scalar, a vector, a tuple, a struct, a port), and loops, folds, memories, slices, sizes, out connections; two stimuli, ticks 0 to 2; 3710 states | `ModulesAreRight` (`MeansTheSource`; `WellFormed`: names are declared once, before they are read; every element has one driver; no input is driven; no `todo!` or panic on the way) |

Three ticks show a register's initial value, its first and its second. The
crates leave out what the model does not have (generic structs, verbatim
modules, `for` over bits, assertions, const functions, specialised copies), and
three families in which the code emits something else than the source says; see
the notes.

## Formatter

`Formatter.tla` is `mirin-fmt`: one operator per rule of `format.rs`, and the
loop of `main.rs` over the files of a run.  `Layout.tla` is the document algebra
of `doc.rs` and its renderer, measuring and printing.

| Model | Code |
|---|---|
| `ReadFails`, `Refused`, `Unchanged`, `NotFormatted`, `Written`, `WriteFails` | the outcomes of `run_file`; a write that fails has truncated the file |
| `Exit` | the exit code 0, 1 or 2 |
| `RunCheck` | a second run, with `--check`, over what the first one wrote |
| the rules | `format_node` and what it calls; trivia between nodes |

A node has its kind, field, text, children and the rows it spans.  Formatting
standard input is a run over one file.

| Run | Instance | Shows |
|---|---|---|
| `MCFormatter` | 97 files of every rule with comments and blank lines, at 12 widths from 8 to 72 (for `MAX_WIDTH` 100; `SINGLE_LINE_IF_MAX` 20 for 50); 23 864 states | `SourceKept`, `CheckPasses`, `FlatLinesFit` |

The widths make each list, chain and arm of the files break at one and fit at
another.  The files keep to what the formatter handles; the others are in the
notes, and putting `Inputs <- ElementOfField` in `MCFormatter.cfg` shows the one
of them that changes a program's meaning.

## What is proved

| Invariant or property of a run | Theorem | Only model-checked |
|---|---|---|
| `BoundDefsWonTheirName`, `VisibilityAgrees`, `LostDeclarationsReported`, `UsesAnswered`, `RestrictionsKept`, `NameTableSpec` | `DefMapProofs`, `DefMapPrivacyProofs` | `Terminates` |
| `MethodsAreReached`, `ImplsAreJudged`, `PathsIdentify` | `CrateMapProofs` | — |
| `DocumentsInStep`, `OutboxBounded`, `ViewSpec` | `LspServerProofs` | `CatchesUp` |
| `ReportsExact` | `MonoCheckProofs` | — |
| `NoElementTwice`, `EveryElementDriven`, `MultipleIsGenuine`, `EachDriverCounted` | `DriversProofs`, `DriversCountProofs` | — |
| `InlineCheckExact`, `NoRecursiveSplice`, `EveryInstanceHasAModule`, `InstancesReachTheirCallee`, `WrittenWhole` | `EmissionProofs` | `Terminates` |
| — | — | `Inference`, `Scopes`, `Signatures`, `ConstEval`, `MCLowering`, `Formatter`: all |

Type correctness is a theorem where there are proofs, and not checked by the
runs.  Liveness is out of the prover's reach.  The modules of the last row
recurse over terms, trees and types as the code does; they use RECURSIVE
operators, with which the prover loses its arithmetic, and what a recursion over
data computes for every input is an induction it cannot instantiate.  Where a
recursion was needed in a proved module it is a recursive function over numbers
(the arena of Drivers), whose induction can be written out.

The theorems assume of the constants what `CratesAssumption`,
`BodiesAssumption` and the like say: that a crate, a body, a call is what the
earlier query produces.  TLC evaluates these assumptions on the instances.

## Not modelled

| Part | Why |
|---|---|
| Parsing, spans, rendering of diagnostics (`base/`, `syntax/`) | bindings to the generated parser; no state |
| `syntax/ast_id.rs`, `syntax/item_tree.rs` | a projection of the tree; the models' items are their own identities, so that an id is unique only up to an index that saturates at 255 (`ast_id.rs:184`) is not seen |
| `base/loader.rs` | reads the files of a crate before the analysis starts; the models begin with the file table loaded, so that the loader and name resolution look for the same files is not checked (`loader.rs:23`) |
| Literals, types' text, operators' tables in `hir/` and `mir/` | leaf conversions without decisions |
| Verbatim modules, assertions, const functions and the printer in `backend/` | text around what is modelled; `Netlist` starts from the items, not from their text |
| Tokens, symbols, folding, selection ranges, position conversion in `mirin-lsp` | handlers that read one document and return |
| Grammar and its parser, VS Code extension, prelude | generated, a thin client, and an input of the compiler |
| `packages/mirin-compiler-old` | superseded; kept outside the workspace as a parity oracle |

Next, in this order: the shared lemmas of the proofs in modules of their own;
the decision procedures of `Scopes` and `Signatures` as recursive functions over
an arena, as in `Drivers`, so that lexical resolution and the prefix property
can be proved.

## Notes on the code

What we met while modelling, besides the finding that a run shows.  Where a
property leaves out some inputs, the reason is among these.

**Inference.**

- An equation between widths that still hold inference variables is kept as a
  residual with those variables and never decided again, although the docs say
  that ground and unequal pairs become diagnostics (`concat_hi`, `prelude.mrn:529`).
- A slice of a base whose length is an inference variable loses its bounds
  check (`mono_check.rs:282`); `low <= high` of symbolic ends is not checked.
- The type argument of a record is not stamped with the record's domain:
  `Box{v = x_on_c1, w = b_on_c2}` mixes clocks (comment at `infer.rs:2929`), and
  a local declared `Box(uint(3))` lets its field be of any domain.
- `reg` asks for the domain of its receiver once, when it is met
  (`infer.rs:2886`); if a later equation defines the receiver, data and reset may
  be on two clocks, which `infer.rs:2880` says is rejected.
- Directions are checked on plain calls only (`check.rs:695`); a missing named
  parameter without default is not reported (`infer.rs:2413`); explicit named
  generics are neither checked nor used.
- A type-path call of a method with `self` passes the arity check without a
  receiver; a method without `self` called through a receiver ignores it.
- The first argument of a method on a literal receiver is inferred twice
  (`infer.rs:2709`), so nested ones take exponential time.
- There is no occurs check (`infer.rs:546`).
- Overlapping impls (`uint(N)` and `uint(4)`) with one method are filtered with
  widths that may not be resolved yet.
- The order of equations may decide whether a body is accepted (`infer.rs:1571`:
  two unbound variables are united before anything binds them).
- The condition of an `if` and an index are inferred but their domain is not
  compared with what they select (`:2226`); the equations under a `when`
  statement are not compared with its clock (`:1774`); a field of a variable
  whose type is not known yet is an error type without a report (`:2495`).

**Name resolution and scopes.**

- `mod a { pub use b::*; mod d { use super::x; } pub use c::x; }` leaves
  `a::d::x` bound to `b::x` (`def_map.rs:1118`).
- `use super::*;` of a parent that is not a plain module imports nothing and
  says nothing (`def_map.rs:1187`).
- `mod a { pub mod d { fn y } } use a::*; mod b { use super::d::y as x; use x as y; }
  use b as d;` is accepted, and `b` holds the private `y` of `a::d`: the explicit
  import gives `d` another meaning after the glob's has been used
  (`def_map.rs:1118`), and the path that is checked leads to `b` itself.
- `pub(in path)` takes any module its path leads to, a sibling too, which hides the
  item from the module it is in.
- Duplicate methods are not reported: the last one answers (`def_map.rs:1345`).
  Consts of an inherent impl get no def (`def_map.rs:1302`).
- The path of an impl is one segment, `impl_<trait>_<type>`, so that a function of
  that name shares it, told apart by the counter (`def_map.rs:1364`).
- A struct pattern in a `for` is taken for one name (`body.rs:1156`), where
  `grammar.js:444` has any pattern.
- A local named like a const generic is shadowed by it inside widths and shadows
  it as a value; a parameter named like a result place cannot be reached.

**Signatures.**

- `Self @clk` or `self @clk` in an impl for a vector or a tuple loses the domain
  (`sig.rs:1283`, `:805`), against the comments at `:1267` and `:797`.
- `@typo` is silently no domain (comment at `sig.rs:68`); `@const` on an
  aggregate in the middle masks a conflict; an impl's `where` clause is ignored;
  omitted domain arguments misalign the arguments with the generics.

**Constants.**

- The search for a local's driver does not enter a block's tail, so a `let` in an
  `else if` arm is not found, where `mir/const_eval.rs:322` says lets are reached by
  demand; if both arms of an `if` drive one local, the first one's value is taken
  whatever the condition, and folding changes the result.
- An output parameter is looked up by the position of its argument, so that a
  method call with a receiver reads the wrong one in MIR.
- HIR calls a width failed whose value uses an associated const, a user's method
  or a type-path call, which MIR evaluates.
- A condition that is a const of the caller is evaluated in the callee's frame;
  `eval_assoc` has no depth limit; `-v` overflows for the least `i128`.

**Checks.**

- `mono_check` walks both arms of a `const if`, so a recursion that one ends is
  reported to have a negative width (`mono_check.rs:170`;
  `archive/planning/comptime_if.md:9`).  It walks equal instantiations again, what
  the budget cuts off is silent (`:162`), and a width too large for the
  evaluator's steps is called a division by zero (`:336`).
- For a vector driven in parts only the first segment of a path counts
  (`check.rs:392` against `:370`); a `when` counts as a drive of the whole local
  (`check.rs:517`), where `proposals/when_binding.md` speaks of leaves.

**Emission and lowering.**

- The caller's substitution is applied to locals only (`lower.rs:3518`): in a copy
  a field or a call's result keeps its type parameter, and `sv_type` panics.
- Two copies of one port kind with different arguments share a module
  (`lower.rs:530`); `module_name` leaves the path of the module out.
- `when ... init` as a value, a `let` or a `return` emits the initial assignment of
  its register before its declaration (`lower.rs:2743`).
- `result = b` with `b` a local of port type drives the result's input leaf
  (`lower.rs:1240`), and `let b = a` of a port assigns the backward leaves the
  wrong way.
- The parts of a fold's tuple accumulator that are computed from each other see
  each other's new values: one blocking assignment per leaf (`lower.rs:1046`;
  `proposals/compile_mutable.md:7`).  `MCLowering.CrossCrates` has them.
- A clock argument of an instance is always the caller's first clock
  (`lower.rs:3440`), as is that of a register of a vector or tuple (`:2861`;
  `README.md:53` of the repository).
- A splice of an `#[inline]` function with named results takes the last bare
  equation for its value, and an equation of a part drives the caller's net
  (`lower.rs:1689` against the comments at `:3135`, `check.rs:837`).
- Generated names may collide: user locals `x`, `x_1`, `x` (`lower.rs:449`), and an
  instance with a local of its callee's name.
- `if` statements at the top, calls inside `when`, a `let` inside a fold's loop and
  inline calls with outputs are dropped; zips truncate.

**Formatter.**

- An index or slice after a field moves to the base (`format.rs`, the fallthrough
  arm `base.push`): `a.w[b]` becomes `a[b].w`.
- Comments inside a `let`, a binary expression, an assignment, a vector literal or a
  named return are dropped, where `lib.rs:6` says line comments are preserved; a
  trailing comment in an arm, a method chain or first in parentheses swallows
  what follows it on the line.
- A struct pattern with comments prints its constructor twice.
- A broken list of type arguments gets a trailing comma, which the grammar
  refuses.
- `fs::write` truncates before it writes: a failing write loses the file
  (`main.rs:141`, exit code 2).
