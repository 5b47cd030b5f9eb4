----------------------------- MODULE NameTable -----------------------------
(***************************************************************************)
(* What name resolution promises of a crate's name tables, whatever the    *)
(* crate: names are declared first, imported next, and then the tables are *)
(* frozen.  A binding only ever gives way to a stronger one                *)
(*     absent < glob < import < def                                        *)
(* a def is declared under one name, and nothing else is ever bound:       *)
(* imports copy a def the tables already bind in the same namespace.       *)
(***************************************************************************)
EXTENDS Integers

CONSTANTS
    Key,        \* <<module, name, namespace>>
    Absent      \* the binding of a name that is not bound

VARIABLES
    stage,      \* "declaring", "importing" or "frozen"
    table       \* from keys to bindings [def, vis, source]

Strength(source) == CASE source = "Absent" -> 0
                      [] source = "Glob"   -> 1
                      [] source = "Import" -> 2
                      [] source = "Def"    -> 3

Init == stage = "declaring" /\ table = [k \in Key |-> Absent]

(* A declaration binds a free name to a def that has no name yet. *)
Declares(old, new) ==
    /\ old.source = "Absent"
    /\ new.source = "Def"
    /\ \A j \in Key : table[j].source # "Absent" => table[j].def # new.def

(* The visibility of a declared name is refined. *)
Refines(old, new) ==
    /\ old.source = "Def"
    /\ new.source = "Def"
    /\ new.def = old.def

(* An import binds a name, or takes it over from a weaker binding. *)
Imports(old, new, k) ==
    /\ new.source \in {"Glob", "Import"}
    /\ Strength(old.source) < Strength(new.source)
    /\ \E j \in Key : /\ table[j].def = new.def
                      /\ table[j].source # "Absent"
                      /\ j[3] = k[3]

Declare ==
    /\ stage = "declaring"
    /\ stage' = "declaring"
    /\ DOMAIN table' = Key
    /\ \A k \in Key : \/ table'[k] = table[k]
                      \/ Declares(table[k], table'[k])
                      \/ Refines(table[k], table'[k])

Import ==
    /\ stage = "importing"
    /\ stage' = "importing"
    /\ DOMAIN table' = Key
    /\ \A k \in Key : table'[k] = table[k] \/ Imports(table[k], table'[k], k)

Advance ==
    /\ \/ stage = "declaring" /\ stage' = "importing"
       \/ stage = "importing" /\ stage' = "frozen"
    /\ UNCHANGED table

Next == Declare \/ Import \/ Advance

Spec == Init /\ [][Next]_<<stage, table>>
=============================================================================
